----------------------------- MODULE OutboxProofs -----------------------------
(* Proofs, for any rows, processes, worker ids and retry budget, of the       *)
(* safety properties of OutboxWorker.                                         *)
EXTENDS OutboxWorker, TLAPS

(* The inductive invariant.  LeaseUnique is inductive only together with the  *)
(* bound on leases; RetryBudget feeds the type of attempts; EchoConsistent    *)
(* needs what InFlight says about processes between two transactions.         *)
IndInv ==
    /\ TypeOK
    /\ LeaseUnique
    /\ RetryBudget
    /\ ProjectedOnce
    /\ EchoConsistent
    /\ InFlight

(* fetch_and_lock_pending only selects rows that may be locked: PENDING ones  *)
(* and FAILED ones.                                                           *)
LEMMA BatchEligible ==
    ASSUME NEW B \in Batches, NEW e \in B
    PROVE  e \in Events /\ status[e] \in {"PENDING", "FAILED"}
BY DEF Batches, Oldest, PendingRows, DueFailedRows

(* Init establishes the inductive invariant. *)
LEMMA InitInv == Init => IndInv
<1>1. SUFFICES ASSUME Init PROVE IndInv
  OBVIOUS
<1>2. TypeOK
  BY <1>1, OutboxAssumption DEF OutboxAssumption, Init, TypeOK, Statuses, ResultStates, Labels, NoLeases
<1>3. LeaseUnique /\ RetryBudget /\ ProjectedOnce /\ EchoConsistent
  BY <1>1, OutboxAssumption
     DEF OutboxAssumption, Init, LeaseUnique, RetryBudget, ProjectedOnce, EchoConsistent, NoLeases
<1>4. InFlight
  BY <1>1, OutboxAssumption DEF OutboxAssumption, Init, InFlight, Handling
<1>5. QED
  BY <1>2, <1>3, <1>4 DEF IndInv

(* A step that changes no process and no row but the producer's keeps it. *)
LEMMA AddInv ==
    ASSUME IndInv, NEW e \in Events, AddOutboxEvent(e) PROVE IndInv'
<1> USE OutboxAssumption DEF OutboxAssumption, AddOutboxEvent, procVars, IsEcho
<1>1. TypeOK'
  BY DEF IndInv, TypeOK, Statuses, ResultStates
<1>2. LeaseUnique' /\ RetryBudget'
  BY DEF IndInv, TypeOK, LeaseUnique, RetryBudget
<1>3. ProjectedOnce' /\ EchoConsistent'
  BY DEF IndInv, TypeOK, ProjectedOnce, EchoConsistent, RetryBudget
<1>4. InFlight'
  BY DEF IndInv, TypeOK, EchoConsistent, InFlight, Handling
<1>5. QED
  BY <1>1, <1>2, <1>3, <1>4 DEF IndInv

(* A row somebody leased has been added, with its result if it is an Echo job. *)
LEMMA LeasedRow ==
    ASSUME IndInv, NEW p \in Processes, NEW e \in Events, lease[p][e] # 0
    PROVE  status[e] # "ABSENT" /\ (IsEcho(e) => result[e] # "NONE")
<1>1. lease[p][e] \in Nat /\ attempts[e] \in Nat /\ lease[p][e] <= attempts[e]
  BY OutboxAssumption DEF OutboxAssumption, IndInv, TypeOK, LeaseUnique
<1>2. status[e] # "ABSENT"
  BY <1>1 DEF IndInv, RetryBudget
<1>3. QED
  BY <1>2 DEF IndInv, EchoConsistent

(* So has the row a process is working on. *)
LEMMA CurrentRow ==
    ASSUME IndInv, NEW p \in Processes, pc[p] \in Handling
    PROVE  /\ current[p] \in Events
           /\ status[current[p]] # "ABSENT"
           /\ IsEcho(current[p]) => result[current[p]] # "NONE"
<1>1. current[p] \in Events /\ lease[p][current[p]] # 0
  BY DEF IndInv, TypeOK, InFlight
<1>2. QED
  BY <1>1, LeasedRow

(* Releasing a row changes one lease, to none. *)
LEMMA ReleaseLease ==
    ASSUME TypeOK, NEW p \in Processes, NEW e \in Events, Release(p, e)
    PROVE  /\ pc' \in [Processes -> Labels]
           /\ lease' \in [Processes -> [Events -> 0..MaxAttempts]]
           /\ current' \in [Processes -> Events \cup {NoEvent}]
           /\ \A q \in Processes, f \in Events :
                 lease'[q][f] = IF q = p /\ f = e THEN 0 ELSE lease[q][f]
BY OutboxAssumption DEF OutboxAssumption, TypeOK, Release, Labels

(* A fenced write changes nothing, or finishes one PROCESSING row. *)
LEMMA FencedWrite ==
    ASSUME TypeOK, NEW p \in Processes, NEW e \in Events, NEW new \in Statuses,
           UpdateStatus(p, e, new)
    PROVE  /\ status' \in [Events -> Statuses]
           /\ lockedBy' \in [Events -> {WorkerId[q] : q \in Processes} \cup {NoWorker}]
           /\ elapsed' \in [Events -> BOOLEAN]
           /\ attempts' = attempts
           /\ \A f \in Events : f # e => status'[f] = status[f]
           /\ ~Fenced(p, e) => status' = status
           /\ Fenced(p, e) =>
                 status[e] = "PROCESSING" /\ status'[e] = new /\ attempts[e] = lease[p][e]
BY DEF TypeOK, UpdateStatus, Fenced

(* Time passing changes no state but the deadline bits. *)
LEMMA DeadlineInv ==
    ASSUME IndInv, NEW e \in Events, DeadlinePasses(e) PROVE IndInv'
<1> USE OutboxAssumption DEF OutboxAssumption, DeadlinePasses, rowVars, workVars, procVars, IsEcho
<1>1. TypeOK'
  BY DEF IndInv, TypeOK, Statuses, ResultStates, Labels, InFlight, Handling
<1>2. LeaseUnique'
  BY DEF IndInv, TypeOK, LeaseUnique
<1>3. RetryBudget'
  BY DEF IndInv, TypeOK, RetryBudget
<1>4. ProjectedOnce' /\ EchoConsistent'
  BY DEF IndInv, TypeOK, ProjectedOnce, EchoConsistent, InFlight, Handling
<1>5. InFlight'
  BY DEF IndInv, TypeOK, LeaseUnique, RetryBudget, EchoConsistent, InFlight, Handling
<1>6. QED
  BY <1>1, <1>2, <1>3, <1>4, <1>5 DEF IndInv

(* The decision taken from the result read is the one InFlight records. *)
LEMMA EchoReadInv ==
    ASSUME IndInv, NEW p \in Processes, NEW e \in Events, EchoRead(p, e) PROVE IndInv'
<1> USE OutboxAssumption DEF OutboxAssumption, EchoRead, Holds, rowVars, workVars, procVars, IsEcho
<1>1. TypeOK'
  BY DEF IndInv, TypeOK, Labels
<1>2. LeaseUnique' /\ RetryBudget' /\ ProjectedOnce' /\ EchoConsistent'
  BY DEF IndInv, LeaseUnique, RetryBudget, ProjectedOnce, EchoConsistent
<1>3. result[e] # "NONE"
  BY LeasedRow
<1>4. InFlight'
  BY <1>3 DEF IndInv, TypeOK, InFlight, Handling, ResultStates
<1>5. QED
  BY <1>1, <1>2, <1>4 DEF IndInv

(* Completing the result and metering the run. *)
LEMMA EchoRunInv ==
    ASSUME IndInv, NEW p \in Processes, EchoRun(p) PROVE IndInv'
<1> DEFINE e == current[p]
<1> USE OutboxAssumption DEF OutboxAssumption, rowVars, workVars, procVars, IsEcho
<1>1. e \in Events /\ result[e] # "NONE" /\ IsEcho(e)
  BY CurrentRow DEF EchoRun, IndInv, InFlight, Handling
<1>2. /\ UNCHANGED <<status, attempts, lockedBy, elapsed, projected>>
      /\ UNCHANGED <<lease, current, orphans, faults>>
      /\ pc' = [pc EXCEPT ![p] = "ack"] \/ pc' = [pc EXCEPT ![p] = "failing"]
      /\ pc[p] = "echo"
      /\ meter' = [meter EXCEPT ![e] = @ + 1]
      /\ result' = IF result[e] = "PENDING" THEN [result EXCEPT ![e] = "COMPLETE"] ELSE result
  BY DEF EchoRun, SettleResult
<1>3. /\ result' \in [Events -> ResultStates]
      /\ result'[e] \in {"COMPLETE", "FAILED"}
      /\ \A f \in Events : f # e => result'[f] = result[f]
      /\ result[e] # "PENDING" => result'[e] = result[e]
      /\ result[e] = "PENDING" => result'[e] = "COMPLETE"
  BY <1>1, <1>2 DEF IndInv, TypeOK, ResultStates
<1>4. /\ meter' \in [Events -> Nat]
      /\ meter'[e] > 0
      /\ \A f \in Events : f # e => meter'[f] = meter[f]
  <2> HIDE DEF e
  <2>1. meter \in [Events -> Nat] /\ meter[e] \in Nat
    BY <1>1 DEF IndInv, TypeOK
  <2>2. QED
    BY <1>1, <1>2, <2>1
<1>5. TypeOK'
  BY <1>2, <1>3, <1>4 DEF IndInv, TypeOK, Labels
<1>6. LeaseUnique' /\ RetryBudget' /\ ProjectedOnce'
  BY <1>2 DEF IndInv, LeaseUnique, RetryBudget, ProjectedOnce
<1>7. EchoConsistent'
  BY <1>1, <1>2, <1>3, <1>4 DEF IndInv, EchoConsistent
<1>8. InFlight'
  BY <1>1, <1>2, <1>3 DEF IndInv, TypeOK, InFlight, Handling
<1>9. QED
  BY <1>5, <1>6, <1>7, <1>8 DEF IndInv

(* An exception of an Echo attempt. *)
LEMMA EchoRaisesInv ==
    ASSUME IndInv, NEW p \in Processes, EchoRaises(p) PROVE IndInv'
<1> USE OutboxAssumption DEF OutboxAssumption, EchoRaises, RecordFailure, rowVars, workVars, procVars, IsEcho
<1>1. TypeOK'
  BY DEF IndInv, TypeOK, Statuses, ResultStates, Labels, InFlight, Handling
<1>2. LeaseUnique'
  BY DEF IndInv, TypeOK, LeaseUnique
<1>3. RetryBudget'
  BY DEF IndInv, TypeOK, RetryBudget
<1>4. ProjectedOnce' /\ EchoConsistent'
  BY DEF IndInv, TypeOK, ProjectedOnce, EchoConsistent, InFlight, Handling
<1>5. InFlight'
  BY DEF IndInv, TypeOK, LeaseUnique, RetryBudget, EchoConsistent, InFlight, Handling
<1>6. QED
  BY <1>1, <1>2, <1>3, <1>4, <1>5 DEF IndInv

(* An exception before the commit. *)
LEMMA ProcessRaisesInv ==
    ASSUME IndInv, NEW p \in Processes, NEW e \in Events, ProcessRaises(p, e) PROVE IndInv'
<1> USE OutboxAssumption DEF OutboxAssumption, ProcessRaises, Holds, Raise, rowVars, workVars, procVars, IsEcho
<1>1. TypeOK'
  BY DEF IndInv, TypeOK, Statuses, ResultStates, Labels, InFlight, Handling
<1>2. LeaseUnique'
  BY DEF IndInv, TypeOK, LeaseUnique
<1>3. RetryBudget'
  BY DEF IndInv, TypeOK, RetryBudget
<1>4. ProjectedOnce' /\ EchoConsistent'
  BY DEF IndInv, TypeOK, ProjectedOnce, EchoConsistent, InFlight, Handling
<1>5. InFlight'
  BY DEF IndInv, TypeOK, LeaseUnique, RetryBudget, EchoConsistent, InFlight, Handling
<1>6. QED
  BY <1>1, <1>2, <1>3, <1>4, <1>5 DEF IndInv

(* Failing the result of a row this process dead-lettered. *)
LEMMA MarkEchoInv ==
    ASSUME IndInv, NEW p \in Processes, MarkEchoResultFailed(p) PROVE IndInv'
<1> USE OutboxAssumption DEF OutboxAssumption, MarkEchoResultFailed, SettleResult, Release, rowVars, workVars, procVars, IsEcho
<1>1. TypeOK'
  BY DEF IndInv, TypeOK, Statuses, ResultStates, Labels, InFlight, Handling
<1>2. LeaseUnique'
  BY DEF IndInv, TypeOK, LeaseUnique
<1>3. RetryBudget'
  BY DEF IndInv, TypeOK, RetryBudget
<1>4. ProjectedOnce' /\ EchoConsistent'
  BY DEF IndInv, TypeOK, ProjectedOnce, EchoConsistent, InFlight, Handling
<1>5. InFlight'
  BY DEF IndInv, TypeOK, LeaseUnique, RetryBudget, EchoConsistent, InFlight, Handling
<1>6. QED
  BY <1>1, <1>2, <1>3, <1>4, <1>5 DEF IndInv

(* Failing the result of a row a sweep dead-lettered. *)
LEMMA FailOrphanInv ==
    ASSUME IndInv, NEW p \in Processes, NEW e \in Events, FailOrphan(p, e) PROVE IndInv'
<1> USE OutboxAssumption DEF OutboxAssumption, FailOrphan, SettleResult, rowVars, workVars, procVars, IsEcho
<1>1. TypeOK'
  BY DEF IndInv, TypeOK, Statuses, ResultStates, Labels, InFlight, Handling
<1>2. LeaseUnique'
  BY DEF IndInv, TypeOK, LeaseUnique
<1>3. RetryBudget'
  BY DEF IndInv, TypeOK, RetryBudget
<1>4. ProjectedOnce' /\ EchoConsistent'
  BY DEF IndInv, TypeOK, ProjectedOnce, EchoConsistent, InFlight, Handling
<1>5. InFlight'
  BY DEF IndInv, TypeOK, LeaseUnique, RetryBudget, EchoConsistent, InFlight, Handling
<1>6. QED
  BY <1>1, <1>2, <1>3, <1>4, <1>5 DEF IndInv

(* The end of an iteration. *)
LEMMA HeartbeatInv ==
    ASSUME IndInv, NEW p \in Processes, RecordHeartbeat(p) PROVE IndInv'
<1> USE OutboxAssumption DEF OutboxAssumption, RecordHeartbeat, rowVars, workVars, procVars, IsEcho
<1>1. TypeOK'
  BY DEF IndInv, TypeOK, Statuses, ResultStates, Labels, InFlight, Handling
<1>2. LeaseUnique'
  BY DEF IndInv, TypeOK, LeaseUnique
<1>3. RetryBudget'
  BY DEF IndInv, TypeOK, RetryBudget
<1>4. ProjectedOnce' /\ EchoConsistent'
  BY DEF IndInv, TypeOK, ProjectedOnce, EchoConsistent, InFlight, Handling
<1>5. InFlight'
  BY DEF IndInv, TypeOK, LeaseUnique, RetryBudget, EchoConsistent, InFlight, Handling
<1>6. QED
  BY <1>1, <1>2, <1>3, <1>4, <1>5 DEF IndInv

(* A restart. *)
LEMMA RestartInv ==
    ASSUME IndInv, NEW p \in Processes, Restart(p) PROVE IndInv'
<1> USE OutboxAssumption DEF OutboxAssumption, Restart, rowVars, workVars, procVars, IsEcho
<1>1. TypeOK'
  BY DEF IndInv, TypeOK, Statuses, ResultStates, Labels, InFlight, Handling
<1>2. LeaseUnique'
  BY DEF IndInv, TypeOK, LeaseUnique
<1>3. RetryBudget'
  BY DEF IndInv, TypeOK, RetryBudget
<1>4. ProjectedOnce' /\ EchoConsistent'
  BY DEF IndInv, TypeOK, ProjectedOnce, EchoConsistent, InFlight, Handling
<1>5. InFlight'
  BY DEF IndInv, TypeOK, LeaseUnique, RetryBudget, EchoConsistent, InFlight, Handling
<1>6. QED
  BY <1>1, <1>2, <1>3, <1>4, <1>5 DEF IndInv

(* A fault loses leases, never rows. *)
LEMMA ForgetInv ==
    ASSUME IndInv, NEW p \in Processes, NEW label \in {"idle", "down"}, Forget(p, label) PROVE IndInv'
<1> USE OutboxAssumption DEF OutboxAssumption, Forget, NoLeases, rowVars, workVars, procVars, IsEcho
<1>1. TypeOK'
  BY DEF IndInv, TypeOK, Statuses, ResultStates, Labels, InFlight, Handling
<1>2. LeaseUnique'
  BY DEF IndInv, TypeOK, LeaseUnique
<1>3. RetryBudget'
  BY DEF IndInv, TypeOK, RetryBudget
<1>4. ProjectedOnce' /\ EchoConsistent'
  BY DEF IndInv, TypeOK, ProjectedOnce, EchoConsistent, InFlight, Handling
<1>5. InFlight'
  BY DEF IndInv, TypeOK, LeaseUnique, RetryBudget, EchoConsistent, InFlight, Handling
<1>6. QED
  BY <1>1, <1>2, <1>3, <1>4, <1>5 DEF IndInv

(* A sweep returns or dead-letters stale rows and touches no lease. *)
LEMMA SweepInv ==
    ASSUME IndInv, NEW p \in Processes, RecoverStaleLocks(p) PROVE IndInv'
<1> USE OutboxAssumption DEF OutboxAssumption, RecoverStaleLocks, StaleRows, OrphanRows, Exhausted, rowVars, workVars, procVars, IsEcho
<1>1. TypeOK'
  BY DEF IndInv, TypeOK, Statuses, ResultStates, Labels, InFlight, Handling
<1>2. LeaseUnique'
  BY DEF IndInv, TypeOK, LeaseUnique
<1>3. RetryBudget'
  <2>1. SUFFICES ASSUME NEW e \in Events
        PROVE /\ status'[e] = "ABSENT" => attempts[e] = 0
              /\ status'[e] \in {"PENDING", "FAILED"} => attempts[e] < MaxAttempts
              /\ status'[e] = "DEAD_LETTER" => attempts[e] = MaxAttempts \/ Kind[e] = "OTHER"
    BY DEF RetryBudget
  <2>2. attempts[e] \in 0..MaxAttempts
    BY DEF IndInv, TypeOK
  <2>3. QED
    BY <2>2 DEF IndInv, RetryBudget
<1>4. ProjectedOnce' /\ EchoConsistent'
  BY DEF IndInv, TypeOK, ProjectedOnce, EchoConsistent, InFlight, Handling
<1>5. InFlight'
  BY DEF IndInv, TypeOK, LeaseUnique, RetryBudget, EchoConsistent, InFlight, Handling
<1>6. QED
  BY <1>1, <1>2, <1>3, <1>4, <1>5 DEF IndInv

(* Every fenced write of a process about a row it leased: the five actions    *)
(* below differ in the status written and in what the process does next.      *)
LEMMA WriteInv ==
    ASSUME IndInv, NEW p \in Processes, NEW e \in Events, NEW new \in Statuses,
           lease[p][e] # 0,
           new \in {"PROCESSED", "FAILED", "DEAD_LETTER"},
           new = "FAILED" => lease[p][e] < MaxAttempts,
           new = "DEAD_LETTER" => lease[p][e] >= MaxAttempts \/ Kind[e] = "OTHER",
           new = "PROCESSED" /\ IsEcho(e) => result[e] \in {"COMPLETE", "FAILED"},
           new = "PROCESSED" => Kind[e] # "OTHER",
           UpdateStatus(p, e, new),
           UNCHANGED <<result, meter, faults>>,
           projected' = IF Fenced(p, e) /\ Kind[e] = "CLAIMS_UPDATED" /\ new = "PROCESSED"
                        THEN [projected EXCEPT ![e] = @ + 1] ELSE projected,
           \/ Release(p, e)
           \/ Raise(p, e)
           \/ /\ pc' = [pc EXCEPT ![p] = "failresult"]
              /\ current' = [current EXCEPT ![p] = e]
              /\ UNCHANGED <<lease, orphans>>
              /\ IsEcho(e) /\ Fenced(p, e) /\ new = "DEAD_LETTER"
    PROVE  IndInv'
<1> USE OutboxAssumption DEF OutboxAssumption
<1>1. TypeOK /\ LeaseUnique /\ RetryBudget /\ ProjectedOnce /\ EchoConsistent /\ InFlight
  BY DEF IndInv
<1>2. /\ status' \in [Events -> Statuses]
      /\ lockedBy' \in [Events -> {WorkerId[q] : q \in Processes} \cup {NoWorker}]
      /\ elapsed' \in [Events -> BOOLEAN]
      /\ attempts' = attempts
      /\ \A f \in Events : f # e => status'[f] = status[f]
      /\ ~Fenced(p, e) => status' = status
      /\ Fenced(p, e) =>
            status[e] = "PROCESSING" /\ status'[e] = new /\ attempts[e] = lease[p][e]
  BY <1>1, FencedWrite
<1>3. /\ pc' \in [Processes -> Labels]
      /\ lease' \in [Processes -> [Events -> 0..MaxAttempts]]
      /\ current' \in [Processes -> Events \cup {NoEvent}]
      /\ orphans' = orphans
      /\ \A q \in Processes, f \in Events :
            lease'[q][f] = lease[q][f] \/ (q = p /\ f = e /\ lease'[q][f] = 0)
  <2>1. CASE Release(p, e)
    <3>1. orphans' = orphans
      BY <2>1 DEF Release
    <3>2. QED
      BY <1>1, <2>1, <3>1, ReleaseLease
  <2>2. CASE ~Release(p, e)
    <3>1. /\ UNCHANGED <<lease, orphans>>
          /\ current' = [current EXCEPT ![p] = e]
          /\ \/ pc' = [pc EXCEPT ![p] = "failing"]
             \/ pc' = [pc EXCEPT ![p] = "failresult"]
      BY <2>2 DEF Raise
    <3>2. QED
      BY <1>1, <3>1 DEF TypeOK, Labels
  <2>3. QED
    BY <2>1, <2>2
<1>4. attempts[e] \in 0..MaxAttempts /\ lease[p][e] \in 0..MaxAttempts
  BY <1>1 DEF TypeOK
<1>5. projected' \in [Events -> Nat]
  BY <1>1 DEF TypeOK
<1>6. TypeOK'
  BY <1>1, <1>2, <1>3, <1>5 DEF TypeOK
<1>7. LeaseUnique'
  <2>1. SUFFICES ASSUME NEW q \in Processes, NEW f \in Events
        PROVE  /\ lease'[q][f] <= attempts[f]
               /\ \A r \in Processes \ {q} : lease'[q][f] # 0 => lease'[q][f] # lease'[r][f]
    BY <1>2 DEF LeaseUnique
  <2>2. attempts[f] \in 0..MaxAttempts /\ lease[q][f] <= attempts[f]
    BY <1>1 DEF TypeOK, LeaseUnique
  <2>3. QED
    BY <1>1, <1>3, <2>2 DEF LeaseUnique
<1>8. RetryBudget'
  BY <1>1, <1>2, <1>4 DEF RetryBudget
<1>9. ProjectedOnce'
  BY <1>1, <1>2 DEF TypeOK, ProjectedOnce, IsEcho
<1>10. EchoConsistent'
  BY <1>1, <1>2 DEF EchoConsistent, IsEcho
<1>11. InFlight'
  <2> SUFFICES ASSUME NEW q \in Processes
      PROVE  /\ pc'[q] \in Handling <=> current'[q] # NoEvent
             /\ pc'[q] \in Handling => lease'[q][current'[q]] # 0
             /\ pc'[q] \in {"echo", "ack", "failresult"} => IsEcho(current'[q])
             /\ pc'[q] = "ack" => result[current'[q]] \in {"COMPLETE", "FAILED"}
             /\ pc'[q] = "failresult" => status'[current'[q]] = "DEAD_LETTER"
             /\ \A f \in orphans[q] : IsEcho(f) /\ status'[f] = "DEAD_LETTER"
    BY <1>3 DEF InFlight, IsEcho
  <2>1. \A f \in Events : status[f] = "DEAD_LETTER" => status'[f] = "DEAD_LETTER"
    BY <1>2
  <2>2. \A f \in orphans[q] : IsEcho(f) /\ status'[f] = "DEAD_LETTER"
    BY <1>1, <2>1 DEF TypeOK, InFlight
  <2>3. CASE q # p
    <3>1. pc'[q] = pc[q] /\ current'[q] = current[q]
      BY <1>1, <2>3 DEF TypeOK, Release, Raise
    <3>2. pc[q] \in Handling <=> current[q] # NoEvent
      BY <1>1 DEF InFlight
    <3>3. CASE current[q] = NoEvent
      BY <2>2, <3>1, <3>2, <3>3 DEF Handling
    <3>4. CASE current[q] # NoEvent
      <4>1. current[q] \in Events
        BY <1>1, <3>4 DEF TypeOK
      <4>2. lease'[q][current[q]] = lease[q][current[q]]
        BY <1>3, <2>3, <4>1
      <4>3. QED
        BY <1>1, <2>1, <2>2, <3>1, <4>1, <4>2 DEF InFlight
    <3>5. QED
      BY <3>3, <3>4
  <2>4. CASE q = p
    BY <1>1, <1>2, <2>2, <2>4 DEF TypeOK, Release, Raise, Handling
  <2>5. QED
    BY <2>3, <2>4
<1>12. QED
  BY <1>6, <1>7, <1>8, <1>9, <1>10, <1>11 DEF IndInv

(* Reprojection with its acknowledgement. *)
LEMMA ClaimsInv ==
    ASSUME IndInv, NEW p \in Processes, NEW e \in Events, ProcessClaims(p, e) PROVE IndInv'
<1>1. /\ lease[p][e] # 0
      /\ UpdateStatus(p, e, "PROCESSED")
      /\ UNCHANGED <<result, meter, faults>>
      /\ Kind[e] = "CLAIMS_UPDATED"
      /\ projected' = IF Fenced(p, e) THEN [projected EXCEPT ![e] = @ + 1] ELSE projected
      /\ Release(p, e) \/ Raise(p, e)
  BY DEF ProcessClaims, Holds, CommitClaims, CommitProjection
<1>2. QED
  BY <1>1, WriteInv DEF IsEcho, Statuses

(* Dead-lettering a row of an unknown type. *)
LEMMA UnknownInv ==
    ASSUME IndInv, NEW p \in Processes, NEW e \in Events, DeadLetterUnknown(p, e) PROVE IndInv'
<1>1. /\ lease[p][e] # 0
      /\ UpdateStatus(p, e, "DEAD_LETTER")
      /\ UNCHANGED <<result, meter, faults, projected>>
      /\ Kind[e] = "OTHER"
      /\ Release(p, e) \/ Raise(p, e)
  BY DEF DeadLetterUnknown, Holds, workVars
<1>2. QED
  BY <1>1, WriteInv DEF IsEcho, Statuses

(* Acknowledging an Echo row whose result is settled. *)
LEMMA EchoAckInv ==
    ASSUME IndInv, NEW p \in Processes, EchoAck(p) PROVE IndInv'
<1> DEFINE e == current[p]
<1>1. /\ e \in Events
      /\ lease[p][e] # 0
      /\ IsEcho(e)
      /\ result[e] \in {"COMPLETE", "FAILED"}
  BY CurrentRow DEF EchoAck, IndInv, InFlight, Handling
<1>2. /\ UpdateStatus(p, e, "PROCESSED")
      /\ UNCHANGED <<result, meter, faults, projected>>
      /\ Release(p, e) \/ Raise(p, e)
  BY DEF EchoAck, workVars
<1> HIDE DEF e
<1>3. QED
  BY <1>1, <1>2, WriteInv DEF IsEcho, Statuses

(* Failing or dead-lettering a row. *)
LEMMA MarkFailedInv ==
    ASSUME IndInv, NEW p \in Processes, MarkFailed(p) PROVE IndInv'
<1> DEFINE e == current[p]
<1> DEFINE new == FailureStatus(p, e)
<1>1. /\ e \in Events
      /\ lease[p][e] # 0
      /\ lease[p][e] \in Int
      /\ MaxAttempts \in Int
      /\ current = [current EXCEPT ![p] = e]
  <2>1. pc[p] \in Handling
    BY DEF MarkFailed, Handling
  <2>2. e \in Events /\ lease[p][e] # 0
    BY <2>1, CurrentRow DEF IndInv, InFlight
  <2>3. lease[p][e] \in Int /\ MaxAttempts \in Int
    <3> HIDE DEF e
    <3>1. lease[p] \in [Events -> 0..MaxAttempts]
      BY DEF IndInv, TypeOK
    <3>2. QED
      BY <2>2, <3>1, OutboxAssumption DEF OutboxAssumption
  <2>4. current = [current EXCEPT ![p] = e]
    BY DEF IndInv, TypeOK
  <2>5. QED
    BY <2>2, <2>3, <2>4
<1>2. /\ UpdateStatus(p, e, new)
      /\ UNCHANGED <<result, meter, faults, projected>>
      /\ \/ Release(p, e)
         \/ /\ pc' = [pc EXCEPT ![p] = "failresult"]
            /\ current' = current
            /\ UNCHANGED <<lease, orphans>>
            /\ IsEcho(e) /\ Fenced(p, e) /\ new = "DEAD_LETTER"
  BY DEF MarkFailed, workVars
<1>3. /\ new \in {"FAILED", "DEAD_LETTER"}
      /\ new = "FAILED" => lease[p][e] < MaxAttempts
      /\ new = "DEAD_LETTER" => lease[p][e] >= MaxAttempts
  BY <1>1 DEF FailureStatus
<1> HIDE DEF e, new
<1>4. QED
  BY <1>1, <1>2, <1>3, WriteInv DEF Statuses

(* A poll gives each selected row a lease number nobody has held. *)
LEMMA FetchInv ==
    ASSUME IndInv, NEW p \in Processes, Fetch(p) PROVE IndInv'
<1> USE OutboxAssumption DEF OutboxAssumption
<1>1. PICK B \in Batches :
          /\ status' = [e \in Events |-> IF e \in B THEN "PROCESSING" ELSE status[e]]
          /\ attempts' = [e \in Events |-> IF e \in B THEN attempts[e] + 1 ELSE attempts[e]]
          /\ lockedBy' = [e \in Events |-> IF e \in B THEN WorkerId[p] ELSE lockedBy[e]]
          /\ elapsed' = [e \in Events |-> IF e \in B THEN FALSE ELSE elapsed[e]]
          /\ lease' = [lease EXCEPT ![p] =
                          [e \in Events |-> IF e \in B THEN attempts[e] + 1 ELSE 0]]
  BY DEF Fetch, NextAttempt
<1>2. /\ pc[p] = "idle"
      /\ pc' = [pc EXCEPT ![p] = "batch"]
      /\ UNCHANGED <<projected, result, meter, current, orphans, faults>>
  BY DEF Fetch, workVars
<1>3. \A e \in B : e \in Events /\ status[e] \in {"PENDING", "FAILED"}
  BY BatchEligible
<1>4. TypeOK /\ LeaseUnique /\ RetryBudget /\ ProjectedOnce /\ EchoConsistent /\ InFlight
  BY DEF IndInv
<1>5. \A e \in Events :
         /\ attempts[e] \in 0..MaxAttempts
         /\ e \in B => attempts[e] + 1 \in 1..MaxAttempts
  BY <1>3, <1>4 DEF TypeOK, RetryBudget
<1>6. TypeOK'
  <2>1. attempts' \in [Events -> 0..MaxAttempts]
    BY <1>1, <1>5
  <2>2. lease' \in [Processes -> [Events -> 0..MaxAttempts]]
    BY <1>1, <1>4, <1>5 DEF TypeOK
  <2>3. QED
    BY <1>1, <1>2, <1>4, <2>1, <2>2 DEF TypeOK, Statuses, Labels
<1>7. LeaseUnique'
  <2>1. SUFFICES ASSUME NEW q \in Processes, NEW e \in Events
        PROVE  /\ lease'[q][e] <= attempts'[e]
               /\ \A r \in Processes \ {q} : lease'[q][e] # 0 => lease'[q][e] # lease'[r][e]
    BY DEF LeaseUnique
  <2>2. \A r \in Processes : lease[r][e] \in Int /\ lease[r][e] <= attempts[e]
    BY <1>4 DEF TypeOK, LeaseUnique
  <2>3. \A r \in Processes :
           lease'[r][e] = IF r = p THEN IF e \in B THEN attempts[e] + 1 ELSE 0
                          ELSE lease[r][e]
    BY <1>1, <1>4 DEF TypeOK
  <2>4. attempts'[e] = IF e \in B THEN attempts[e] + 1 ELSE attempts[e]
    BY <1>1
  <2>5. attempts[e] \in Int
    BY <1>5
  <2>6. lease'[q][e] <= attempts'[e]
    <3>1. CASE q = p /\ e \in B
      <4>1. lease'[q][e] = attempts[e] + 1 /\ attempts'[e] = attempts[e] + 1
        BY <2>3, <2>4, <3>1
      <4>2. QED
        BY <2>5, <4>1
    <3>2. CASE q = p /\ e \notin B
      <4>1. lease'[q][e] = 0 /\ attempts'[e] = attempts[e]
        BY <2>3, <2>4, <3>2
      <4>2. 0 <= attempts[e]
        BY <1>5
      <4>3. QED
        BY <4>1, <4>2
    <3>3. CASE q # p
      <4>1. lease'[q][e] = lease[q][e] /\ attempts'[e] \in {attempts[e], attempts[e] + 1}
        BY <2>3, <2>4, <3>3
      <4>2. QED
        BY <2>2, <2>5, <4>1
    <3>4. QED
      BY <3>1, <3>2, <3>3
  <2>7. ASSUME NEW r \in Processes \ {q}, lease'[q][e] # 0 PROVE lease'[q][e] # lease'[r][e]
    <3>1. CASE q = p
      <4>1. lease'[q][e] = attempts[e] + 1
        BY <2>3, <2>7, <3>1
      <4>2. lease'[r][e] <= attempts[e]
        BY <2>2, <2>3, <3>1
      <4>3. QED
        BY <2>2, <2>3, <2>5, <3>1, <4>1, <4>2
    <3>2. CASE r = p
      <4>1. lease'[q][e] = lease[q][e]
        BY <2>3, <3>2
      <4>2. lease'[r][e] = attempts[e] + 1 \/ lease'[r][e] = 0
        BY <2>3, <3>2
      <4>3. QED
        BY <2>2, <2>5, <2>7, <4>1, <4>2
    <3>3. CASE q # p /\ r # p
      <4>1. lease'[q][e] = lease[q][e] /\ lease'[r][e] = lease[r][e]
        BY <2>3, <3>3
      <4>2. lease[q][e] # 0 => lease[q][e] # lease[r][e]
        BY <1>4 DEF LeaseUnique
      <4>3. QED
        BY <2>7, <4>1, <4>2
    <3>4. QED
      BY <3>1, <3>2, <3>3
  <2>8. QED
    BY <2>6, <2>7
<1>8. RetryBudget'
  BY <1>1, <1>3, <1>4 DEF RetryBudget
<1>9. ProjectedOnce' /\ EchoConsistent'
  BY <1>1, <1>2, <1>3, <1>4 DEF ProjectedOnce, EchoConsistent, IsEcho
<1>10. InFlight'
  <2>1. \A e \in Events : status[e] = "DEAD_LETTER" => status'[e] = "DEAD_LETTER"
    BY <1>1, <1>3
  <2>2. SUFFICES ASSUME NEW q \in Processes
        PROVE  /\ pc'[q] \in Handling <=> current[q] # NoEvent
               /\ pc'[q] \in Handling => lease'[q][current[q]] # 0
               /\ pc'[q] \in {"echo", "ack", "failresult"} => IsEcho(current[q])
               /\ pc'[q] = "ack" => result[current[q]] \in {"COMPLETE", "FAILED"}
               /\ pc'[q] = "failresult" => status'[current[q]] = "DEAD_LETTER"
               /\ \A e \in orphans[q] : IsEcho(e) /\ status'[e] = "DEAD_LETTER"
    BY <1>2 DEF InFlight, IsEcho
  <2>3. \A e \in orphans[q] : IsEcho(e) /\ status'[e] = "DEAD_LETTER"
    BY <1>4, <2>1 DEF TypeOK, InFlight
  <2>4. CASE q = p
    BY <1>2, <1>4, <2>3, <2>4 DEF TypeOK, InFlight, Handling
  <2>5. CASE q # p
    <3>1. pc'[q] = pc[q] /\ lease'[q] = lease[q]
      BY <1>1, <1>2, <1>4, <2>5 DEF TypeOK
    <3>2. current[q] # NoEvent => current[q] \in Events
      BY <1>4 DEF TypeOK
    <3>3. /\ pc[q] \in Handling <=> current[q] # NoEvent
          /\ pc[q] \in Handling => lease[q][current[q]] # 0
          /\ pc[q] \in {"echo", "ack", "failresult"} => IsEcho(current[q])
          /\ pc[q] = "ack" => result[current[q]] \in {"COMPLETE", "FAILED"}
          /\ pc[q] = "failresult" => status[current[q]] = "DEAD_LETTER"
      BY <1>4 DEF InFlight
    <3>4. pc[q] = "failresult" => current[q] \in Events
      BY <3>2, <3>3 DEF Handling
    <3>5. pc[q] = "failresult" => status'[current[q]] = "DEAD_LETTER"
      BY <2>1, <3>3, <3>4
    <3>6. QED
      BY <2>3, <3>1, <3>3, <3>5
  <2>6. QED
    BY <2>4, <2>5
<1>11. QED
  BY <1>6, <1>7, <1>8, <1>9, <1>10 DEF IndInv

-------------------------------------------------------------------------------
(* One step of any process, producer or clock preserves the invariant. *)
LEMMA NextInv == IndInv /\ [Next]_vars => IndInv'
<1> SUFFICES ASSUME IndInv, [Next]_vars PROVE IndInv'
  OBVIOUS
<1>1. ASSUME NEW e \in Events, AddOutboxEvent(e) PROVE IndInv'
  BY <1>1, AddInv
<1>2. ASSUME NEW e \in Events, DeadlinePasses(e) PROVE IndInv'
  BY <1>2, DeadlineInv
<1>3. ASSUME NEW p \in Processes, Work(p) PROVE IndInv'
  <2>1. ASSUME NEW e \in Events, Handle(p, e) PROVE IndInv'
    BY <2>1, ClaimsInv, UnknownInv, ProcessRaisesInv, EchoReadInv, FailOrphanInv DEF Handle
  <2>2. QED
    BY <1>3, <2>1, FetchInv, EchoRunInv, EchoRaisesInv, EchoAckInv, MarkFailedInv, MarkEchoInv,
       SweepInv, HeartbeatInv, RestartInv DEF Work
<1>4. ASSUME NEW p \in Processes, Crash(p) \/ LoopError(p) PROVE IndInv'
  BY <1>4, ForgetInv DEF Crash, LoopError
<1>5. CASE UNCHANGED vars
  BY <1>5 DEF IndInv, TypeOK, LeaseUnique, RetryBudget, ProjectedOnce, EchoConsistent, InFlight,
     vars, rowVars, workVars, procVars, IsEcho
<1>6. QED
  BY <1>1, <1>2, <1>3, <1>4, <1>5 DEF Next

(* The inductive invariant holds in every reachable state. *)
THEOREM Invariance == Spec => []IndInv
BY InitInv, NextInv, PTL DEF Spec

(* Every variable keeps its type; in particular attempt_count never exceeds   *)
(* outbox_max_attempts.                                                       *)
THEOREM TypeCorrect == Spec => []TypeOK
BY Invariance, PTL DEF IndInv

(* update_status's fence is sound: for any number of processes and any        *)
(* assignment of worker ids, equal ones included, no two processes hold a row *)
(* under the same attempt_count.                                              *)
THEOREM FenceSound == Spec => []LeaseUnique
BY Invariance, PTL DEF IndInv

(* A row that may still be locked has attempts left, and only exhausted rows  *)
(* or unknown types are dead-lettered.                                        *)
THEOREM BudgetRespected == Spec => []RetryBudget
BY Invariance, PTL DEF IndInv

(* The reprojection of a CLAIMS_UPDATED row commits exactly once, together    *)
(* with its acknowledgement.                                                  *)
THEOREM ExactlyOnce == Spec => []ProjectedOnce
BY Invariance, PTL DEF IndInv

(* Echo results and outbox rows agree: FAILED only after DEAD_LETTER, and     *)
(* PROCESSED only with a completed and metered result.                        *)
THEOREM EchoResultsAgree == Spec => []EchoConsistent
BY Invariance, PTL DEF IndInv

-------------------------------------------------------------------------------
(* Refinement of LeaseQueue.  Each step below is a step of the abstract queue *)
(* or leaves its state alone.                                                 *)

(* The worker never refuses a row while locking it. *)
QStep ==
    \/ \E e \in Events : Queue!Submit(e) \/ Queue!Complete(e) \/ Queue!Fail(e)
    \/ \E S \in SUBSET Events : Queue!Grant(S) \/ Queue!Expire(S)
    \/ UNCHANGED Queue!queueVars

(* Steps that touch neither status nor attempt_count nor projections. *)
LEMMA StutterStep ==
    ASSUME UNCHANGED <<status, attempts, projected>> PROVE QStep
BY DEF QStep, Queue!queueVars, QueuePhases, QueueEffects, QueuePhase

(* The abstract phase of each status. *)
LEMMA PhaseOf ==
    /\ QueuePhase("ABSENT") = "absent"
    /\ QueuePhase("PENDING") = "waiting"
    /\ QueuePhase("FAILED") = "waiting"
    /\ QueuePhase("PROCESSING") = "leased"
    /\ QueuePhase("PROCESSED") = "done"
    /\ QueuePhase("DEAD_LETTER") = "dead"
BY DEF QueuePhase

(* A fenced write completes or fails the leased job, or changes nothing. *)
LEMMA WriteStep ==
    ASSUME IndInv, NEW p \in Processes, NEW e \in Events,
           NEW new \in {"PROCESSED", "FAILED", "DEAD_LETTER"},
           new = "FAILED" => lease[p][e] < MaxAttempts,
           new = "PROCESSED" => Kind[e] # "OTHER",
           UpdateStatus(p, e, new),
           projected' = IF Fenced(p, e) /\ Kind[e] = "CLAIMS_UPDATED" /\ new = "PROCESSED"
                        THEN [projected EXCEPT ![e] = @ + 1] ELSE projected
    PROVE  QStep
<1>1. CASE ~Fenced(p, e)
  BY <1>1, StutterStep DEF UpdateStatus
<1>2. CASE Fenced(p, e)
  <2>1. /\ status[e] = "PROCESSING"
        /\ attempts[e] = lease[p][e]
        /\ status' = [status EXCEPT ![e] = new]
        /\ attempts' = attempts
        /\ status \in [Events -> Statuses]
        /\ projected \in [Events -> Nat]
        /\ \A f \in Events : QueuePhases[f] = QueuePhase(status[f])
        /\ \A f \in Events : QueuePhases'[f] = QueuePhase(status'[f])
    BY <1>2 DEF UpdateStatus, Fenced, IndInv, TypeOK, QueuePhases
  <2>2. QueuePhases[e] = "leased"
    BY <2>1 DEF QueuePhase
  <2>3. QueuePhases' = [QueuePhases EXCEPT ![e] = QueuePhase(new)]
    BY <2>1 DEF QueuePhases, QueuePhase
  <2>4. CASE new = "PROCESSED"
    <3>1. QueuePhase(new) = "done"
      BY <2>4 DEF QueuePhase
    <3>2. QueueEffects' = [QueueEffects EXCEPT ![e] = @ + 1]
      <4>1. CASE Kind[e] = "CLAIMS_UPDATED"
        <5>1. projected' = [projected EXCEPT ![e] = @ + 1]
          BY <1>2, <2>4, <4>1
        <5>2. QueueEffects' = [f \in Events |->
                                 IF f = e THEN QueueEffects[e] + 1 ELSE QueueEffects[f]]
          BY <2>1, <4>1, <5>1 DEF QueueEffects
        <5>3. [QueueEffects EXCEPT ![e] = @ + 1]
                = [f \in Events |-> IF f = e THEN QueueEffects[e] + 1 ELSE QueueEffects[f]]
          BY DEF QueueEffects
        <5>4. QED
          BY <5>2, <5>3
      <4>2. CASE Kind[e] # "CLAIMS_UPDATED"
        <5>1. projected' = projected
          BY <4>2
        <5>2. QueueEffects' = [f \in Events |->
                                 IF f = e THEN QueueEffects[e] + 1 ELSE QueueEffects[f]]
          BY <2>1, <2>4, <4>2, <5>1 DEF QueueEffects
        <5>3. [QueueEffects EXCEPT ![e] = @ + 1]
                = [f \in Events |-> IF f = e THEN QueueEffects[e] + 1 ELSE QueueEffects[f]]
          BY DEF QueueEffects
        <5>4. QED
          BY <5>2, <5>3
      <4>3. QED
        BY <4>1, <4>2
    <3>3. Queue!Complete(e)
      BY <2>1, <2>2, <2>3, <3>1, <3>2 DEF Queue!Complete
    <3>4. QED
      BY <3>3 DEF QStep
  <2>5. CASE new # "PROCESSED"
    <3>1. QueueEffects' = QueueEffects
      BY <2>1, <2>5 DEF QueueEffects
    <3>2. \/ QueuePhase(new) = "waiting" /\ attempts[e] < MaxAttempts
          \/ QueuePhase(new) = "dead"
      BY <2>1, <2>5 DEF QueuePhase
    <3>3. Queue!Fail(e)
      BY <2>1, <2>2, <2>3, <3>1, <3>2 DEF Queue!Fail
    <3>4. QED
      BY <3>3 DEF QStep
  <2>6. QED
    BY <2>4, <2>5
<1>3. QED
  BY <1>1, <1>2

(* The other steps that move rows: adding, polling, sweeping. *)
LEMMA AddStep ==
    ASSUME IndInv, NEW e \in Events, AddOutboxEvent(e) PROVE QStep
<1>1. /\ status[e] = "ABSENT"
      /\ status' = [status EXCEPT ![e] = "PENDING"]
      /\ UNCHANGED <<attempts, projected>>
      /\ status \in [Events -> Statuses]
  BY DEF AddOutboxEvent, IndInv, TypeOK
<1>2. QueuePhases[e] = "absent"
  BY <1>1 DEF QueuePhases, QueuePhase
<1>3. QueuePhases' = [QueuePhases EXCEPT ![e] = "waiting"]
  BY <1>1, PhaseOf DEF QueuePhases
<1>4. QueueEffects' = QueueEffects
  BY <1>1 DEF QueueEffects
<1>5. Queue!Submit(e)
  BY <1>1, <1>2, <1>3, <1>4 DEF Queue!Submit
<1>6. QED
  BY <1>5 DEF QStep

LEMMA FetchStep ==
    ASSUME IndInv, NEW p \in Processes, Fetch(p) PROVE QStep
<1>1. PICK B \in Batches :
          /\ status' = [e \in Events |-> IF e \in B THEN "PROCESSING" ELSE status[e]]
          /\ attempts' = [e \in Events |-> IF e \in B THEN attempts[e] + 1 ELSE attempts[e]]
  BY DEF Fetch, NextAttempt
<1>2. projected' = projected
  BY DEF Fetch, workVars
<1>3. \A e \in B : e \in Events /\ status[e] \in {"PENDING", "FAILED"}
  BY BatchEligible
<1>4. \A e \in B : QueuePhases[e] = "waiting" /\ attempts[e] < MaxAttempts
  BY <1>3 DEF QueuePhases, QueuePhase, IndInv, RetryBudget
<1>5. QueuePhases' = [e \in Events |-> IF e \in B THEN "leased" ELSE QueuePhases[e]]
  BY <1>1, PhaseOf DEF QueuePhases
<1>6. QueueEffects' = QueueEffects
  BY <1>1, <1>2, <1>3 DEF QueueEffects
<1>7. B \in SUBSET Events /\ Queue!Grant(B)
  BY <1>1, <1>3, <1>4, <1>5, <1>6 DEF Queue!Grant
<1>8. QED
  BY <1>7 DEF QStep

LEMMA SweepStep ==
    ASSUME IndInv, NEW p \in Processes, RecoverStaleLocks(p) PROVE QStep
<1>1. /\ status' = [e \in Events |->
                       IF e \in StaleRows
                       THEN IF Exhausted(e) THEN "DEAD_LETTER" ELSE "PENDING"
                       ELSE status[e]]
      /\ UNCHANGED <<attempts, projected>>
  BY DEF RecoverStaleLocks, workVars
<1>2. StaleRows \in SUBSET Events /\ \A e \in StaleRows : status[e] = "PROCESSING"
  BY DEF StaleRows
<1>3. \A e \in StaleRows : QueuePhases[e] = "leased"
  BY <1>2 DEF QueuePhases, QueuePhase
<1>4. \A e \in Events : Exhausted(e) <=> ~(attempts[e] < MaxAttempts)
  <2>1. MaxAttempts \in Int /\ attempts \in [Events -> 0..MaxAttempts]
    BY OutboxAssumption DEF OutboxAssumption, IndInv, TypeOK
  <2>2. QED
    BY <2>1 DEF Exhausted
<1>5. QueuePhases' = [e \in Events |->
                        IF e \in StaleRows
                        THEN IF attempts[e] < MaxAttempts THEN "waiting" ELSE "dead"
                        ELSE QueuePhases[e]]
  BY <1>1, <1>4, PhaseOf DEF QueuePhases
<1>6. QueueEffects' = QueueEffects
  BY <1>1, <1>2 DEF QueueEffects
<1>7. Queue!Expire(StaleRows)
  BY <1>1, <1>3, <1>5, <1>6 DEF Queue!Expire
<1>8. QED
  BY <1>2, <1>7 DEF QStep

(* Every step of the worker system is a step of the abstract queue. *)
LEMMA StepRefines == IndInv /\ [Next]_vars => QStep
<1> SUFFICES ASSUME IndInv, [Next]_vars PROVE QStep
  OBVIOUS
<1>1. ASSUME NEW e \in Events, AddOutboxEvent(e) \/ DeadlinePasses(e) PROVE QStep
  BY <1>1, AddStep, StutterStep DEF DeadlinePasses, workVars
<1>2. ASSUME NEW p \in Processes, NEW e \in Events, Handle(p, e) PROVE QStep
  <2>1. CASE ProcessClaims(p, e)
    BY <2>1, WriteStep DEF ProcessClaims, CommitClaims, CommitProjection
  <2>2. CASE DeadLetterUnknown(p, e)
    BY <2>2, WriteStep DEF DeadLetterUnknown, workVars
  <2>3. CASE ProcessRaises(p, e) \/ EchoRead(p, e) \/ FailOrphan(p, e)
    BY <2>3, StutterStep DEF ProcessRaises, EchoRead, FailOrphan, rowVars, workVars
  <2>4. QED
    BY <1>2, <2>1, <2>2, <2>3 DEF Handle
<1>3. ASSUME NEW p \in Processes, EchoAck(p) PROVE QStep
  <2>1. current[p] \in Events /\ IsEcho(current[p])
    BY <1>3, CurrentRow DEF EchoAck, Handling, IndInv, InFlight
  <2>2. UpdateStatus(p, current[p], "PROCESSED") /\ projected' = projected
    BY <1>3 DEF EchoAck, workVars
  <2>3. QED
    BY <2>1, <2>2, WriteStep DEF IsEcho
<1>4. ASSUME NEW p \in Processes, MarkFailed(p) PROVE QStep
  <2>1. current[p] \in Events
    BY <1>4, CurrentRow DEF MarkFailed, Handling
  <2>2. UpdateStatus(p, current[p], FailureStatus(p, current[p])) /\ projected' = projected
    BY <1>4 DEF MarkFailed, workVars
  <2>3. lease[p][current[p]] \in Int /\ MaxAttempts \in Int
    <3>1. lease[p] \in [Events -> 0..MaxAttempts]
      BY DEF IndInv, TypeOK
    <3>2. QED
      <4>1. MaxAttempts \in Int
        BY OutboxAssumption DEF OutboxAssumption
      <4>2. lease[p][current[p]] \in 0..MaxAttempts
        BY <2>1, <3>1
      <4>3. QED
        BY <4>1, <4>2
  <2>4. /\ FailureStatus(p, current[p]) \in {"FAILED", "DEAD_LETTER"}
        /\ FailureStatus(p, current[p]) = "FAILED" => lease[p][current[p]] < MaxAttempts
    BY <2>3 DEF FailureStatus
  <2>5. QED
    BY <2>1, <2>2, <2>4, WriteStep
<1>5. ASSUME NEW p \in Processes, Work(p) PROVE QStep
  <2>1. CASE EchoRun(p) \/ EchoRaises(p) \/ MarkEchoResultFailed(p) \/ RecordHeartbeat(p)
             \/ Restart(p)
    BY <2>1, StutterStep
       DEF EchoRun, EchoRaises, MarkEchoResultFailed, RecordHeartbeat, Restart, rowVars, workVars
  <2>2. QED
    BY <1>2, <1>3, <1>4, <1>5, <2>1, FetchStep, SweepStep DEF Work
<1>6. ASSUME NEW p \in Processes, Crash(p) \/ LoopError(p) PROVE QStep
  BY <1>6, StutterStep DEF Crash, LoopError, Forget, rowVars, workVars
<1>7. CASE UNCHANGED vars
  BY <1>7, StutterStep DEF vars, rowVars, workVars
<1>8. QED
  BY <1>1, <1>5, <1>6, <1>7 DEF Next

(* The outbox worker implements the abstract lease queue. *)
THEOREM Refinement == Spec => ImplementsQueue
<1>1. Init => Queue!QInit
  BY DEF Init, Queue!QInit, QueuePhases, QueueEffects, QueuePhase
<1>2. IndInv /\ [Next]_vars => [Queue!QNext]_(Queue!queueVars)
  BY StepRefines DEF QStep, Queue!QNext
<1>3. QED
  BY <1>1, <1>2, Invariance, PTL DEF Spec, ImplementsQueue, Queue!QSpec

(* A processed or dead-lettered row is final, and attempt_count grows by one  *)
(* exactly when a PENDING or FAILED row is locked.                            *)
THEOREM RowsMoveForward == Spec => RowMovesForward
<1>1. ASSUME IndInv, IndInv', QStep PROVE RowStep
  <2> SUFFICES ASSUME NEW e \in Events
      PROVE /\ status[e] \in Terminal => status'[e] = status[e] /\ attempts'[e] = attempts[e]
            /\ attempts'[e] # attempts[e] =>
                  /\ attempts'[e] = attempts[e] + 1
                  /\ status[e] \in {"PENDING", "FAILED"}
                  /\ status'[e] = "PROCESSING"
    BY DEF RowStep
  <2>1. status[e] \in Statuses /\ status'[e] \in Statuses
    BY <1>1 DEF IndInv, TypeOK
  <2>2. QueuePhases[e] = QueuePhase(status[e]) /\ QueuePhases'[e] = QueuePhase(status'[e])
    BY DEF QueuePhases
  <2>3. QueuePhases[e] \in {"done", "dead"} =>
           QueuePhases'[e] = QueuePhases[e] /\ attempts'[e] = attempts[e]
    BY <1>1 DEF QStep, Queue!Submit, Queue!Grant, Queue!Complete, Queue!Fail,
       Queue!Expire, Queue!queueVars, QueuePhases, IndInv, TypeOK
  <2>4. attempts'[e] # attempts[e] =>
           /\ attempts'[e] = attempts[e] + 1
           /\ QueuePhases[e] = "waiting"
           /\ QueuePhases'[e] = "leased"
    BY <1>1 DEF QStep, Queue!Submit, Queue!Grant, Queue!Complete, Queue!Fail,
       Queue!Expire, Queue!queueVars
  <2>5. QED
    BY <2>1, <2>2, <2>3, <2>4 DEF QueuePhase, Statuses, Terminal
<1>2. IndInv /\ IndInv' /\ [Next]_vars => RowStep
  BY <1>1, StepRefines
<1>3. QED
  BY <1>2, Invariance, PTL DEF Spec, RowMovesForward

(* mark_complete and mark_failed leave a result alone that is not PENDING. *)
LEMMA SettleKeeps ==
    ASSUME TypeOK, NEW e, NEW new, SettleResult(e, new) PROVE ResultStep
BY DEF TypeOK, SettleResult, ResultStep

(* A settled Echo result is final, also when the job is delivered again or    *)
(* two workers run it at once.                                                *)
THEOREM ResultsAreFinal == Spec => ResultFinal
<1>1. ASSUME IndInv, [Next]_vars PROVE ResultStep
  <2>1. ASSUME NEW e \in Events, AddOutboxEvent(e) PROVE ResultStep
    BY <1>1, <2>1 DEF IndInv, TypeOK, EchoConsistent, AddOutboxEvent, ResultStep
  <2>2. ASSUME NEW p \in Processes, Work(p), result' # result PROVE ResultStep
    <3>1. ASSUME NEW e \in Events, Handle(p, e), result' # result PROVE ResultStep
      <4>1. FailOrphan(p, e)
        BY <3>1 DEF Handle, ProcessClaims, CommitClaims, DeadLetterUnknown, ProcessRaises,
           EchoRead, workVars
      <4>2. QED
        BY <1>1, <4>1, SettleKeeps DEF FailOrphan, IndInv
    <3>2. \/ \E e \in Events : Handle(p, e)
          \/ EchoRun(p)
          \/ MarkEchoResultFailed(p)
      BY <2>2 DEF Work, Fetch, EchoRaises, RecordFailure, EchoAck, MarkFailed, RecoverStaleLocks,
         RecordHeartbeat, Restart, workVars
    <3>3. QED
      BY <1>1, <2>2, <3>1, <3>2, SettleKeeps DEF EchoRun, MarkEchoResultFailed, IndInv
  <2>3. QED
    BY <1>1, <2>1, <2>2 DEF Next, DeadlinePasses, Crash, LoopError, Forget, vars, workVars, ResultStep
<1>2. QED
  BY <1>1, Invariance, PTL DEF Spec, ResultFinal
===============================================================================
