----------------------------- MODULE HermesProofs -----------------------------
(* The safety properties of HermesQueue hold for any number of jobs, targets, *)
(* workers, attempts and contents, and the queue implements LeaseQueue.       *)
EXTENDS HermesQueue, TLAPS

(* A running attempt has not reported anything yet: what makes the account of *)
(* changes inductive.                                                         *)
Unreported ==
    \A j \in Jobs : status[j] = "RUNNING" => Fetches(j) + changes[j]["FETCH_FAILED"] < attempts[j]

IndInv ==
    /\ TypeOK
    /\ OneActivePerTarget
    /\ ClaimDiscipline
    /\ ChangeHistory
    /\ ChangesAccounted
    /\ Unreported

-------------------------------------------------------------------------------
LEMMA InitInv == Init => IndInv
<1> SUFFICES ASSUME Init PROVE IndInv
  OBVIOUS
<1> USE HermesAssumption DEF HermesAssumption
<1>1. TypeOK
  BY DEF Init, TypeOK, Statuses, TargetStates
<1>2. \A j \in Jobs : \A c \in ChangeTypes : changes[j][c] = 0
  BY DEF Init
<1>3. OneActivePerTarget /\ ClaimDiscipline
  BY DEF Init, OneActivePerTarget, ClaimDiscipline, Active
<1>4. ChangeHistory
  BY <1>2 DEF Init, ChangeHistory, ChangeTypes, SuccessTypes
<1>5. ChangesAccounted /\ Unreported
  BY <1>2 DEF Init, ChangesAccounted, Unreported, Fetches, ChangeTypes, SuccessTypes
<1>6. QED
  BY <1>1, <1>3, <1>4, <1>5 DEF IndInv

(* The counters are numbers. *)
LEMMA Counters ==
    ASSUME TypeOK, NEW j \in Jobs
    PROVE  /\ changes[j]["FIRST_SEEN"] \in Nat
           /\ changes[j]["CONTENT_CHANGED"] \in Nat
           /\ changes[j]["CONTENT_UNCHANGED"] \in Nat
           /\ changes[j]["FETCH_FAILED"] \in Nat
           /\ Fetches(j) \in Nat
           /\ attempts[j] \in Nat
<1>1. changes[j] \in [ChangeTypes -> Nat]
  BY DEF TypeOK
<1>2. attempts[j] \in Nat
  BY HermesAssumption DEF TypeOK, HermesAssumption
<1>3. QED
  BY <1>1, <1>2 DEF ChangeTypes, SuccessTypes, Fetches

-------------------------------------------------------------------------------
(* Steps of clocks and operators: only the type of what changed is at stake.  *)
LEMMA FrameInv ==
    ASSUME IndInv, TypeOK',
           UNCHANGED <<status, attempts, lockedBy, docs, last, changes, current, held>>
    PROVE  IndInv'
<1>1. OneActivePerTarget'
  BY DEF IndInv, OneActivePerTarget
<1>2. ClaimDiscipline'
  BY DEF IndInv, ClaimDiscipline
<1>3. ChangeHistory'
  BY DEF IndInv, ChangeHistory
<1>4. ChangesAccounted' /\ Unreported'
  BY DEF IndInv, ChangesAccounted, Unreported, Fetches
<1>5. QED
  BY <1>1, <1>2, <1>3, <1>4 DEF IndInv

LEMMA TargetInv ==
    ASSUME IndInv, NEW t \in Targets, CreateTarget(t) \/ OperatorToggles(t) PROVE IndInv'
<1>1. /\ UNCHANGED <<status, attempts, lockedBy, elapsed, docs, last, changes, current, held, crashes>>
      /\ target' \in [Targets -> TargetStates]
  BY DEF IndInv, TypeOK, CreateTarget, OperatorToggles, jobVars, procVars, TargetStates
<1>2. TypeOK'
  BY <1>1 DEF IndInv, TypeOK
<1>3. QED
  BY <1>1, <1>2, FrameInv

LEMMA DeadlineInv == ASSUME IndInv, NEW j \in Jobs, DeadlinePasses(j) PROVE IndInv'
<1>1. /\ UNCHANGED <<status, attempts, lockedBy, target, docs, last, changes, current, held, crashes>>
      /\ elapsed' \in [Jobs -> BOOLEAN]
  BY DEF IndInv, TypeOK, DeadlinePasses, targetVars, procVars
<1>2. TypeOK'
  BY <1>1 DEF IndInv, TypeOK
<1>3. QED
  BY <1>1, <1>2, FrameInv

LEMMA EnqueueInv == ASSUME IndInv, NEW j \in Jobs, Enqueue(j) PROVE IndInv'
<1> USE HermesAssumption DEF HermesAssumption
<1>1. /\ UNCHANGED <<attempts, lockedBy, target, docs, last, changes, current, held, crashes>>
      /\ status[j] = "ABSENT"
      /\ status' = [status EXCEPT ![j] = "QUEUED"]
      /\ elapsed' \in [Jobs -> BOOLEAN]
      /\ NoActiveJob(TargetOf[j])
  BY DEF IndInv, TypeOK, Enqueue, targetVars, procVars
<1>2. TypeOK'
  BY <1>1 DEF IndInv, TypeOK, Statuses
<1>3. OneActivePerTarget'
  BY <1>1 DEF IndInv, TypeOK, OneActivePerTarget, NoActiveJob, Active
<1>4. ClaimDiscipline'
  <2>1. ClaimDiscipline /\ status \in [Jobs -> Statuses] /\ attempts[j] = 0
    BY <1>1 DEF IndInv, TypeOK, ClaimDiscipline
  <2>2. \A k \in Jobs : k # j => status'[k] = status[k]
    BY <1>1, <2>1
  <2>3. status'[j] = "QUEUED" /\ lockedBy[j] = NoProcess /\ 0 < MaxAttempts
    BY <1>1, <2>1 DEF ClaimDiscipline
  <2>4. QED
    BY <1>1, <2>1, <2>2, <2>3 DEF ClaimDiscipline
<1>5. ChangeHistory'
  BY <1>1 DEF IndInv, ChangeHistory
<1>6. ChangesAccounted' /\ Unreported'
  BY <1>1 DEF IndInv, TypeOK, ChangesAccounted, Unreported, Fetches
<1>7. QED
  BY <1>2, <1>3, <1>4, <1>5, <1>6 DEF IndInv

(* Forgetting a claim. *)
LEMMA ForgetInv ==
    ASSUME IndInv, NEW p \in Processes, Release(p), UNCHANGED <<jobVars, targetVars>>,
           crashes' \in 0..MaxCrashes
    PROVE  IndInv'
<1>1. UNCHANGED <<status, attempts, lockedBy, elapsed, target, docs, last, changes>>
  BY DEF jobVars, targetVars
<1>2. /\ current' \in [Processes -> Jobs \cup {NoJob}]
      /\ held' \in [Processes -> 0..MaxAttempts]
      /\ \A q \in Processes : q # p => current'[q] = current[q] /\ held'[q] = held[q]
      /\ current'[p] = NoJob
  BY HermesAssumption DEF Release, IndInv, TypeOK, HermesAssumption
<1>3. ClaimDiscipline'
  BY <1>1, <1>2 DEF IndInv, ClaimDiscipline
<1>4. TypeOK'
  BY <1>1, <1>2 DEF IndInv, TypeOK
<1>5. OneActivePerTarget' /\ ChangeHistory'
  BY <1>1 DEF IndInv, OneActivePerTarget, ChangeHistory
<1>6. ChangesAccounted' /\ Unreported'
  BY <1>1 DEF IndInv, ChangesAccounted, Unreported, Fetches
<1>7. QED
  BY <1>3, <1>4, <1>5, <1>6 DEF IndInv

LEMMA LostClaimInv == ASSUME IndInv, NEW p \in Processes, LostClaim(p) PROVE IndInv'
<1>1. Release(p) /\ UNCHANGED <<jobVars, targetVars, crashes>>
  BY DEF LostClaim
<1>2. crashes' \in 0..MaxCrashes
  BY <1>1 DEF IndInv, TypeOK
<1>3. QED
  BY <1>1, <1>2, ForgetInv

LEMMA CrashInv == ASSUME IndInv, NEW p \in Processes, Crash(p) PROVE IndInv'
<1>1. Release(p) /\ UNCHANGED <<jobVars, targetVars>>
  BY DEF Crash
<1>2. crashes' \in 0..MaxCrashes
  BY HermesAssumption DEF Crash, IndInv, TypeOK, HermesAssumption
<1>3. QED
  BY <1>1, <1>2, ForgetInv

-------------------------------------------------------------------------------
(* A claim: the new number is greater than any a process still remembers.     *)
LEMMA ClaimInv ==
    ASSUME IndInv, NEW p \in Processes, NEW j \in Jobs, ClaimRunning(p, j) PROVE IndInv'
<1> USE HermesAssumption DEF HermesAssumption
<1>1. TypeOK /\ OneActivePerTarget /\ ClaimDiscipline /\ ChangeHistory /\ ChangesAccounted /\ Unreported
  BY DEF IndInv
<1>2. /\ UNCHANGED <<target, docs, last, changes, crashes>>
      /\ status[j] = "QUEUED"
      /\ current[p] = NoJob
      /\ attempts' = [attempts EXCEPT ![j] = attempts[j] + 1]
      /\ elapsed' = [elapsed EXCEPT ![j] = FALSE]
  BY DEF ClaimRunning, Due, targetVars
<1>3. attempts[j] \in 0..MaxAttempts /\ attempts[j] < MaxAttempts
  BY <1>1, <1>2 DEF TypeOK, ClaimDiscipline
<1>4. attempts' \in [Jobs -> 0..MaxAttempts] /\ elapsed' \in [Jobs -> BOOLEAN]
  BY <1>1, <1>2, <1>3 DEF TypeOK
<1>5. /\ attempts'[j] = attempts[j] + 1
      /\ \A k \in Jobs : k # j => attempts'[k] = attempts[k]
      /\ \A k \in Jobs : attempts[k] \in Int /\ attempts'[k] >= attempts[k]
  BY <1>1, <1>2, <1>3 DEF TypeOK
<1>6. ChangeHistory'
  BY <1>1, <1>2 DEF ChangeHistory
<1>7. \A k \in Jobs : Fetches(k)' = Fetches(k)
  BY <1>2 DEF Fetches
<1>8. \A k \in Jobs : Fetches(k) \in Nat /\ changes[k]["FETCH_FAILED"] \in Nat
  BY <1>1, Counters
<1>9. CASE target[TargetOf[j]] = "ACTIVE"
  <2>1. /\ status' = [status EXCEPT ![j] = "RUNNING"]
        /\ lockedBy' = [lockedBy EXCEPT ![j] = p]
        /\ current' = [current EXCEPT ![p] = j]
        /\ held' = [held EXCEPT ![p] = attempts[j] + 1]
    BY <1>9 DEF ClaimRunning
  <2>2. /\ status'[j] = "RUNNING" /\ lockedBy'[j] = p
        /\ \A k \in Jobs : k # j => status'[k] = status[k] /\ lockedBy'[k] = lockedBy[k]
        /\ current'[p] = j /\ held'[p] = attempts[j] + 1
        /\ \A q \in Processes : q # p => current'[q] = current[q] /\ held'[q] = held[q]
    BY <1>1, <2>1 DEF TypeOK
  <2>3. TypeOK'
    BY <1>1, <1>2, <1>3, <1>4, <2>1 DEF TypeOK, Statuses
  <2>4. OneActivePerTarget'
    BY <1>1, <1>2, <2>2 DEF OneActivePerTarget, Active
  <2>5. ClaimDiscipline'
    <3>1. \A k \in Jobs :
             /\ status'[k] = "ABSENT" => attempts'[k] = 0
             /\ status'[k] = "QUEUED" => attempts'[k] < MaxAttempts
             /\ status'[k] = "RUNNING" <=> lockedBy'[k] # NoProcess
      BY <1>1, <1>5, <2>2 DEF ClaimDiscipline
    <3>2. \A q \in Processes : held[q] \in Int
      BY <1>1 DEF TypeOK
    <3>3. ASSUME NEW q \in Processes, current'[q] # NoJob
          PROVE  held'[q] # 0 /\ held'[q] <= attempts'[current'[q]]
      <4>1. CASE q = p
        BY <1>3, <1>5, <2>2, <4>1
      <4>2. CASE q # p
        <5>1. current[q] \in Jobs /\ current'[q] = current[q] /\ held'[q] = held[q]
          BY <1>1, <2>2, <3>3, <4>2 DEF TypeOK
        <5>2. held[q] # 0 /\ held[q] <= attempts[current[q]]
          BY <1>1, <5>1 DEF ClaimDiscipline
        <5>3. QED
          BY <1>5, <3>2, <5>1, <5>2
      <4>3. QED
        BY <4>1, <4>2
    <3>4. ASSUME NEW q \in Processes, NEW r \in Processes,
                 q # r, current'[q] # NoJob, current'[q] = current'[r]
          PROVE  held'[q] # held'[r]
      <4>1. \A s \in Processes : s # p /\ current[s] = j => held[s] <= attempts[j]
        BY <1>1 DEF ClaimDiscipline
      <4>2. CASE q = p
        BY <1>3, <2>2, <3>2, <3>4, <4>1, <4>2
      <4>3. CASE r = p
        BY <1>3, <2>2, <3>2, <3>4, <4>1, <4>3
      <4>4. CASE q # p /\ r # p
        BY <1>1, <2>2, <3>4, <4>4 DEF ClaimDiscipline
      <4>5. QED
        BY <4>2, <4>3, <4>4
    <3>5. QED
      BY <3>1, <3>3, <3>4 DEF ClaimDiscipline
  <2>6. ASSUME NEW k \in Jobs
        PROVE  /\ Fetches(k) = IF status'[k] = "SUCCEEDED" THEN 1 ELSE 0
               /\ Fetches(k) + changes[k]["FETCH_FAILED"] <= attempts'[k]
               /\ status'[k] = "RUNNING" => Fetches(k) + changes[k]["FETCH_FAILED"] < attempts'[k]
    <3>1. /\ Fetches(k) = IF status[k] = "SUCCEEDED" THEN 1 ELSE 0
          /\ Fetches(k) + changes[k]["FETCH_FAILED"] <= attempts[k]
          /\ status[k] = "RUNNING" => Fetches(k) + changes[k]["FETCH_FAILED"] < attempts[k]
      BY <1>1 DEF ChangesAccounted, Unreported
    <3>2. CASE k = j
      BY <1>2, <1>3, <1>5, <1>8, <2>2, <3>1, <3>2
    <3>3. CASE k # j
      BY <1>5, <2>2, <3>1, <3>3
    <3>4. QED
      BY <3>2, <3>3
  <2>7. ChangesAccounted' /\ Unreported'
    BY <1>2, <1>7, <2>6 DEF ChangesAccounted, Unreported
  <2>8. QED
    BY <1>6, <2>3, <2>4, <2>5, <2>7 DEF IndInv
<1>10. CASE target[TargetOf[j]] # "ACTIVE"
  <2>1. /\ status' = [status EXCEPT ![j] = "FAILED"]
        /\ UNCHANGED <<lockedBy, current, held>>
    BY <1>10 DEF ClaimRunning, procVars
  <2>2. /\ status'[j] = "FAILED"
        /\ \A k \in Jobs : k # j => status'[k] = status[k]
    BY <1>1, <2>1 DEF TypeOK
  <2>3. TypeOK'
    BY <1>1, <1>2, <1>4, <2>1 DEF TypeOK, Statuses
  <2>4. OneActivePerTarget'
    BY <1>1, <2>2 DEF OneActivePerTarget, Active
  <2>5. ClaimDiscipline'
    <3>1. \A k \in Jobs :
             /\ status'[k] = "ABSENT" => attempts'[k] = 0
             /\ status'[k] = "QUEUED" => attempts'[k] < MaxAttempts
             /\ status'[k] = "RUNNING" <=> lockedBy[k] # NoProcess
      BY <1>1, <1>2, <1>5, <2>2 DEF ClaimDiscipline
    <3>2. ASSUME NEW q \in Processes, current[q] # NoJob
          PROVE  held[q] # 0 /\ held[q] <= attempts'[current[q]]
      <4>1. current[q] \in Jobs /\ held[q] \in Int
        BY <1>1, <3>2 DEF TypeOK
      <4>2. held[q] # 0 /\ held[q] <= attempts[current[q]]
        BY <1>1, <3>2 DEF ClaimDiscipline
      <4>3. attempts[current[q]] \in Int /\ attempts'[current[q]] >= attempts[current[q]]
        BY <1>5, <4>1
      <4>4. attempts'[current[q]] \in 0..MaxAttempts
        BY <1>4, <4>1
      <4>5. QED
        BY <4>1, <4>2, <4>3, <4>4
    <3>3. QED
      BY <1>1, <2>1, <3>1, <3>2 DEF ClaimDiscipline
  <2>6. ASSUME NEW k \in Jobs
        PROVE  /\ Fetches(k) = IF status'[k] = "SUCCEEDED" THEN 1 ELSE 0
               /\ Fetches(k) + changes[k]["FETCH_FAILED"] <= attempts'[k]
               /\ status'[k] = "RUNNING" => Fetches(k) + changes[k]["FETCH_FAILED"] < attempts'[k]
    <3>1. /\ Fetches(k) = IF status[k] = "SUCCEEDED" THEN 1 ELSE 0
          /\ Fetches(k) + changes[k]["FETCH_FAILED"] <= attempts[k]
          /\ status[k] = "RUNNING" => Fetches(k) + changes[k]["FETCH_FAILED"] < attempts[k]
      BY <1>1 DEF ChangesAccounted, Unreported
    <3>2. CASE k = j
      BY <1>2, <1>3, <1>5, <1>8, <2>2, <3>1, <3>2
    <3>3. CASE k # j
      BY <1>5, <2>2, <3>1, <3>3
    <3>4. QED
      BY <3>2, <3>3
  <2>7. ChangesAccounted' /\ Unreported'
    BY <1>2, <1>7, <2>6 DEF ChangesAccounted, Unreported
  <2>8. QED
    BY <1>6, <2>3, <2>4, <2>5, <2>7 DEF IndInv
<1>11. QED
  BY <1>9, <1>10

-------------------------------------------------------------------------------
(* A fenced finalization, apart from what it reports.                         *)
LEMMA SettleInv ==
    ASSUME IndInv, NEW p \in Processes, NEW j \in Jobs, NEW new \in {"QUEUED", "SUCCEEDED", "FAILED"},
           current[p] = j, Fenced(p, j), Settle(j, new), Release(p),
           new = "QUEUED" => attempts[j] < MaxAttempts,
           UNCHANGED <<target, crashes>>,
           docs' \in [Targets -> SUBSET Contents],
           last' \in [Targets -> Contents \cup {NoContent}],
           changes' \in [Jobs -> [ChangeTypes -> Nat]]
    PROVE  /\ TypeOK' /\ OneActivePerTarget' /\ ClaimDiscipline'
           /\ attempts' = attempts
           /\ status[j] = "RUNNING" /\ status'[j] = new
           /\ \A k \in Jobs : k # j => status'[k] = status[k]
<1> USE HermesAssumption DEF HermesAssumption
<1>1. TypeOK /\ OneActivePerTarget /\ ClaimDiscipline
  BY DEF IndInv
<1>2. /\ status' = [status EXCEPT ![j] = new]
      /\ lockedBy' = [lockedBy EXCEPT ![j] = NoProcess]
      /\ elapsed' = [elapsed EXCEPT ![j] = FALSE]
      /\ attempts' = attempts
      /\ status[j] = "RUNNING"
  BY DEF Settle, Fenced
<1>3. /\ current' = [current EXCEPT ![p] = NoJob]
      /\ held' = [held EXCEPT ![p] = 0]
  BY DEF Release
<1>4. /\ status' \in [Jobs -> Statuses]
      /\ lockedBy' \in [Jobs -> Processes \cup {NoProcess}]
      /\ elapsed' \in [Jobs -> BOOLEAN]
  BY <1>1, <1>2 DEF TypeOK, Statuses
<1>5. current' \in [Processes -> Jobs \cup {NoJob}] /\ held' \in [Processes -> 0..MaxAttempts]
  BY <1>1, <1>3 DEF TypeOK
<1>6. TypeOK'
  BY <1>1, <1>2, <1>4, <1>5 DEF TypeOK
<1>7. /\ status'[j] = new /\ lockedBy'[j] = NoProcess
      /\ \A k \in Jobs : k # j => status'[k] = status[k] /\ lockedBy'[k] = lockedBy[k]
      /\ current'[p] = NoJob
      /\ \A q \in Processes : q # p => current'[q] = current[q] /\ held'[q] = held[q]
  BY <1>1, <1>2, <1>3 DEF TypeOK
<1>8. OneActivePerTarget'
  BY <1>1, <1>2, <1>7 DEF OneActivePerTarget, Active
<1>9. ClaimDiscipline'
  <2>1. \A k \in Jobs :
           /\ status'[k] = "ABSENT" => attempts[k] = 0
           /\ status'[k] = "QUEUED" => attempts[k] < MaxAttempts
           /\ status'[k] = "RUNNING" <=> lockedBy'[k] # NoProcess
    BY <1>1, <1>7 DEF ClaimDiscipline
  <2>2. QED
    BY <1>1, <1>2, <1>7, <2>1 DEF ClaimDiscipline
<1>10. QED
  BY <1>2, <1>6, <1>7, <1>8, <1>9

LEMMA SuccessInv ==
    ASSUME IndInv, NEW p \in Processes, NEW c \in Contents, FinalizeSuccess(p, c) PROVE IndInv'
<1> USE HermesAssumption DEF HermesAssumption
<1>1. TypeOK /\ ChangeHistory /\ ChangesAccounted /\ Unreported
  BY DEF IndInv
<1> PICK j \in Jobs : j = current[p]
  BY DEF FinalizeSuccess, IndInv, TypeOK
<1> PICK t \in Targets : t = TargetOf[j]
  OBVIOUS
<1> PICK ct \in SuccessTypes : ct = ChangeType(t, c)
  BY DEF ChangeType, SuccessTypes
<1>2. /\ Fenced(p, j) /\ Settle(j, "SUCCEEDED") /\ Release(p)
      /\ changes' = [changes EXCEPT ![j] = [changes[j] EXCEPT ![ct] = changes[j][ct] + 1]]
      /\ docs' = [docs EXCEPT ![t] = docs[t] \cup {c}]
      /\ last' = [last EXCEPT ![t] = c]
      /\ UNCHANGED <<target, crashes>>
  BY <1>1 DEF FinalizeSuccess, TypeOK
<1>3. t \in Targets /\ ct \in SuccessTypes
  OBVIOUS
<1>4. changes[j] \in [ChangeTypes -> Nat] /\ ct \in ChangeTypes
  BY <1>1, <1>2, <1>3 DEF TypeOK, ChangeTypes
<1>5. /\ changes'[j] = [changes[j] EXCEPT ![ct] = changes[j][ct] + 1]
      /\ \A k \in Jobs : k # j => changes'[k] = changes[k]
      /\ changes' \in [Jobs -> [ChangeTypes -> Nat]]
  BY <1>1, <1>2, <1>4 DEF TypeOK
<1>6. /\ docs'[t] = docs[t] \cup {c} /\ last'[t] = c
      /\ \A u \in Targets : u # t => docs'[u] = docs[u] /\ last'[u] = last[u]
      /\ docs' \in [Targets -> SUBSET Contents]
      /\ last' \in [Targets -> Contents \cup {NoContent}]
  BY <1>1, <1>2, <1>3 DEF TypeOK
<1>7. /\ TypeOK' /\ OneActivePerTarget' /\ ClaimDiscipline'
      /\ attempts' = attempts
      /\ status[j] = "RUNNING" /\ status'[j] = "SUCCEEDED"
      /\ \A k \in Jobs : k # j => status'[k] = status[k]
  <2>1. /\ "SUCCEEDED" \in {"QUEUED", "SUCCEEDED", "FAILED"}
        /\ "SUCCEEDED" = "QUEUED" => attempts[j] < MaxAttempts
        /\ current[p] = j
    OBVIOUS
  <2>2. /\ docs' \in [Targets -> SUBSET Contents]
        /\ last' \in [Targets -> Contents \cup {NoContent}]
        /\ changes' \in [Jobs -> [ChangeTypes -> Nat]]
    BY <1>5, <1>6
  <2>3. Fenced(p, j) /\ Settle(j, "SUCCEEDED") /\ Release(p) /\ UNCHANGED <<target, crashes>>
    BY <1>2
  <2>4. QED
    BY ONLY <2>1, <2>2, <2>3, SettleInv, IndInv, p \in Processes, j \in Jobs
<1>8. /\ \A d \in ChangeTypes : changes'[j][d] = IF d = ct THEN changes[j][d] + 1 ELSE changes[j][d]
  BY <1>4, <1>5
<1>9. ChangeHistory'
  <2>1. \A k \in Jobs : TargetOf[k] # t => changes'[k] = changes[k]
    BY <1>5
  <2>2. \A u \in Targets :
          /\ last'[u] = NoContent <=> docs'[u] = {}
          /\ last'[u] # NoContent => last'[u] \in docs'[u]
    BY <1>1, <1>6 DEF ChangeHistory
  <2>3. \A k \in Jobs : TargetOf[k] = t =>
           changes'[k]["FIRST_SEEN"] =
              IF k = j /\ ct = "FIRST_SEEN" THEN changes[k]["FIRST_SEEN"] + 1 ELSE changes[k]["FIRST_SEEN"]
    BY <1>5, <1>8 DEF ChangeTypes, SuccessTypes
  <2>4. \A k \in Jobs : changes[k]["FIRST_SEEN"] \in Nat
    BY <1>1, Counters
  <2>5. CASE ct = "FIRST_SEEN"
    <3>1. docs[t] = {}
      BY <2>5 DEF ChangeType
    <3>2. \A k \in Jobs : TargetOf[k] = t => changes[k]["FIRST_SEEN"] = 0
      BY <1>1, <1>3, <3>1 DEF ChangeHistory
    <3>3. /\ changes'[j]["FIRST_SEEN"] = 1 /\ TargetOf[j] = t
          /\ \A k \in Jobs : TargetOf[k] = t /\ k # j => changes'[k]["FIRST_SEEN"] = 0
      BY <1>2, <2>3, <2>5, <3>2
    <3>4. SUFFICES ASSUME NEW u \in Targets
          PROVE /\ docs'[u] = {} <=> \A k \in Jobs : TargetOf[k] = u => changes'[k]["FIRST_SEEN"] = 0
                /\ \A k, l \in Jobs :
                      /\ TargetOf[k] = u /\ TargetOf[l] = u
                      /\ changes'[k]["FIRST_SEEN"] > 0 /\ changes'[l]["FIRST_SEEN"] > 0
                      => k = l
      BY <2>2 DEF ChangeHistory
    <3>5. CASE u = t
      BY <1>2, <1>6, <3>3, <3>5
    <3>6. CASE u # t
      <4>1. docs'[u] = docs[u] /\ \A k \in Jobs : TargetOf[k] = u => changes'[k] = changes[k]
        BY <1>6, <2>1, <3>6
      <4>2. QED
        <5>1. /\ docs[u] = {} <=> \A k \in Jobs : TargetOf[k] = u => changes[k]["FIRST_SEEN"] = 0
              /\ \A k, l \in Jobs :
                    /\ TargetOf[k] = u /\ TargetOf[l] = u
                    /\ changes[k]["FIRST_SEEN"] > 0 /\ changes[l]["FIRST_SEEN"] > 0
                    => k = l
          BY <1>1 DEF ChangeHistory
        <5>2. QED
          BY <4>1, <5>1
    <3>7. QED
      BY <3>5, <3>6
  <2>6. CASE ct # "FIRST_SEEN"
    <3>1. docs[t] # {}
      BY <1>1, <1>3, <2>6 DEF ChangeType, ChangeHistory
    <3>2. \A k \in Jobs : changes'[k]["FIRST_SEEN"] = changes[k]["FIRST_SEEN"]
      BY <2>1, <2>3, <2>6
    <3>3. docs'[t] # {}
      BY <1>6
    <3>4. \A u \in Targets : docs'[u] = {} <=> docs[u] = {}
      BY <1>6, <3>1, <3>3
    <3>5. QED
      BY <1>1, <2>2, <3>2, <3>4 DEF ChangeHistory
  <2>7. QED
    BY <2>5, <2>6
<1>10. ASSUME NEW k \in Jobs
       PROVE  /\ Fetches(k)' = IF status'[k] = "SUCCEEDED" THEN 1 ELSE 0
              /\ Fetches(k)' + changes'[k]["FETCH_FAILED"] <= attempts[k]
              /\ status'[k] = "RUNNING" => Fetches(k)' + changes'[k]["FETCH_FAILED"] < attempts[k]
  <2>1. /\ Fetches(k) = IF status[k] = "SUCCEEDED" THEN 1 ELSE 0
        /\ Fetches(k) + changes[k]["FETCH_FAILED"] <= attempts[k]
        /\ status[k] = "RUNNING" => Fetches(k) + changes[k]["FETCH_FAILED"] < attempts[k]
    BY <1>1 DEF ChangesAccounted, Unreported
  <2>2. CASE k # j
    <3>1. changes'[k] = changes[k] /\ status'[k] = status[k]
      BY <1>5, <1>7, <2>2
    <3>2. Fetches(k)' = Fetches(k)
      BY <3>1 DEF Fetches
    <3>3. QED
      BY <2>1, <3>1, <3>2
  <2>3. CASE k = j
    <3>1. changes'[j]["FETCH_FAILED"] = changes[j]["FETCH_FAILED"]
      BY <1>3, <1>8 DEF ChangeTypes, SuccessTypes
    <3>2. Fetches(j)' = Fetches(j) + 1
      <4>1. /\ changes[j]["FIRST_SEEN"] \in Nat
            /\ changes[j]["CONTENT_CHANGED"] \in Nat
            /\ changes[j]["CONTENT_UNCHANGED"] \in Nat
        BY <1>4 DEF ChangeTypes, SuccessTypes
      <4>2. /\ changes'[j]["FIRST_SEEN"] =
                 IF "FIRST_SEEN" = ct THEN changes[j]["FIRST_SEEN"] + 1 ELSE changes[j]["FIRST_SEEN"]
            /\ changes'[j]["CONTENT_CHANGED"] =
                 IF "CONTENT_CHANGED" = ct THEN changes[j]["CONTENT_CHANGED"] + 1
                 ELSE changes[j]["CONTENT_CHANGED"]
            /\ changes'[j]["CONTENT_UNCHANGED"] =
                 IF "CONTENT_UNCHANGED" = ct THEN changes[j]["CONTENT_UNCHANGED"] + 1
                 ELSE changes[j]["CONTENT_UNCHANGED"]
        BY <1>8 DEF ChangeTypes, SuccessTypes
      <4>3. CASE ct = "FIRST_SEEN"
        BY <4>1, <4>2, <4>3 DEF Fetches
      <4>4. CASE ct = "CONTENT_CHANGED"
        BY <4>1, <4>2, <4>4 DEF Fetches
      <4>5. CASE ct = "CONTENT_UNCHANGED"
        BY <4>1, <4>2, <4>5 DEF Fetches
      <4>6. QED
        BY <1>3, <4>3, <4>4, <4>5 DEF SuccessTypes
    <3>3. Fetches(j) \in Nat /\ changes[j]["FETCH_FAILED"] \in Nat /\ attempts[j] \in Nat
      BY <1>1, <1>2, Counters
    <3>4. Fetches(j) = 0
      BY <1>7, <2>1, <2>3
    <3>5. changes[j]["FETCH_FAILED"] < attempts[j]
      BY <1>7, <2>1, <2>3, <3>3, <3>4
    <3>6. Fetches(j)' = 1 /\ Fetches(j)' + changes'[j]["FETCH_FAILED"] <= attempts[j]
      BY <3>1, <3>2, <3>3, <3>4, <3>5
    <3>7. QED
      BY <1>7, <2>3, <3>6
  <2>4. QED
    BY <2>2, <2>3
<1>11. ChangesAccounted' /\ Unreported'
  BY <1>7, <1>10 DEF ChangesAccounted, Unreported
<1>12. QED
  BY <1>7, <1>9, <1>11 DEF IndInv

LEMMA RetryStatusBudget ==
    ASSUME TypeOK, NEW j \in Jobs
    PROVE  /\ RetryStatus(j) \in {"QUEUED", "FAILED"}
           /\ RetryStatus(j) = "QUEUED" <=> attempts[j] < MaxAttempts
<1>1. attempts[j] \in 0..MaxAttempts /\ MaxAttempts \in Nat
  BY HermesAssumption DEF TypeOK, HermesAssumption
<1>2. QED
  BY <1>1 DEF RetryStatus

(* One more FETCH_FAILED for a job and no other change. *)
LEMMA FailureReported ==
    ASSUME TypeOK, NEW j \in Jobs,
           changes'[j] = [changes[j] EXCEPT !["FETCH_FAILED"] = @ + 1]
    PROVE  /\ Fetches(j)' = Fetches(j)
           /\ changes'[j]["FIRST_SEEN"] = changes[j]["FIRST_SEEN"]
           /\ changes'[j]["FETCH_FAILED"] = changes[j]["FETCH_FAILED"] + 1
           /\ changes'[j] \in [ChangeTypes -> Nat]
<1>1. changes[j] \in [ChangeTypes -> Nat]
  BY DEF TypeOK
<1>2. /\ changes'[j] \in [ChangeTypes -> Nat]
      /\ changes'[j]["FETCH_FAILED"] = changes[j]["FETCH_FAILED"] + 1
      /\ \A d \in SuccessTypes : changes'[j][d] = changes[j][d]
  BY <1>1 DEF ChangeTypes, SuccessTypes
<1>3. QED
  BY <1>2 DEF Fetches, SuccessTypes

LEMMA FailureInv == ASSUME IndInv, NEW p \in Processes, FinalizeFailure(p) PROVE IndInv'
<1> USE HermesAssumption DEF HermesAssumption
<1>1. TypeOK /\ ChangeHistory /\ ChangesAccounted /\ Unreported
  BY DEF IndInv
<1> PICK j \in Jobs : j = current[p]
  BY DEF FinalizeFailure, IndInv, TypeOK
<1>2. /\ Fenced(p, j) /\ Release(p)
      /\ changes' = [changes EXCEPT ![j] = [changes[j] EXCEPT !["FETCH_FAILED"] = @ + 1]]
      /\ UNCHANGED <<target, docs, last, crashes>>
  BY DEF FinalizeFailure
<1>3. PICK new \in {RetryStatus(j), "FAILED"} : Settle(j, new)
  BY DEF FinalizeFailure
<1>4. new \in {"QUEUED", "FAILED"} /\ (new = "QUEUED" => attempts[j] < MaxAttempts)
  BY <1>1, <1>3, RetryStatusBudget
<1>5. /\ changes'[j] = [changes[j] EXCEPT !["FETCH_FAILED"] = @ + 1]
      /\ \A k \in Jobs : k # j => changes'[k] = changes[k]
  BY <1>1, <1>2 DEF TypeOK
<1>6. /\ Fetches(j)' = Fetches(j)
      /\ changes'[j]["FIRST_SEEN"] = changes[j]["FIRST_SEEN"]
      /\ changes'[j]["FETCH_FAILED"] = changes[j]["FETCH_FAILED"] + 1
      /\ changes'[j] \in [ChangeTypes -> Nat]
  BY <1>1, <1>5, FailureReported
<1>7. changes' \in [Jobs -> [ChangeTypes -> Nat]]
  BY <1>1, <1>2, <1>5, <1>6 DEF TypeOK
<1>8. docs' \in [Targets -> SUBSET Contents] /\ last' \in [Targets -> Contents \cup {NoContent}]
  BY <1>1, <1>2 DEF TypeOK
<1>9. /\ TypeOK' /\ OneActivePerTarget' /\ ClaimDiscipline'
      /\ attempts' = attempts
      /\ status[j] = "RUNNING" /\ status'[j] = new
      /\ \A k \in Jobs : k # j => status'[k] = status[k]
  <2>1. /\ new \in {"QUEUED", "SUCCEEDED", "FAILED"}
        /\ new = "QUEUED" => attempts[j] < MaxAttempts
        /\ current[p] = j
    BY <1>4
  <2>2. Fenced(p, j) /\ Settle(j, new) /\ Release(p) /\ UNCHANGED <<target, crashes>>
    BY <1>2, <1>3
  <2>3. QED
    BY ONLY <1>7, <1>8, <2>1, <2>2, SettleInv, IndInv, p \in Processes, j \in Jobs
<1>10. ChangeHistory'
  <2>1. \A k \in Jobs : changes'[k]["FIRST_SEEN"] = changes[k]["FIRST_SEEN"]
    BY <1>5, <1>6
  <2>2. QED
    BY <1>1, <1>2, <2>1 DEF ChangeHistory
<1>11. ASSUME NEW k \in Jobs
       PROVE  /\ Fetches(k)' = IF status'[k] = "SUCCEEDED" THEN 1 ELSE 0
              /\ Fetches(k)' + changes'[k]["FETCH_FAILED"] <= attempts[k]
              /\ status'[k] = "RUNNING" => Fetches(k)' + changes'[k]["FETCH_FAILED"] < attempts[k]
  <2>1. /\ Fetches(k) = IF status[k] = "SUCCEEDED" THEN 1 ELSE 0
        /\ Fetches(k) + changes[k]["FETCH_FAILED"] <= attempts[k]
        /\ status[k] = "RUNNING" => Fetches(k) + changes[k]["FETCH_FAILED"] < attempts[k]
    BY <1>1 DEF ChangesAccounted, Unreported
  <2>2. CASE k # j
    <3>1. changes'[k] = changes[k] /\ status'[k] = status[k]
      BY <1>5, <1>9, <2>2
    <3>2. Fetches(k)' = Fetches(k)
      BY <3>1 DEF Fetches
    <3>3. QED
      BY <2>1, <3>1, <3>2
  <2>3. CASE k = j
    <3>1. Fetches(j) \in Nat /\ changes[j]["FETCH_FAILED"] \in Nat /\ attempts[j] \in Nat
      BY <1>1, Counters
    <3>2. Fetches(j) = 0 /\ changes[j]["FETCH_FAILED"] < attempts[j]
      BY <1>9, <2>1, <2>3, <3>1
    <3>3. Fetches(j)' = 0 /\ changes'[j]["FETCH_FAILED"] <= attempts[j]
      BY <1>6, <3>1, <3>2
    <3>4. changes'[j]["FETCH_FAILED"] \in Nat
      BY <1>6, <3>1
    <3>5. QED
      BY <1>4, <1>9, <2>3, <3>3, <3>4
  <2>4. QED
    BY <2>2, <2>3
<1>12. ChangesAccounted' /\ Unreported'
  BY <1>9, <1>11 DEF ChangesAccounted, Unreported
<1>13. QED
  BY <1>9, <1>10, <1>12 DEF IndInv

(* Recovery: expired claims go back to the queue, or fail and are reported.   *)
LEMMA RecoverInv == ASSUME IndInv, NEW p \in Processes, RecoverStaleRunning(p) PROVE IndInv'
<1> USE HermesAssumption DEF HermesAssumption
<1>1. TypeOK /\ OneActivePerTarget /\ ClaimDiscipline /\ ChangeHistory /\ ChangesAccounted /\ Unreported
  BY DEF IndInv
<1>2. UNCHANGED <<attempts, target, docs, last, current, held, crashes>>
  BY DEF RecoverStaleRunning, procVars
<1>3. PICK S \in SUBSET StaleJobs :
        /\ status' = [j \in Jobs |-> IF j \in S THEN RetryStatus(j) ELSE status[j]]
        /\ lockedBy' = [j \in Jobs |-> IF j \in S THEN NoProcess ELSE lockedBy[j]]
        /\ elapsed' = [j \in Jobs |-> IF j \in S THEN RetryStatus(j) = "QUEUED" ELSE elapsed[j]]
        /\ changes' = RecoveryChanges(S)
  BY DEF RecoverStaleRunning
<1>4. \A j \in S : j \in Jobs /\ status[j] = "RUNNING"
  BY DEF StaleJobs
<1>5. \A j \in Jobs : /\ RetryStatus(j) \in {"QUEUED", "FAILED"}
                      /\ RetryStatus(j) = "QUEUED" <=> attempts[j] < MaxAttempts
  BY <1>1, RetryStatusBudget
<1>6. \A j \in Jobs :
        /\ j \in S => status'[j] = RetryStatus(j) /\ lockedBy'[j] = NoProcess
        /\ j \notin S => status'[j] = status[j] /\ lockedBy'[j] = lockedBy[j]
  BY <1>3
<1>7. ASSUME NEW j \in Jobs
      PROVE /\ changes'[j] \in [ChangeTypes -> Nat]
            /\ Fetches(j)' = Fetches(j)
            /\ changes'[j]["FIRST_SEEN"] = changes[j]["FIRST_SEEN"]
            /\ \/ changes'[j]["FETCH_FAILED"] = changes[j]["FETCH_FAILED"]
               \/ j \in S /\ changes'[j]["FETCH_FAILED"] = changes[j]["FETCH_FAILED"] + 1
  <2>1. CASE j \in S /\ attempts[j] >= MaxAttempts
    <3>1. changes'[j] = [changes[j] EXCEPT !["FETCH_FAILED"] = @ + 1]
      BY <1>3, <2>1 DEF RecoveryChanges
    <3>2. QED
      BY <1>1, <2>1, <3>1, FailureReported
  <2>2. CASE ~(j \in S /\ attempts[j] >= MaxAttempts)
    <3>1. changes'[j] = changes[j]
      BY <1>3, <2>2 DEF RecoveryChanges
    <3>2. QED
      BY <1>1, <3>1 DEF Fetches, TypeOK
  <2>3. QED
    BY <2>1, <2>2
<1>8. TypeOK'
  <2>1. changes' \in [Jobs -> [ChangeTypes -> Nat]]
    BY <1>3, <1>7 DEF RecoveryChanges
  <2>2. status' \in [Jobs -> Statuses]
    BY <1>1, <1>3, <1>5 DEF TypeOK, Statuses
  <2>3. lockedBy' \in [Jobs -> Processes \cup {NoProcess}] /\ elapsed' \in [Jobs -> BOOLEAN]
    BY <1>1, <1>3 DEF TypeOK
  <2>4. QED
    BY <1>1, <1>2, <2>1, <2>2, <2>3 DEF TypeOK
<1>9. OneActivePerTarget'
  <2>1. \A j \in Jobs : status'[j] \in Active => status[j] \in Active
    BY <1>4, <1>6 DEF Active
  <2>2. QED
    BY <1>1, <2>1 DEF OneActivePerTarget
<1>10. ClaimDiscipline'
  <2>1. \A j \in Jobs :
           /\ status'[j] = "ABSENT" => attempts[j] = 0
           /\ status'[j] = "QUEUED" => attempts[j] < MaxAttempts
           /\ status'[j] = "RUNNING" <=> lockedBy'[j] # NoProcess
    BY <1>1, <1>5, <1>6 DEF ClaimDiscipline
  <2>2. QED
    BY <1>1, <1>2, <2>1 DEF ClaimDiscipline
<1>11. ChangeHistory'
  <2>1. \A j \in Jobs : changes'[j]["FIRST_SEEN"] = changes[j]["FIRST_SEEN"]
    BY <1>7
  <2>2. QED
    BY <1>1, <1>2, <2>1 DEF ChangeHistory
<1>12. ASSUME NEW k \in Jobs
       PROVE  /\ Fetches(k)' = IF status'[k] = "SUCCEEDED" THEN 1 ELSE 0
              /\ Fetches(k)' + changes'[k]["FETCH_FAILED"] <= attempts[k]
              /\ status'[k] = "RUNNING" => Fetches(k)' + changes'[k]["FETCH_FAILED"] < attempts[k]
  <2>1. /\ Fetches(k) = IF status[k] = "SUCCEEDED" THEN 1 ELSE 0
        /\ Fetches(k) + changes[k]["FETCH_FAILED"] <= attempts[k]
        /\ status[k] = "RUNNING" => Fetches(k) + changes[k]["FETCH_FAILED"] < attempts[k]
    BY <1>1 DEF ChangesAccounted, Unreported
  <2>2. Fetches(k) \in Nat /\ changes[k]["FETCH_FAILED"] \in Nat /\ attempts[k] \in Nat
    BY <1>1, Counters
  <2>3. CASE k \in S
    <3>1. status[k] = "RUNNING" /\ status'[k] \in {"QUEUED", "FAILED"}
      BY <1>4, <1>5, <1>6, <2>3
    <3>2. Fetches(k)' = 0 /\ changes[k]["FETCH_FAILED"] < attempts[k]
      BY <1>7, <2>1, <2>2, <3>1
    <3>3. changes'[k]["FETCH_FAILED"] <= attempts[k] /\ changes'[k]["FETCH_FAILED"] \in Nat
      <4>1. \/ changes'[k]["FETCH_FAILED"] = changes[k]["FETCH_FAILED"]
            \/ changes'[k]["FETCH_FAILED"] = changes[k]["FETCH_FAILED"] + 1
        BY <1>7
      <4>2. QED
        BY <2>2, <3>2, <4>1
    <3>4. QED
      BY <3>1, <3>2, <3>3
  <2>4. CASE k \notin S
    BY <1>6, <1>7, <2>1, <2>4
  <2>5. QED
    BY <2>3, <2>4
<1>13. ChangesAccounted' /\ Unreported'
  BY <1>2, <1>12 DEF ChangesAccounted, Unreported
<1>14. QED
  BY <1>8, <1>9, <1>10, <1>11, <1>13 DEF IndInv

-------------------------------------------------------------------------------
LEMMA NextInv == IndInv /\ [Next]_vars => IndInv'
<1> SUFFICES ASSUME IndInv, [Next]_vars PROVE IndInv'
  OBVIOUS
<1>1. ASSUME NEW t \in Targets, CreateTarget(t) \/ OperatorToggles(t) PROVE IndInv'
  BY <1>1, TargetInv
<1>2. ASSUME NEW j \in Jobs, Enqueue(j) \/ DeadlinePasses(j) PROVE IndInv'
  BY <1>2, EnqueueInv, DeadlineInv
<1>3. ASSUME NEW p \in Processes, Work(p) \/ Crash(p) PROVE IndInv'
  BY <1>3, ClaimInv, SuccessInv, FailureInv, LostClaimInv, RecoverInv, CrashInv
     DEF Work, Finalize, ClaimNextRunning
<1>4. ASSUME NEW p \in Processes, NEW j \in Jobs, ClaimRunning(p, j) PROVE IndInv'
  BY <1>4, ClaimInv
<1>5. CASE UNCHANGED vars
  <2>1. /\ UNCHANGED <<status, attempts, lockedBy, docs, last, changes, current, held>>
        /\ UNCHANGED <<elapsed, target, crashes>>
    BY <1>5 DEF vars, jobVars, targetVars, procVars
  <2>2. TypeOK'
    BY <2>1 DEF IndInv, TypeOK
  <2>3. QED
    BY <2>1, <2>2, FrameInv
<1>6. QED
  BY <1>1, <1>2, <1>3, <1>4, <1>5 DEF Next

(* The inductive invariant holds in every reachable state. *)
THEOREM Invariance == Spec => []IndInv
BY InitInv, NextInv, PTL DEF Spec

(* Every variable keeps its type; in particular attempt_count never exceeds   *)
(* max_attempts although no claim looks at it.                                *)
THEOREM TypeCorrect == Spec => []TypeOK
BY Invariance, PTL DEF IndInv

(* Concurrent enqueues, retries and recoveries never leave a target with two  *)
(* active jobs.                                                               *)
THEOREM OneActive == Spec => []OneActivePerTarget
BY Invariance, PTL DEF IndInv

(* The budget holds, and (locked_by, attempt_count) identifies one claim.     *)
THEOREM ClaimsDisciplined == Spec => []ClaimDiscipline
BY Invariance, PTL DEF IndInv

(* FIRST_SEEN is reported exactly once per target, whatever jobs race.        *)
THEOREM HistoryKept == Spec => []ChangeHistory
BY Invariance, PTL DEF IndInv

(* A job's changes account for its outcome and stay within its attempts.      *)
THEOREM ChangesAddUp == Spec => []ChangesAccounted
BY Invariance, PTL DEF IndInv

-------------------------------------------------------------------------------
(* Action properties.                                                         *)

(* What one step does to the status of a job. *)
LEMMA StatusStep ==
    ASSUME IndInv, [Next]_vars, NEW j \in Jobs, status'[j] # status[j]
    PROVE  \/ status[j] \in {"ABSENT", "QUEUED"} /\ status'[j] # "FAILED"
           \/ \E p \in Processes : ClaimRunning(p, j) /\ target[TargetOf[j]] # "ACTIVE"
           \/ \E p \in Processes :
                 /\ current[p] = j /\ Fenced(p, j) /\ current'[p] = NoJob
                 /\ \/ status'[j] = "SUCCEEDED"
                    \/ changes'[j]["FETCH_FAILED"] = changes[j]["FETCH_FAILED"] + 1
           \/ /\ status[j] = "RUNNING" /\ elapsed[j]
              /\ \/ status'[j] = "QUEUED"
                 \/ changes'[j]["FETCH_FAILED"] = changes[j]["FETCH_FAILED"] + 1
<1> DEFINE Goal ==
           \/ status[j] \in {"ABSENT", "QUEUED"} /\ status'[j] # "FAILED"
           \/ \E p \in Processes : ClaimRunning(p, j) /\ target[TargetOf[j]] # "ACTIVE"
           \/ \E p \in Processes :
                 /\ current[p] = j /\ Fenced(p, j) /\ current'[p] = NoJob
                 /\ \/ status'[j] = "SUCCEEDED"
                    \/ changes'[j]["FETCH_FAILED"] = changes[j]["FETCH_FAILED"] + 1
           \/ /\ status[j] = "RUNNING" /\ elapsed[j]
              /\ \/ status'[j] = "QUEUED"
                 \/ changes'[j]["FETCH_FAILED"] = changes[j]["FETCH_FAILED"] + 1
<1>1. TypeOK
  BY DEF IndInv
<1>2. ASSUME NEW t \in Targets, CreateTarget(t) \/ OperatorToggles(t) PROVE Goal
  BY <1>2 DEF CreateTarget, OperatorToggles, jobVars
<1>3. ASSUME NEW k \in Jobs, Enqueue(k) \/ DeadlinePasses(k) PROVE Goal
  BY <1>1, <1>3 DEF Enqueue, DeadlinePasses, TypeOK
<1>4. ASSUME NEW p \in Processes, NEW k \in Jobs, ClaimRunning(p, k) PROVE Goal
  <2>1. k = j /\ status[j] = "QUEUED"
    BY <1>1, <1>4 DEF ClaimRunning, Due, TypeOK
  <2>2. CASE target[TargetOf[j]] = "ACTIVE"
    BY <1>1, <1>4, <2>1, <2>2 DEF ClaimRunning, TypeOK
  <2>3. CASE target[TargetOf[j]] # "ACTIVE"
    BY <1>4, <2>1, <2>3
  <2>4. QED
    BY <2>2, <2>3
<1>5. ASSUME NEW p \in Processes, NEW c \in Contents, FinalizeSuccess(p, c) PROVE Goal
  <2>1. /\ Fenced(p, current[p]) /\ current[p] # NoJob
        /\ status' = [status EXCEPT ![current[p]] = "SUCCEEDED"]
        /\ current' = [current EXCEPT ![p] = NoJob]
    BY <1>5 DEF FinalizeSuccess, Settle, Release
  <2>2. current[p] = j /\ status'[j] = "SUCCEEDED" /\ current'[p] = NoJob
    BY <1>1, <2>1 DEF TypeOK
  <2>3. QED
    BY <2>1, <2>2
<1>6. ASSUME NEW p \in Processes, FinalizeFailure(p) PROVE Goal
  <2>1. /\ Fenced(p, current[p]) /\ current[p] # NoJob
        /\ \E new \in {RetryStatus(current[p]), "FAILED"} :
              status' = [status EXCEPT ![current[p]] = new]
        /\ current' = [current EXCEPT ![p] = NoJob]
        /\ changes' = [changes EXCEPT ![current[p]]
                          = [changes[current[p]] EXCEPT !["FETCH_FAILED"] = @ + 1]]
    BY <1>6 DEF FinalizeFailure, Settle, Release
  <2>2. current[p] = j /\ current'[p] = NoJob
    BY <1>1, <2>1 DEF TypeOK
  <2>3. changes'[j] = [changes[j] EXCEPT !["FETCH_FAILED"] = @ + 1]
    BY <1>1, <2>1, <2>2 DEF TypeOK
  <2>4. changes'[j]["FETCH_FAILED"] = changes[j]["FETCH_FAILED"] + 1
    BY <1>1, <2>3, FailureReported
  <2>5. QED
    BY <2>1, <2>2, <2>4
<1>7. ASSUME NEW p \in Processes, LostClaim(p) \/ Crash(p) PROVE Goal
  BY <1>7 DEF LostClaim, Crash, jobVars
<1>8. ASSUME NEW p \in Processes, RecoverStaleRunning(p) PROVE Goal
  <2>1. PICK S \in SUBSET StaleJobs :
          /\ status' = [k \in Jobs |-> IF k \in S THEN RetryStatus(k) ELSE status[k]]
          /\ changes' = RecoveryChanges(S)
    BY <1>8 DEF RecoverStaleRunning
  <2>2. j \in S /\ status'[j] = RetryStatus(j)
    BY <2>1
  <2>3. status[j] = "RUNNING" /\ elapsed[j]
    BY <2>2 DEF StaleJobs
  <2>4. CASE attempts[j] >= MaxAttempts
    <3>1. changes'[j] = [changes[j] EXCEPT !["FETCH_FAILED"] = @ + 1]
      BY <2>1, <2>2, <2>4 DEF RecoveryChanges
    <3>2. QED
      BY <1>1, <2>3, <3>1, FailureReported
  <2>5. CASE ~(attempts[j] >= MaxAttempts)
    BY <2>2, <2>3, <2>5 DEF RetryStatus
  <2>6. QED
    BY <2>4, <2>5
<1>9. CASE UNCHANGED vars
  BY <1>9 DEF vars, jobVars
<1>10. QED
  BY <1>2, <1>3, <1>4, <1>5, <1>6, <1>7, <1>8, <1>9 DEF Next, Work, Finalize, ClaimNextRunning

(* A running job is settled by the attempt that holds it or by the recovery   *)
(* of its expired lease: the answer of a late worker is dropped.              *)
THEOREM LateAnswersDropped == Spec => OwnerSettles
<1>1. IndInv /\ [Next]_vars => OwnerStep
  <2> SUFFICES ASSUME IndInv, [Next]_vars, NEW j \in Jobs,
                      status[j] = "RUNNING", status'[j] # "RUNNING"
               PROVE  \/ elapsed[j]
                      \/ \E p \in Processes :
                            current[p] = j /\ held[p] = attempts[j] /\ current'[p] = NoJob
    BY DEF OwnerStep
  <2>1. QED
    BY StatusStep DEF Fenced, ClaimRunning, Due
<1>2. QED
  BY <1>1, Invariance, PTL DEF Spec, OwnerSettles

(* A job whose target is ACTIVE never fails silently. *)
THEOREM FailuresSurface == Spec => FailureSurfaces
<1>1. IndInv /\ [Next]_vars => FailureStep
  <2> SUFFICES ASSUME IndInv, [Next]_vars, NEW j \in Jobs,
                      status[j] # "FAILED", status'[j] = "FAILED"
               PROVE  \/ target[TargetOf[j]] # "ACTIVE"
                      \/ changes'[j]["FETCH_FAILED"] = changes[j]["FETCH_FAILED"] + 1
    BY DEF FailureStep
  <2>1. QED
    BY StatusStep
<1>2. QED
  BY <1>1, Invariance, PTL DEF Spec, FailureSurfaces

-------------------------------------------------------------------------------
(* Refinement of LeaseQueue: every step is a step of the abstract queue or    *)
(* leaves its state alone.                                                    *)
QStep == Queue!QNext \/ UNCHANGED Queue!queueVars

LEMMA StutterStep ==
    ASSUME UNCHANGED <<status, attempts, changes>> PROVE QStep
BY DEF QStep, Queue!queueVars, QueuePhases, QueueEffects, QueuePhase, Fetches

(* The abstract phase of each status. *)
LEMMA PhaseOf ==
    /\ QueuePhase("ABSENT") = "absent"
    /\ QueuePhase("QUEUED") = "waiting"
    /\ QueuePhase("RUNNING") = "leased"
    /\ QueuePhase("SUCCEEDED") = "done"
    /\ QueuePhase("FAILED") = "dead"
BY DEF QueuePhase

(* A step that moves one job moves one phase. *)
LEMMA OnePhase ==
    ASSUME TypeOK, NEW j \in Jobs, NEW new, status' = [status EXCEPT ![j] = new]
    PROVE  /\ QueuePhases[j] = QueuePhase(status[j])
           /\ QueuePhases' = [QueuePhases EXCEPT ![j] = QueuePhase(new)]
BY DEF TypeOK, QueuePhases

LEMMA EnqueueStep == ASSUME IndInv, NEW j \in Jobs, Enqueue(j) PROVE QStep
<1>1. /\ status[j] = "ABSENT"
      /\ status' = [status EXCEPT ![j] = "QUEUED"]
      /\ UNCHANGED <<attempts, changes>>
  BY DEF Enqueue, targetVars
<1>2. QueuePhases[j] = "absent" /\ QueuePhases' = [QueuePhases EXCEPT ![j] = "waiting"]
  BY <1>1, OnePhase, PhaseOf DEF IndInv
<1>3. QueueEffects' = QueueEffects
  BY <1>1 DEF QueueEffects, Fetches
<1>4. Queue!Submit(j)
  BY <1>1, <1>2, <1>3 DEF Queue!Submit
<1>5. QED
  BY <1>4 DEF QStep, Queue!QNext

LEMMA ClaimStep ==
    ASSUME IndInv, NEW p \in Processes, NEW j \in Jobs, ClaimRunning(p, j) PROVE QStep
<1>1. /\ status[j] = "QUEUED"
      /\ attempts' = [attempts EXCEPT ![j] = @ + 1]
      /\ changes' = changes
  BY DEF ClaimRunning, Due, targetVars
<1>2. attempts[j] < MaxAttempts /\ TypeOK
  BY <1>1 DEF IndInv, ClaimDiscipline
<1>3. QueueEffects' = QueueEffects
  BY <1>1 DEF QueueEffects, Fetches
<1>4. CASE target[TargetOf[j]] = "ACTIVE"
  <2>1. status' = [status EXCEPT ![j] = "RUNNING"]
    BY <1>4 DEF ClaimRunning
  <2>2. QueuePhases[j] = "waiting" /\ QueuePhases' = [QueuePhases EXCEPT ![j] = "leased"]
    BY <1>1, <1>2, <2>1, OnePhase, PhaseOf
  <2>3. QueuePhases' = [k \in Jobs |-> IF k \in {j} THEN "leased" ELSE QueuePhases[k]]
    BY <2>2 DEF QueuePhases
  <2>4. attempts' = [k \in Jobs |-> IF k \in {j} THEN attempts[k] + 1 ELSE attempts[k]]
    BY <1>1, <1>2 DEF TypeOK
  <2>5. Queue!Grant({j})
    BY <1>2, <1>3, <2>2, <2>3, <2>4 DEF Queue!Grant
  <2>6. QED
    BY <2>5 DEF QStep, Queue!QNext
<1>5. CASE target[TargetOf[j]] # "ACTIVE"
  <2>1. status' = [status EXCEPT ![j] = "FAILED"]
    BY <1>5 DEF ClaimRunning
  <2>2. QueuePhases[j] = "waiting" /\ QueuePhases' = [QueuePhases EXCEPT ![j] = "dead"]
    BY <1>1, <1>2, <2>1, OnePhase, PhaseOf
  <2>3. Queue!Refuse(j)
    BY <1>1, <1>2, <1>3, <2>2 DEF Queue!Refuse
  <2>4. QED
    BY <2>3 DEF QStep, Queue!QNext
<1>6. QED
  BY <1>4, <1>5

LEMMA SuccessStep ==
    ASSUME IndInv, IndInv', NEW p \in Processes, NEW c \in Contents, FinalizeSuccess(p, c)
    PROVE  QStep
<1> PICK j \in Jobs : j = current[p]
  BY DEF FinalizeSuccess, IndInv, TypeOK
<1>1. /\ status[j] = "RUNNING"
      /\ status' = [status EXCEPT ![j] = "SUCCEEDED"]
      /\ attempts' = attempts
  BY DEF FinalizeSuccess, Settle, Fenced
<1>2. QueuePhases[j] = "leased" /\ QueuePhases' = [QueuePhases EXCEPT ![j] = "done"]
  <2>1. TypeOK
    BY DEF IndInv
  <2>2. /\ QueuePhases[j] = QueuePhase(status[j])
        /\ QueuePhases' = [QueuePhases EXCEPT ![j] = QueuePhase("SUCCEEDED")]
    BY <1>1, <2>1, OnePhase
  <2>3. QED
    BY <1>1, <2>2, PhaseOf
<1>3. \A k \in Jobs : /\ Fetches(k) = IF status[k] = "SUCCEEDED" THEN 1 ELSE 0
                      /\ Fetches(k)' = IF status'[k] = "SUCCEEDED" THEN 1 ELSE 0
  BY DEF IndInv, ChangesAccounted
<1>4. /\ Fetches(j) = 0 /\ Fetches(j)' = 1
      /\ \A k \in Jobs : k # j => Fetches(k)' = Fetches(k)
  BY <1>1, <1>3 DEF IndInv, TypeOK
<1>5. QueueEffects' = [QueueEffects EXCEPT ![j] = @ + 1]
  BY <1>4 DEF QueueEffects
<1>6. Queue!Complete(j)
  BY <1>1, <1>2, <1>5 DEF Queue!Complete
<1>7. QED
  BY <1>6 DEF QStep, Queue!QNext

LEMMA FailureRefines ==
    ASSUME IndInv, IndInv', NEW p \in Processes, FinalizeFailure(p)
    PROVE  QStep
<1> PICK j \in Jobs : j = current[p]
  BY DEF FinalizeFailure, IndInv, TypeOK
<1>1. PICK new \in {RetryStatus(j), "FAILED"} : status' = [status EXCEPT ![j] = new]
  BY DEF FinalizeFailure, Settle
<1>2. status[j] = "RUNNING" /\ attempts' = attempts
  BY DEF FinalizeFailure, Settle, Fenced
<1>3. new \in {"QUEUED", "FAILED"} /\ (new = "QUEUED" => attempts[j] < MaxAttempts)
  BY <1>1, RetryStatusBudget DEF IndInv
<1>4. QueuePhases[j] = "leased" /\ QueuePhases' = [QueuePhases EXCEPT ![j] = QueuePhase(new)]
  <2>1. TypeOK
    BY DEF IndInv
  <2>2. /\ QueuePhases[j] = QueuePhase(status[j])
        /\ QueuePhases' = [QueuePhases EXCEPT ![j] = QueuePhase(new)]
    BY <1>1, <2>1, OnePhase
  <2>3. QED
    BY <1>2, <2>2, PhaseOf
<1>5. \A k \in Jobs : /\ Fetches(k) = IF status[k] = "SUCCEEDED" THEN 1 ELSE 0
                      /\ Fetches(k)' = IF status'[k] = "SUCCEEDED" THEN 1 ELSE 0
  BY DEF IndInv, ChangesAccounted
<1>6. \A k \in Jobs : Fetches(k)' = Fetches(k)
  BY <1>1, <1>2, <1>3, <1>5 DEF IndInv, TypeOK
<1>7. QueueEffects' = QueueEffects
  BY <1>6 DEF QueueEffects
<1>8. \/ QueuePhase(new) = "waiting" /\ attempts[j] < MaxAttempts
      \/ QueuePhase(new) = "dead"
  BY <1>3, PhaseOf
<1>9. Queue!Fail(j)
  BY <1>2, <1>4, <1>7, <1>8 DEF Queue!Fail
<1>10. QED
  BY <1>9 DEF QStep, Queue!QNext

LEMMA RecoverStep ==
    ASSUME IndInv, IndInv', NEW p \in Processes, RecoverStaleRunning(p)
    PROVE  QStep
<1>1. PICK S \in SUBSET StaleJobs :
        status' = [j \in Jobs |-> IF j \in S THEN RetryStatus(j) ELSE status[j]]
  BY DEF RecoverStaleRunning
<1>2. attempts' = attempts
  BY DEF RecoverStaleRunning
<1>3. S \in SUBSET Jobs /\ \A j \in S : status[j] = "RUNNING"
  BY DEF StaleJobs
<1>4. \A j \in Jobs : /\ RetryStatus(j) \in {"QUEUED", "FAILED"}
                      /\ RetryStatus(j) = "QUEUED" <=> attempts[j] < MaxAttempts
  BY RetryStatusBudget DEF IndInv
<1>5. \A j \in S : QueuePhases[j] = "leased"
  BY <1>3, PhaseOf DEF QueuePhases
<1>6. QueuePhases' = [j \in Jobs |->
                        IF j \in S
                        THEN IF attempts[j] < MaxAttempts THEN "waiting" ELSE "dead"
                        ELSE QueuePhases[j]]
  <2>1. \A j \in Jobs : QueuePhase(RetryStatus(j))
                          = IF attempts[j] < MaxAttempts THEN "waiting" ELSE "dead"
    BY <1>4, PhaseOf
  <2>2. QED
    BY <1>1, <2>1 DEF QueuePhases
<1>7. \A k \in Jobs : /\ Fetches(k) = IF status[k] = "SUCCEEDED" THEN 1 ELSE 0
                      /\ Fetches(k)' = IF status'[k] = "SUCCEEDED" THEN 1 ELSE 0
  BY DEF IndInv, ChangesAccounted
<1>8. \A k \in Jobs : Fetches(k)' = Fetches(k)
  BY <1>1, <1>3, <1>4, <1>7
<1>9. QueueEffects' = QueueEffects
  BY <1>8 DEF QueueEffects
<1>10. Queue!Expire(S)
  BY <1>2, <1>5, <1>6, <1>9 DEF Queue!Expire
<1>11. QED
  BY <1>3, <1>10 DEF QStep, Queue!QNext

(* The fetch queue implements the abstract lease queue. *)
THEOREM Refinement == Spec => ImplementsQueue
<1>1. Init => Queue!QInit
  BY DEF Init, Queue!QInit, QueuePhases, QueueEffects, QueuePhase, Fetches, ChangeTypes, SuccessTypes
<1>2. IndInv /\ IndInv' /\ [Next]_vars => QStep
  <2> SUFFICES ASSUME IndInv, IndInv', [Next]_vars PROVE QStep
    OBVIOUS
  <2>1. ASSUME NEW t \in Targets, CreateTarget(t) \/ OperatorToggles(t) PROVE QStep
    BY <2>1, StutterStep DEF CreateTarget, OperatorToggles, jobVars
  <2>2. ASSUME NEW j \in Jobs, Enqueue(j) \/ DeadlinePasses(j) PROVE QStep
    BY <2>2, EnqueueStep, StutterStep DEF DeadlinePasses, targetVars
  <2>3. ASSUME NEW p \in Processes, LostClaim(p) \/ Crash(p) PROVE QStep
    BY <2>3, StutterStep DEF LostClaim, Crash, jobVars, targetVars
  <2>4. CASE UNCHANGED vars
    BY <2>4, StutterStep DEF vars, jobVars, targetVars
  <2>5. QED
    BY <2>1, <2>2, <2>3, <2>4, ClaimStep, SuccessStep, FailureRefines, RecoverStep
       DEF Next, Work, Finalize, ClaimNextRunning
<1>3. IndInv /\ IndInv' /\ [Next]_vars => [Queue!QNext]_(Queue!queueVars)
  BY <1>2 DEF QStep
<1>4. QED
  BY <1>1, <1>3, Invariance, PTL DEF Spec, ImplementsQueue, Queue!QSpec
===============================================================================
