------------------------------ MODULE LeaseQueue ------------------------------
(* What a durable job queue with fenced leases promises to the rest of the    *)
(* platform, whatever table and worker loop implement it: every lease of a    *)
(* job has a fresh number, a job is leased at most Budget times, its work is  *)
(* committed at most once, and only while it is leased, and a finished job    *)
(* stays finished.  The outbox (OutboxWorker) and the Hermes fetch queue      *)
(* (HermesQueue) are both shown to implement it.                              *)
EXTENDS Naturals

CONSTANTS
    Jobs,     \* identities of the jobs
    Budget    \* leases a job may consume, a positive number

VARIABLES
    phase,    \* [Jobs -> Phases]
    leases,   \* [Jobs -> Nat]: leases granted so far; the number of the last
    effects   \* [Jobs -> Nat]: how often the job's work has been committed

queueVars == <<phase, leases, effects>>

QInit ==
    /\ phase = [j \in Jobs |-> "absent"]
    /\ leases = [j \in Jobs |-> 0]
    /\ effects = [j \in Jobs |-> 0]

Submit(j) ==
    /\ phase[j] = "absent"
    /\ phase' = [phase EXCEPT ![j] = "waiting"]
    /\ UNCHANGED <<leases, effects>>

(* A set of waiting jobs is leased in one step: a batch. *)
Grant(S) ==
    /\ \A j \in S : phase[j] = "waiting" /\ leases[j] < Budget
    /\ phase' = [j \in Jobs |-> IF j \in S THEN "leased" ELSE phase[j]]
    /\ leases' = [j \in Jobs |-> IF j \in S THEN leases[j] + 1 ELSE leases[j]]
    /\ UNCHANGED effects

(* A job found unworkable while it is being leased: the lease is spent. *)
Refuse(j) ==
    /\ phase[j] = "waiting"
    /\ leases[j] < Budget
    /\ phase' = [phase EXCEPT ![j] = "dead"]
    /\ leases' = [leases EXCEPT ![j] = @ + 1]
    /\ UNCHANGED effects

Complete(j) ==
    /\ phase[j] = "leased"
    /\ phase' = [phase EXCEPT ![j] = "done"]
    /\ effects' = [effects EXCEPT ![j] = @ + 1]
    /\ UNCHANGED leases

(* A failed attempt: back to waiting while leases remain, dead otherwise.  A  *)
(* permanent error may also kill a job that still has budget.                 *)
Fail(j) ==
    /\ phase[j] = "leased"
    /\ \/ /\ leases[j] < Budget
          /\ phase' = [phase EXCEPT ![j] = "waiting"]
       \/ phase' = [phase EXCEPT ![j] = "dead"]
    /\ UNCHANGED <<leases, effects>>

(* Expired leases are taken back together by one sweep. *)
Expire(S) ==
    /\ \A j \in S : phase[j] = "leased"
    /\ phase' = [j \in Jobs |->
                    IF j \in S
                    THEN IF leases[j] < Budget THEN "waiting" ELSE "dead"
                    ELSE phase[j]]
    /\ UNCHANGED <<leases, effects>>

QNext ==
    \/ \E j \in Jobs : Submit(j) \/ Refuse(j) \/ Complete(j) \/ Fail(j)
    \/ \E S \in SUBSET Jobs : Grant(S) \/ Expire(S)

QSpec == QInit /\ [][QNext]_queueVars
===============================================================================
