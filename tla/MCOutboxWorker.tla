---------------------------- MODULE MCOutboxWorker ----------------------------
(* Instances of OutboxWorker for TLC. *)
EXTENDS OutboxWorker, TLC

CONSTANTS p1, p2

(* One row of each kind that matters to a configuration. *)
MixedKind == 1 :> "ECHO_CROSSREF_REQUESTED" @@ 2 :> "CLAIMS_UPDATED"
EchoAndOther == 1 :> "ECHO_CROSSREF_REQUESTED" @@ 2 :> "OTHER"
EchoKind == 1 :> "ECHO_CROSSREF_REQUESTED"

(* Both processes run under the command line's default --worker-id. *)
SharedId == p1 :> "module-worker" @@ p2 :> "module-worker"
OwnId == p1 :> "worker-1" @@ p2 :> "worker-2"

Symmetry == Permutations(Processes)
===============================================================================
