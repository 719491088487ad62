----------------------------- MODULE MCEventStore ------------------------------
(* Instances of EventStore for TLC. *)
EXTENDS EventStore, TLC

CONSTANTS p1, p2, s1, a, b, r1, r2

(* The matcher suspects event 2 when 1 is stored. *)
OnePair == {<<1, 2>>}

(* Processes, values and outbox rows are interchangeable; event ids are ordered. *)
Symmetry == Permutations({p1, p2}) \cup Permutations({a, b}) \cup Permutations({r1, r2})
================================================================================
