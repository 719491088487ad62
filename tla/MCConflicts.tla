------------------------------ MODULE MCConflicts ------------------------------
(* Two sources, one with a record id and one without.                          *)
EXTENDS Conflicts, TLC

CONSTANTS A, B, record

MCFeeds == {<<A, record>>, <<B, NoRecord>>}

(* Values and requests are interchangeable; claim ids are ordered. *)
Symmetry == Permutations(Values) \cup Permutations(Processes)
================================================================================
