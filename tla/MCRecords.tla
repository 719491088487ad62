-------------------------------- MODULE MCRecords -------------------------------
(* Small tables for TLC: two requests in flight, enough rows for both to race  *)
(* over one and to leave another alone.                                        *)
EXTENDS Records, TLC

(* Two methodology pages and a changelog entry are published already. *)
MCKindOf   == <<"glossary_term", "methodology_page", "methodology_page",
                "changelog_entry", "changelog_entry">>
MCExisting == {[id |-> 2, key |-> 1, place |-> 2], [id |-> 3, key |-> 2, place |-> 1],
               [id |-> 4, key |-> 1, place |-> 1]}

MCCategoryOf == [s1 |-> "c1", s2 |-> "c2"]

MCProjections ==
    [e1 |-> {[registration |-> "n-1", operator |-> "klm"],
             [registration |-> "n1", airport |-> "EHAM", location |-> "schiphol"]},
     e2 |-> {[operator |-> "klm", aircraft_type |-> "b738"],
             [location |-> "schiphol", country |-> "nl"]}]
Spellings == {"n-1", "n1", "klm", "b738", "EHAM", "schiphol", "nl"}
MCNormal  == [raw \in Spellings |-> IF raw = "n-1" THEN "n1" ELSE raw]

MCProjected == {<<2, 2, Blank, 1>>, <<2, Vague, Blank, 1>>}

(* Enough open conflicts for MEDIUM, of which one resolved leaves LOW. *)
MCConflictBatches == {1..5}

Symmetry == Permutations(Callers)
================================================================================
