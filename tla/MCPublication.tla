----------------------------- MODULE MCPublication -----------------------------
(* Two pages about two events, one published before, and two editorial         *)
(* requests at a time.  The events lie on both sides of the antimeridian.      *)
EXTENDS PublicQueries, TLC

CONSTANTS e1, e2, a, b, t, u, usa

MCExisting == {[page |-> 2, event |-> e2, slug |-> b, text |-> t]}

MCCountry    == (e1 :> usa) @@ (e2 :> Null)
MCFatalities == (e1 :> 3) @@ (e2 :> 0)
MCPosition   == (e1 :> [lng |-> -178, lat |-> 10]) @@ (e2 :> [lng |-> 178, lat |-> 20])
MCRelations  == {<<e1, 1>>, <<e2, 1>>}

Box(south, west, north, east) == [south |-> south, west |-> west, north |-> north, east |-> east]

(* The globe, a window across the antimeridian whose cells reach across it,    *)
(* one that ends on a point and has no height, and one without width.          *)
MCBoxes == {Box(-90, -180, 90, 180), Box(0, 168, 90, -172),
            Box(10, 170, 10, -178), Box(0, 178, 30, 178)}

Asked(q, country, min, max) == [q |-> q, country |-> country, min |-> min, max |-> max]

MCQueries == {NoFacet, Asked(t, Null, Null, Null), Asked(Null, usa, Null, 3),
              Asked(Null, Null, 0, 2)}

Symmetry == Permutations(Editors)
================================================================================
