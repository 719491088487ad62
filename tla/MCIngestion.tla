------------------------------- MODULE MCIngestion -------------------------------
(* Workloads of three sources, retried, repeated and raced by two clients      *)
(* over four events, with merges and a change of a source's mapping between    *)
(* any two steps.                                                              *)
EXTENDS NtsbLoad

Name(key) == <<key, key>>

Day(n)  == [form |-> "date", v |-> n]
Mark(m) == [form |-> "mark", v |-> m]

(* The first submission of record r1, and what a client sends by mistake      *)
(* under the same key.                                                        *)
First  == [source |-> "wire", key |-> "k1", record |-> {"r1"}, event |-> NoEvent,
           raw |-> "p1", captured |-> 1,
           claims |-> (Name("event_date") :> Day(1)) @@ (Name("tail_number") :> Mark("N1"))]
Reused == [First EXCEPT !.raw = "p2"]

(* A correction of the record: another day.                                   *)
Correction == [First EXCEPT !.key = "k2", !.raw = "p3",
               !.claims = (Name("event_date") :> Day(2)) @@ (Name("tail_number") :> Mark("N1"))]

(* The same accident from another source, whose own name of the date has to   *)
(* be mapped, under another spelling of the registration.                     *)
Other == [source |-> "desk", key |-> "k3", record |-> {}, event |-> NoEvent,
          raw |-> "p4", captured |-> 1,
          claims |-> (Name("day") :> Day(1)) @@ (Name("registration") :> [form |-> "dashed", v |-> "N1"])]

(* Claims without a date, and claims for a given event.                       *)
Undated  == [Other EXCEPT !.key = "k4", !.raw = "p5", !.record = {"r2"},
             !.claims = Name("registration") :> Mark("N2")]
Explicit == [Other EXCEPT !.key = "k5", !.raw = "p6", !.record = {"r2"}, !.event = 1]

(* A second report of the desk.                                               *)
Third == [Other EXCEPT !.key = "k6", !.raw = "p7"]

(* Reports with more to compare, and one with nothing to compare.             *)
Operated == [Third EXCEPT !.claims = @ @@ (Name("operator") :> [form |-> "text", v |-> {"klm"}])]
Repeated == [Operated EXCEPT !.key = "k7", !.raw = "p8"]
Told     == [Other EXCEPT !.key = "k8", !.raw = "p9",
             !.claims = Name("narrative") :> [form |-> "text", v |-> {"fog"}]]

MCSubmissions ==
    {First, Reused, Correction, Other, Undated, Explicit, Third, Operated, Repeated, Told}
    \cup NtsbSubmissions

MCSourceKind == [s \in {"wire", "desk", "ntsb"} |-> "EXTERNAL"]

Mapped   == "day" :> "event_date"
Settled  == [s \in {"wire", "desk", "ntsb"} |-> {IF s = "desk" THEN Mapped ELSE <<>>}]
Remapped == [Settled EXCEPT !["desk"] = {<<>>, Mapped}]

ClientSymmetry == Permutations(Clients \ {Loader})

MCLegacy ==
    {[snapshot |-> [run |-> <<"wire", "k1">>, legacy |-> TRUE, hash |-> <<>>, raw |-> "p1",
                    record |-> {"r1"}, result |-> NoResult],
      event |-> 1]}

(* Two versions of an accident with two aircraft, and an accident with        *)
(* nothing the importer can read.                                             *)
MCRows ==
    {[ev_id |-> "a", content_hash |-> h, ev_date |-> Day(d),
      aircraft |-> {[key |-> 1, mark |-> "N1"], [key |-> 2, mark |-> "N2"]},
      findings |-> <<[role |-> "FACTOR"], [role |-> "CAUSE"]>>] :
         <<h, d>> \in {<<"a1", 1>>, <<"a2", 2>>}}
    \cup {[ev_id |-> "b", content_hash |-> "b1", ev_date |-> [form |-> "garbled"],
           aircraft |-> {[key |-> 1, mark |-> NoMark]}, findings |-> <<>>]}

Sends(submissions, mappings) ==
    [submissions |-> submissions, mappings |-> mappings, legacy |-> {}, rows |-> {}]

MCWorkloads ==
    {Sends({First, Reused, Correction, Undated}, Settled),
     [Sends({First, Reused, Correction, Other}, Settled) EXCEPT !.legacy = MCLegacy],
     Sends({Undated, Explicit, Other}, Remapped),
     Sends({First, Correction, Other, Third}, Settled),
     Sends({Other, Operated, Repeated, Told}, Settled),
     [Sends({Undated}, Settled) EXCEPT !.rows = MCRows]}

(* Without an export the importer is never run.                               *)
MCInit == LoadInit /\ (workload.rows = {} => registered)

MCSpec == MCInit /\ [][LoadNext]_allVars
================================================================================
