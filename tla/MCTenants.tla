-------------------------------- MODULE MCTenants -------------------------------
(* A small instance of Tenants.  Ingestion runs, reports and overlays touch    *)
(* different tables and share the gate and the meter: a behaviour calls the    *)
(* routes of one of them.                                                      *)
EXTENDS Tenants, TLC

(* The user may only read in t1, until it is made a MEMBER, and owns t2, until  *)
(* it leaves.                                                                   *)
MCApiKeys == {[user |-> "u", tenant |-> t] : t \in {"t1", "t2", Nobody}}
MCMembers == [k \in {"u"} \X {"t1", "t2"} |-> IF k[2] = "t1" THEN "READ_ONLY" ELSE "OWNER"]
MCChanges == {<<"u", "t1", "MEMBER">>, <<"u", "t2", Nobody>>}

MCBatches == {{}, {[event |-> 1, kind |-> "FOQA"], [event |-> 2, kind |-> "OTHER"]},
              {[event |-> 5, kind |-> "ASAP"]},
              {[event |-> 1, kind |-> k] : k \in {"FOQA", "ASAP", "OTHER"}}}

MCNarratives == {[plain |-> 1, marks |-> <<"N123">>], [plain |-> 0, marks |-> <<"N123">>]}

MCWorkloads ==
    LET public == {"merge", "reproject"} \X {Nobody}
    IN {{"register_source", "open_ingestion_run", "submit_claims_batch", "complete_ingestion_run"}
            \X {"t1", "t2"},
        ({"submit_safety_report"} \X {"t1", "t2"}) \cup public,
        ({"upsert_event_overlay"} \X {"t1"}) \cup public,
        {"upsert_event_overlay", "list_events"} \X {"t2"}}

MCScoped == <<"claim", "report">>
MCSystem == <<"query">>

Symmetry == Permutations(Callers)
================================================================================
