-------------------------------- MODULE NtsbLoad --------------------------------
(* The NTSB importer (atlas.presentation.cli.ntsb load) as one more client of  *)
(* the ingestion: it reads the exported database, makes one submission of each *)
(* accident (build_event_record) and ingests them one after the other, each in *)
(* a unit of work of its own.  It may be killed and run again; between two     *)
(* runs the NTSB may have published another version of an accident.            *)
(*                                                                             *)
(* A row is an accident as exported: its ev_id, the hash of its content, its   *)
(* date as text, its aircraft (number and registration) and its findings.      *)
EXTENDS IngestionKeys

CONSTANTS
    Loader,       \* the client that runs the command
    NtsbSource,   \* NTSB_SOURCE_NAME
    NtsbRows,     \* versions of accidents in the exported tables; a workload has some
    MaxLoads,     \* bound on the runs of the command; captured_at of their records
    NoRow

VARIABLES
    registered,   \* sources has a committed row of the NTSB
    export,       \* rows of the export: one version of each accident
    loads,        \* runs of the command so far
    pending,      \* rows the running command has still to submit
    current,      \* the row it waits for, or NoRow
    failed        \* rows it counted as failed

loadVars == <<registered, export, loads, pending, current, failed>>
allVars  == <<vars, loadVars>>

--------------------------------------------------------------------------------
(* The mapping of one accident.                                               *)

Present(v) == v.form \notin {"null", "blank", "garbled"}

(* _parse_event_date: a date in one of the formats, else nothing.             *)
_parse_event_date(row) == row.ev_date

_select_primary_aircraft(row) ==
    IF row.aircraft = {} THEN Null
    ELSE LET first == CHOOSE a \in row.aircraft : \A b \in row.aircraft : a.key <= b.key
         IN IF first.mark = NoMark THEN Null ELSE [form |-> "mark", v |-> first.mark]

(* Registrations by aircraft number, each once.                               *)
_collect_aircraft_registration_numbers(row) ==
    LET marks == {a \in row.aircraft :
                     /\ a.mark # NoMark
                     /\ \A b \in row.aircraft : b.mark = a.mark => a.key <= b.key}
    IN [i \in 1 .. Cardinality(marks) |->
           (CHOOSE a \in marks : Cardinality({b \in marks : b.key <= a.key}) = i).mark]

(* Causes before factors before the rest.                                     *)
build_finding_items(row) ==
    LET Of(role) == SelectSeq(row.findings, LAMBDA f : f.role = role)
    IN Of("CAUSE") \o Of("FACTOR") \o Of("UNSPECIFIED")

(* One claim for each field that has a value.                                 *)
ClaimsOf(row) ==
    LET marks == _collect_aircraft_registration_numbers(row)
        items == build_finding_items(row)
        all   == (<<"occurred_on", "occurred_on">> :> _parse_event_date(row)) @@
                 (<<"registration_number", "registration_number">> :>
                     _select_primary_aircraft(row)) @@
                 (<<"aircraft_registration_numbers", "aircraft_registration_numbers">> :>
                     IF marks = <<>> THEN Null ELSE [form |-> "marks", v |-> marks]) @@
                 (<<"causal_findings", "causal_findings">> :>
                     IF items = <<>> THEN Null ELSE [form |-> "list", v |-> items])
    IN [n \in {m \in DOMAIN all : Present(all[m])} |-> all[n]]

(* The key is made of the content, without the time of capture; the           *)
(* submission carries the time at which this run read the row.                *)
build_event_record(row, captured_at) ==
    [source |-> NtsbSource, key |-> row.content_hash, record |-> {row.ev_id}, event |-> NoEvent,
     raw |-> row.content_hash, captured |-> captured_at, claims |-> ClaimsOf(row)]

NtsbSubmissions == {build_event_record(r, n) : r \in NtsbRows, n \in 1 .. MaxLoads}

ASSUME NtsbAssumption ==
    /\ Loader \in Clients
    /\ NtsbSource \in Sources
    /\ \A r, s \in NtsbRows : r.content_hash = s.content_hash => r = s
    /\ NoRow \notin NtsbRows
    /\ MaxLoads \in Nat \ {0}
    /\ NtsbSubmissions \subseteq Submissions

--------------------------------------------------------------------------------
(* The command.                                                               *)

LoadInit ==
    /\ Init
    /\ registered \in BOOLEAN
    /\ export \in {rows \in SUBSET workload.rows :
                      \A r, s \in rows : r.ev_id = s.ev_id => r = s}
    /\ loads = 0
    /\ pending = {}
    /\ current = NoRow
    /\ failed = {}

Running == pending # {} \/ current # NoRow

(* One version of each accident, in the order of the table.                   *)
iter_records == export

(* A source that is missing is added to the session, which is closed without  *)
(* a commit.                                                                  *)
StartLoad ==
    /\ ~Running
    /\ export # {}
    /\ loads < MaxLoads
    /\ loads' = loads + 1
    /\ pending' = iter_records
    /\ failed' = {}
    /\ UNCHANGED <<vars, registered, export, current>>

Counted(row) ==
    /\ pending' = pending \ {row}
    /\ UNCHANGED <<registered, export, loads, current>>

(* SourceNotFoundError, or a mapping or a claim that is refused: caught,      *)
(* counted, and on to the next.                                               *)
FailRecord(row) ==
    LET s == build_event_record(row, loads) IN
    /\ current = NoRow
    /\ row \in pending
    /\ registered => /\ find_by_source_run(derive_ingestion_run_id(s)) = {}
                     /\ Rejected(SourceKind[NtsbSource], mapping[NtsbSource], s.claims)
    /\ failed' = failed \cup {row}
    /\ Counted(row)
    /\ UNCHANGED vars

(* The row was ingested before: replayed, or the key with another submission. *)
ReplayRecord(row) ==
    LET s == build_event_record(row, loads) IN
    /\ current = NoRow
    /\ row \in pending
    /\ registered
    /\ ReplayEarly(Loader, s)
    /\ failed' = IF \E r \in find_by_source_run(derive_ingestion_run_id(s)) :
                        snapshot_hash_matches(r, s)
                 THEN failed ELSE failed \cup {row}
    /\ Counted(row)

SubmitRecord(row) ==
    /\ current = NoRow
    /\ row \in pending
    /\ registered
    /\ Submit(Loader, build_event_record(row, loads))
    /\ current' = row
    /\ pending' = pending \ {row}
    /\ UNCHANGED <<registered, export, loads, failed>>

(* The ingestion has committed and answered, or raised.                       *)
SettleRecord ==
    /\ current # NoRow
    /\ At(Loader, "idle")
    /\ current' = NoRow
    /\ failed' = IF \E a \in answers : a.sub = build_event_record(current, loads)
                 THEN failed ELSE failed \cup {current}
    /\ UNCHANGED <<vars, registered, export, loads, pending>>

(* The process is killed; PostgreSQL rolls back what it had open.             *)
Kill ==
    /\ Running
    /\ pending' = {}
    /\ current' = NoRow
    /\ IF At(Loader, "idle") THEN UNCHANGED vars ELSE Rollback(Loader)
    /\ UNCHANGED <<registered, export, loads, failed>>

(* A newer export, between two runs.                                          *)
Export(row) ==
    /\ ~Running
    /\ \E old \in export :
          /\ old.ev_id = row.ev_id
          /\ old # row
          /\ export' = (export \ {old}) \cup {row}
    /\ UNCHANGED <<vars, registered, loads, pending, current, failed>>

(* A row made by hand: nothing else in the program commits one.               *)
RegisterSource ==
    /\ ~registered
    /\ registered' = TRUE
    /\ UNCHANGED <<vars, export, loads, pending, current, failed>>

(* The other clients, the steps of an ingestion the command waits for, and    *)
(* what else happens to the events and the sources.                           *)
LoadNext ==
    \/ StartLoad \/ SettleRecord \/ Kill \/ RegisterSource
    \/ \E r \in NtsbRows : FailRecord(r) \/ ReplayRecord(r) \/ SubmitRecord(r) \/ Export(r)
    \/ \E c \in Clients \ {Loader}, s \in Submissions :
          s \in workload.submissions /\ ingest_from_source(c, s) /\ UNCHANGED loadVars
    \/ \E c \in Clients :
          \/ ensure_started(c) /\ UNCHANGED loadVars
          \/ ResolveRecord(c) /\ UNCHANGED loadVars
          \/ InsertSnapshot(c) /\ UNCHANGED loadVars
          \/ ResolveEvent(c) /\ UNCHANGED loadVars
          \/ CommitIngestion(c) /\ UNCHANGED loadVars
          \/ RefuseMerged(c) /\ UNCHANGED loadVars
          \/ Rollback(c) /\ UNCHANGED loadVars
    \/ \E s, t \in Events : Merge(s, t) /\ UNCHANGED loadVars
    \/ \E s \in Sources : \E m \in workload.mappings[s] :
          SetSourceFieldMapping(s, m) /\ UNCHANGED loadVars

LoadSpec == LoadInit /\ [][LoadNext]_allVars

--------------------------------------------------------------------------------
(* ntsb.py, "re-running replays already-ingested records cheaply": a record   *)
(* whose content has been ingested is not counted as failed by a later run.   *)
ReloadReplays ==
    \A r \in failed :
        find_by_source_run(derive_ingestion_run_id(build_event_record(r, loads))) = {}
================================================================================
