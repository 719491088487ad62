-------------------------------- MODULE Metering -------------------------------
(* Metering: usage events written in the transaction of the metered action,    *)
(* and the jobs that count them per tenant, metric and day into                *)
(* usage_daily_rollups.  Transactions are READ COMMITTED: every count of a job *)
(* sees what is committed at that moment, an upserted row is locked until the  *)
(* job commits.                                                                *)
EXTENDS Integers, FiniteSets, FiniteSetsExt, Sequences, SequencesExt

CONSTANTS
    Tenants,
    NO_TENANT_SENTINEL,      \* under which the system metrics are rolled up
    _TENANT_SCOPED_METRICS,  \* sequences of metrics, in the order they are visited
    _SYSTEM_METRICS,
    Writers,                 \* transactions of metered actions
    Jobs,                    \* requests that run ComputeDailyRollups, one each
    Quantities,              \* events one action records
    TicksPerDay, Days,       \* day d is d * TicksPerDay .. (d + 1) * TicksPerDay - 1
    MaxEvents,               \* bound on the usage events
    Idle, Ended, NoRow       \* no transaction (yet, any more), no rollup

VARIABLES
    now,                     \* the clock
    usage,                   \* [<<tenant, metric, tick>> -> number of usage_events]
    writer,                  \* [Writers -> uncommitted [at, n], at as in usage, or Idle]
    rollup,                  \* usage_daily_rollups: [Cells -> [count, final] or NoRow]
    job                      \* [Jobs -> [days, tenant_ids, todo, counted, staged], Idle or Ended]

vars == <<now, usage, writer, rollup, job>>

Scoped == (Tenants \X ToSet(_TENANT_SCOPED_METRICS))
          \cup ({NO_TENANT_SENTINEL} \X ToSet(_SYSTEM_METRICS))
Cells  == {<<s[1], s[2], d>> : s \in Scoped, d \in Days}
Ticks  == UNION {(d * TicksPerDay)..(d * TicksPerDay + TicksPerDay - 1) : d \in Days}
Keys   == {<<s[1], s[2], t>> : s \in Scoped, t \in Ticks}

Total(f, S) == MapThenSumSet(LAMBDA x : f[x], S)

(* The events of one metric of a tenant, by when they were recorded. *)
Recorded(who, metric) == [t \in Ticks |-> usage[<<who, metric, t>>]]

Init ==
    /\ now = Min(Ticks)
    /\ usage = [k \in Keys |-> 0]
    /\ writer = [w \in Writers |-> Idle]
    /\ rollup = [c \in Cells |-> NoRow]
    /\ job = [j \in Jobs |-> Idle]

Tick ==
    /\ now < Max(Ticks)
    /\ now' = now + 1
    /\ UNCHANGED <<usage, writer, rollup, job>>
--------------------------------------------------------------------------------
(* MeteringService.record: recorded_at is set here, quantity 0 records nothing. *)
record(w, s, quantity) ==
    /\ writer[w] = Idle
    /\ quantity > 0
    /\ Total(usage, Keys) + quantity <= MaxEvents
    /\ writer' = [writer EXCEPT ![w] = [at |-> <<s[1], s[2], now>>, n |-> quantity]]
    /\ UNCHANGED <<now, usage, rollup, job>>

(* The metered action commits, its usage events with it ... *)
CommitAction(w) ==
    /\ writer[w] # Idle
    /\ usage' = [usage EXCEPT ![writer[w].at] = @ + writer[w].n]
    /\ writer' = [writer EXCEPT ![w] = Idle]
    /\ UNCHANGED <<now, rollup, job>>

(* ... or is rolled back, and nothing is metered. *)
RollBackAction(w) ==
    /\ writer[w] # Idle
    /\ writer' = [writer EXCEPT ![w] = Idle]
    /\ UNCHANGED <<now, usage, rollup, job>>
--------------------------------------------------------------------------------
_iter_days(day_from, day_to) == [i \in 1..(day_to - day_from + 1) |-> day_from + i - 1]

_day_bounds(day) == [start |-> day * TicksPerDay, end |-> (day + 1) * TicksPerDay]

(* Mutant of InRange: the end of the range belongs to it. *)
InRangeInclusive(t, bounds) == t >= bounds.start /\ t <= bounds.end

(* recorded_at >= start AND recorded_at < end *)
InRange(t, bounds) == t >= bounds.start /\ t < bounds.end

count_in_range(who, metric, bounds) ==
    Total(Recorded(who, metric), {t \in Ticks : InRange(t, bounds)})

distinct_tenants_in_range(bounds) ==
    {k[1] : k \in {i \in Keys : i[1] \in Tenants /\ usage[i] > 0 /\ InRange(i[3], bounds)}}

(* An admin asks for the days of a range, of the named tenants or of all. *)
compute_rollups(j, day_from, day_to, tenant_ids) ==
    /\ job[j] = Idle
    /\ job' = [job EXCEPT ![j] =
          [days |-> _iter_days(day_from, day_to), tenant_ids |-> tenant_ids,
           todo |-> <<>>, counted |-> NoRow, staged |-> <<>>]]
    /\ UNCHANGED <<now, usage, writer, rollup>>

CellsOf(who, metrics, day) == [i \in DOMAIN metrics |-> <<who, metrics[i], day>>]

Running(j) == job[j] \notin {Idle, Ended}

(* The cells of the next day: every metric of the day's tenants, zero or not,  *)
(* the tenants in the order the query returns them.                            *)
NextDay(j) ==
    /\ Running(j) /\ job[j].todo = <<>> /\ job[j].counted = NoRow /\ job[j].days # <<>>
    /\ LET day     == Head(job[j].days)
           tenants == IF job[j].tenant_ids = NoRow
                      THEN distinct_tenants_in_range(_day_bounds(day)) ELSE job[j].tenant_ids
       IN \E order \in SetToSeqs(tenants) :
             job' = [job EXCEPT
                ![j].days = Tail(@),
                ![j].todo = FlattenSeq([i \in DOMAIN order |->
                                           CellsOf(order[i], _TENANT_SCOPED_METRICS, day)])
                            \o CellsOf(NO_TENANT_SENTINEL, _SYSTEM_METRICS, day)]
    /\ UNCHANGED <<now, usage, writer, rollup>>

(* Nothing can be added to a day that is over, once its writers have ended. *)
Over(day) ==
    /\ now >= _day_bounds(day).end
    /\ \A w \in Writers : writer[w] # Idle => ~ InRange(writer[w].at[3], _day_bounds(day))

CountCell(j) ==
    /\ Running(j) /\ job[j].counted = NoRow /\ job[j].todo # <<>>
    /\ LET c == Head(job[j].todo)
       IN job' = [job EXCEPT
             ![j].todo = Tail(@),
             ![j].counted = [cell |-> c, count |-> count_in_range(c[1], c[2], _day_bounds(c[3])),
                             final |-> Over(c[3])]]
    /\ UNCHANGED <<now, usage, writer, rollup>>

(* INSERT ... ON CONFLICT ON CONSTRAINT uq_usage_daily_rollups_natural DO      *)
(* UPDATE: it waits for a job that wrote the row and has not committed.        *)
upsert(j) ==
    /\ Running(j) /\ job[j].counted # NoRow
    /\ LET row == job[j].counted
       IN /\ \A i \in Jobs \ {j} : Running(i) => \A k \in DOMAIN job[i].staged :
                job[i].staged[k].cell # row.cell
          /\ job' = [job EXCEPT ![j].counted = NoRow, ![j].staged = Append(@, row)]
    /\ UNCHANGED <<now, usage, writer, rollup>>

(* The last row a job wrote to a cell is the one that stays. *)
CommitJob(j) ==
    /\ Running(j) /\ job[j].days = <<>> /\ job[j].todo = <<>> /\ job[j].counted = NoRow
    /\ LET staged  == job[j].staged
           Rows(c) == {k \in DOMAIN staged : staged[k].cell = c}
       IN rollup' = [c \in Cells |->
                        IF Rows(c) = {} THEN rollup[c]
                        ELSE [count |-> staged[Max(Rows(c))].count, final |-> staged[Max(Rows(c))].final]]
    /\ job' = [job EXCEPT ![j] = Ended]
    /\ UNCHANGED <<now, usage, writer>>

(* A failure, or the deadlock of two jobs that lock rows in different orders. *)
RollBackJob(j) ==
    /\ Running(j) /\ job[j].staged # <<>>
    /\ job' = [job EXCEPT ![j] = Ended]
    /\ UNCHANGED <<now, usage, writer, rollup>>

Next ==
    \/ Tick
    \/ \E w \in Writers :
          \/ \E s \in Scoped, n \in Quantities : record(w, s, n)
          \/ CommitAction(w)
          \/ RollBackAction(w)
    \/ \E j \in Jobs :
          \/ \E d, e \in Days, only \in {NoRow} \cup {{t} : t \in Tenants} :
                d <= e /\ compute_rollups(j, d, e, only)
          \/ NextDay(j)
          \/ CountCell(j)
          \/ upsert(j)
          \/ CommitJob(j)
          \/ RollBackJob(j)

Spec == Init /\ [][Next]_vars
--------------------------------------------------------------------------------
(* What a tenant reads of its rollups, and the totals an operator reads. *)
GetTenantUsage(caller, tenant, day_from, day_to) ==
    IF caller # tenant THEN {}
    ELSE {c \in Cells : c[1] = tenant /\ c[3] \in day_from..day_to /\ rollup[c] # NoRow}

summary_across_tenants(day_from, day_to) ==
    LET Rolled(s) == {d \in Days : d \in day_from..day_to /\ rollup[<<s[1], s[2], d>>] # NoRow}
    IN [s \in {x \in Scoped : Rolled(x) # {}} |->
          Total([d \in Rolled(s) |-> rollup[<<s[1], s[2], d>>].count], Rolled(s))]

(* Type invariant. *)
TypeOK ==
    /\ now \in Ticks
    /\ usage \in [Keys -> Nat]
    /\ \A c \in Cells : rollup[c] # NoRow => rollup[c].count \in Nat

(* The rollups can be billed from, however jobs and metered actions overlap:   *)
(* no event is billed twice or on two days (the totals an operator reads never *)
(* exceed the events of those days), a row counted once its day was over is    *)
(* exact for good, and a day that was rolled up for a tenant has a row for     *)
(* every metric, so that "no usage" differs from "not rolled up".              *)
RollupSound ==
    /\ \A from, to \in Days :
          LET summary == summary_across_tenants(from, to)
          IN \A s \in DOMAIN summary :
                summary[s] <= Total(Recorded(s[1], s[2]), {t \in Ticks : t \div TicksPerDay \in from..to})
    /\ \A c \in Cells : rollup[c] # NoRow =>
          /\ rollup[c].final =>
                rollup[c].count = Total(Recorded(c[1], c[2]), {t \in Ticks : t \div TicksPerDay = c[3]})
          /\ c[1] \in Tenants =>
                Cardinality(GetTenantUsage(c[1], c[1], c[3], c[3]))
                    = Len(_TENANT_SCOPED_METRICS)
================================================================================
