------------------------------- MODULE RateLimit -------------------------------
(* InMemoryRateLimitMiddleware of one process: a sliding window of the times   *)
(* at which each client was let through.  No step of it awaits, so a request   *)
(* passes the middleware in one step.                                          *)
EXTENDS Integers, Sequences, FiniteSets, FiniteSetsExt

CONSTANTS
    Clients,           \* client addresses
    requests,          \* hits allowed per window
    window_seconds,
    TicksPerSecond,    \* resolution of time.monotonic()
    MaxTime            \* bound on the clock, in ticks

VARIABLES
    now,               \* time.monotonic(), in ticks
    hits,              \* [Clients -> Seq(ticks)]
    lastSweep,         \* _last_sweep
    passed,            \* [Clients -> Seq(ticks)]: every request that was let through
    retryAt            \* [Clients -> when the last 429 told it to come back, or 0]

vars == <<now, hits, lastSweep, passed, retryAt>>

Window == window_seconds * TicksPerSecond

(* The clock does not start at 0: _last_sweep = 0.0 is long past. *)
Init ==
    /\ now = Window
    /\ hits = [c \in Clients |-> <<>>]
    /\ lastSweep = 0
    /\ passed = [c \in Clients |-> <<>>]
    /\ retryAt = [c \in Clients |-> 0]

Tick ==
    /\ now < MaxTime
    /\ now' = now + 1
    /\ UNCHANGED <<hits, lastSweep, passed, retryAt>>

(* while hits and hits[0] < cutoff: hits.popleft() *)
Unexpired(times) ==
    LET live == {i \in DOMAIN times : times[i] >= now - Window}
    IN IF live = {} THEN <<>> ELSE SubSeq(times, Min(live), Len(times))

(* Once per window the clients that went away are forgotten as well. *)
_sweep_expired ==
    IF now - lastSweep < Window
    THEN [hits |-> hits, at |-> lastSweep]
    ELSE [hits |-> [c \in Clients |-> Unexpired(hits[c])], at |-> now]

(* Mutant of retry_after: the seconds are truncated and not rounded up. *)
RetryTruncated(oldest) ==
    LET seconds == (oldest + Window - now) \div TicksPerSecond
    IN IF seconds < 1 THEN 1 ELSE seconds

(* max(1, int(oldest_hit + window_seconds - now) + 1) *)
retry_after(oldest) ==
    LET seconds == (oldest + Window - now) \div TicksPerSecond + 1
    IN IF seconds < 1 THEN 1 ELSE seconds

Call(c) ==
    LET swept  == _sweep_expired
        recent == Unexpired(swept.hits[c])
    IN /\ lastSweep' = swept.at
       /\ IF Len(recent) >= requests
          THEN /\ hits' = [swept.hits EXCEPT ![c] = recent]
               /\ retryAt' = [retryAt EXCEPT ![c] = now + retry_after(recent[1]) * TicksPerSecond]
               /\ UNCHANGED passed
          ELSE /\ hits' = [swept.hits EXCEPT ![c] = Append(recent, now)]
               /\ retryAt' = [retryAt EXCEPT ![c] = 0]
               /\ passed' = [passed EXCEPT ![c] = Append(@, now)]
       /\ UNCHANGED now

Next == Tick \/ \E c \in Clients : Call(c)

Spec == Init /\ [][Next]_vars
--------------------------------------------------------------------------------
(* Type invariant. *)
TypeOK ==
    /\ now \in Nat
    /\ hits \in [Clients -> Seq(Nat)]
    /\ lastSweep \in 0..now
    /\ retryAt \in [Clients -> Nat]

(* The limiter is neither loose nor unfair: no window of window_seconds, up to *)
(* now, let more than "requests" hits of a client through, however expiry and  *)
(* the sweep fell; and a client that comes back when its 429 said is let in    *)
(* (the comparison with the cutoff is strict, the header is in whole seconds). *)
RateFair ==
    \A c \in Clients :
        /\ \A t \in 0..now :
              Cardinality({i \in DOMAIN passed[c] : passed[c][i] \in t..(t + Window)}) <= requests
        /\ (retryAt[c] # 0 /\ now >= retryAt[c]) => Len(Unexpired(hits[c])) < requests
================================================================================
