---- MODULE RateLimit ----
\* The sliding-window limiter and its middleware (src/middleware/rate_limit.py) for the
\* requests of one identifier. The members of the ZSET are the seconds themselves.
EXTENDS Integers, FiniteSets

CONSTANTS
    Requests,
    Window, Limit,   \* default_window, default_limit
    Horizon,         \* bound of the clock
    MaxFaults        \* bound: failing Redis calls

VARIABLES
    now,
    seconds,   \* the ZSET
    req,
    overlap,   \* history: the additions made under another request's count
    faults

vars == <<now, seconds, req, overlap, faults>>

New == [pc |-> "new", t0 |-> 0, open |-> FALSE]

Init ==
    /\ now = 0 /\ seconds = {} /\ overlap = 0 /\ faults = 0
    /\ req = [r \in Requests |-> New]

At(r, pc) == req[r].pc = pc
Goes(r, pc) == req' = [req EXCEPT ![r].pc = pc]

\* dispatch: an exempt path goes straight to the handler
Exempt(r) ==
    /\ At(r, "new")
    /\ Goes(r, "served")
    /\ UNCHANGED <<now, seconds, overlap, faults>>

\* is_allowed: ZREMRANGEBYSCORE, ZCARD, then ZADD with EXPIRE or ZRANGE. (The key
\* expires when all its members are outside the window.)
Trim(r) ==
    /\ At(r, "new")
    /\ seconds' = {s \in seconds : s > now - Window}
    /\ req' = [req EXCEPT ![r].pc = "count", ![r].t0 = now]
    /\ UNCHANGED <<now, overlap, faults>>

FullLate == Cardinality(seconds) > Limit
Full == Cardinality(seconds) >= Limit
Count(r) ==
    /\ At(r, "count")
    /\ Goes(r, IF Full THEN "oldest" ELSE "add")
    /\ UNCHANGED <<now, seconds, overlap, faults>>

Add(r) ==
    /\ At(r, "add")
    /\ seconds' = seconds \cup {req[r].t0}
    /\ overlap' = overlap + Cardinality({q \in Requests \ {r} : At(q, "add")})
    /\ Goes(r, "expire")
    /\ UNCHANGED <<now, faults>>
Expire(r) ==
    /\ At(r, "expire")
    /\ Goes(r, "call")
    /\ UNCHANGED <<now, seconds, overlap, faults>>

\* ZRANGE for the retry_after of the 429
Refuse(r) ==
    /\ At(r, "oldest")
    /\ Goes(r, "refused")
    /\ UNCHANGED <<now, seconds, overlap, faults>>

\* Any of the calls raises: the request goes on
FailOpen(r) ==
    /\ req[r].pc \in {"new", "count", "add", "expire", "oldest"}
    /\ faults < MaxFaults
    /\ faults' = faults + 1
    /\ req' = [req EXCEPT ![r].pc = "call", ![r].open = TRUE]
    /\ UNCHANGED <<now, seconds, overlap>>

\* call_next, then the headers, for which a request that failed open has no metadata
Serve(r) ==
    /\ At(r, "call")
    /\ Goes(r, IF req[r].open THEN "lost" ELSE "served")
    /\ UNCHANGED <<now, seconds, overlap, faults>>

Tick ==
    /\ now < Horizon
    /\ now' = now + 1
    /\ UNCHANGED <<seconds, req, overlap, faults>>

Next ==
    \/ \E r \in Requests :
          \/ Exempt(r) \/ Trim(r) \/ Count(r) \/ Add(r) \/ Expire(r) \/ Refuse(r)
          \/ FailOpen(r) \/ Serve(r)
    \/ Tick
Spec == Init /\ [][Next]_vars

----
TypeOK ==
    /\ seconds \subseteq 0..now
    /\ \A r \in Requests : req[r].t0 <= now /\ (req[r].open => req[r].pc \in {"call", "lost"})

\* The limiter exceeds its limit at most by the additions that were made between
\* another request's ZCARD and ZADD. (It counts seconds: the requests of one second
\* are one member.)
SecondsWithinLimit == Cardinality(seconds) <= Limit + overlap
====
