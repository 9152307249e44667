---- MODULE Capabilities ----
\* One capability in the CapabilityRegistry (src/platform/capability_registry.py): its
\* record, its health hash and the three-state debounce, under concurrent registration,
\* removal, health reports and lookups (one registration or removal at a time).
EXTENDS Integers, Sequences

CONSTANTS
    UnhealthyThreshold, HealthyThreshold,
    MaxOps,   \* bound: registrations, removals, lookups and reports
    None

VARIABLES
    record,   \* the health_status of the JSON record, or None
    health,   \* the hash: status and counters, or None
    listed,   \* in capabilities:all
    writer,   \* the register or unregister under way
    looks,    \* what find_capability returned last: None, or the record's health
    recent,   \* history: the reports since the hash was last written or deleted
    split,    \* history: a report fell between the SET and the HSET of a register
    ops

vars == <<record, health, listed, writer, looks, recent, split, ops>>

Statuses == {"healthy", "degraded", "unhealthy"}
NoWriter == [pc |-> "idle", status |-> None]

Init ==
    /\ record = None /\ health = None /\ listed = FALSE
    /\ writer = NoWriter /\ looks = None
    /\ recent = <<>> /\ split = FALSE /\ ops = 0

Op == ops < MaxOps /\ ops' = ops + 1
Zero(s) == [status |-> s, ok |-> 0, fail |-> 0]

\* register: SET of the record, SADD, HSET of the counters
Register(s) ==
    /\ writer.pc = "idle" /\ Op
    /\ record' = s
    /\ writer' = [pc |-> "sadd", status |-> s]
    /\ split' = FALSE
    /\ UNCHANGED <<health, listed, looks, recent>>
RegisterIndex ==
    /\ writer.pc = "sadd"
    /\ listed' = TRUE
    /\ writer' = [writer EXCEPT !.pc = "hset"]
    /\ UNCHANGED <<record, health, looks, recent, split, ops>>
RegisterHealth ==
    /\ writer.pc = "hset"
    /\ health' = Zero(writer.status)
    /\ recent' = <<>>
    /\ writer' = NoWriter
    /\ UNCHANGED <<record, listed, looks, split, ops>>

\* unregister: DEL of the record, whose failure delete swallows, DEL of the hash, SREM
Unregister ==
    /\ writer.pc = "idle" /\ Op
    /\ record' \in {None, record}
    /\ writer' = [pc |-> "del", status |-> None]
    /\ split' = (split /\ record' # None)
    /\ UNCHANGED <<health, listed, looks, recent>>
UnregisterHealth ==
    /\ writer.pc = "del"
    /\ health' = None
    /\ recent' = <<>>
    /\ writer' = [writer EXCEPT !.pc = "srem"]
    /\ UNCHANGED <<record, listed, looks, split, ops>>
UnregisterIndex ==
    /\ writer.pc = "srem"
    /\ listed' = FALSE
    /\ writer' = NoWriter
    /\ UNCHANGED <<record, health, looks, recent, split, ops>>

\* A register or unregister whose next Redis call raises
WriterFails ==
    /\ writer.pc # "idle" /\ Op
    /\ writer' = NoWriter
    /\ split' = (split \/ writer.pc \in {"sadd", "hset"})
    /\ UNCHANGED <<record, health, listed, looks, recent>>

\* _LUA_UPDATE_HEALTH
TransitionLate(h) ==
    CASE h.status \in {"unhealthy", "degraded"} /\ h.ok >= HealthyThreshold -> "healthy"
      [] h.status = "healthy" /\ h.fail >= 2 -> "degraded"
      [] h.status = "degraded" /\ h.fail > UnhealthyThreshold -> "unhealthy"
      [] OTHER -> h.status
CountedForgetful(h, ok) ==
    IF ok THEN [h EXCEPT !.ok = @ + 1] ELSE [h EXCEPT !.fail = @ + 1]
Counted(h, ok) ==
    IF ok THEN [h EXCEPT !.ok = @ + 1, !.fail = 0] ELSE [h EXCEPT !.fail = @ + 1, !.ok = 0]
Transition(h) ==
    CASE h.status \in {"unhealthy", "degraded"} /\ h.ok >= HealthyThreshold -> "healthy"
      [] h.status = "healthy" /\ h.fail >= 2 -> "degraded"
      [] h.status = "degraded" /\ h.fail >= UnhealthyThreshold -> "unhealthy"
      [] OTHER -> h.status
RecordedNot(s) == record
Recorded(s) == IF record = None THEN None ELSE s
UpdateHealth(ok) ==
    LET h == Counted(IF health = None THEN Zero("healthy") ELSE health, ok)
        s == Transition(h)
    IN /\ Op
       /\ health' = [h EXCEPT !.status = s]
       /\ record' = Recorded(s)
       /\ recent' = Append(recent, ok)
       /\ split' = (writer.pc \in {"sadd", "hset"})
       /\ UNCHANGED <<listed, writer, looks>>

Report == \E ok \in BOOLEAN : UpdateHealth(ok)

\* find_capability: an unhealthy one is not returned; a failing GET reads as unknown
Find ==
    /\ Op
    /\ looks' \in {None, IF record = "unhealthy" THEN None ELSE record}
    /\ UNCHANGED <<record, health, listed, writer, recent, split>>

Next ==
    \/ \E s \in Statuses : Register(s)
    \/ RegisterIndex \/ RegisterHealth
    \/ Unregister \/ UnregisterHealth \/ UnregisterIndex
    \/ WriterFails
    \/ Report
    \/ Find

----
TypeOK ==
    /\ record \in Statuses \cup {None} /\ looks \in {None, "healthy", "degraded"}
    /\ health # None => health.status \in Statuses /\ (health.ok = 0 \/ health.fail = 0)

\* The record, which find_capability reads, and the hash, which the debounce reads,
\* have the same status once a registration is over, unless a report or a failure fell
\* between its two writes.
HealthAgrees ==
    record # None /\ health # None /\ writer.pc = "idle" /\ ~split => record = health.status

\* What the last n reports since the counters were reset were
Latest(n, ok) == Len(recent) >= n /\ \A i \in (Len(recent) - n + 1)..Len(recent) : recent[i] = ok

\* The debounce, from the reports alone: after HealthyThreshold successes in a row the
\* capability is healthy, after two failures in a row it is not, and after
\* UnhealthyThreshold failures in a row it is unhealthy.
Debounced ==
    /\ Latest(HealthyThreshold, TRUE) => health.status = "healthy"
    /\ Latest(UnhealthyThreshold, FALSE) => health.status = "unhealthy"
    /\ Latest(2, FALSE) => health.status # "healthy"

\* A report makes the status worse only when the report before it failed too.
WorsensOnRepeat ==
    [][health # None /\ health' # None /\ Len(recent') = Len(recent) + 1
       /\ health.status # "unhealthy" /\ health'.status \notin {health.status, "healthy"}
       => Len(recent) > 0 /\ ~recent[Len(recent)] /\ ~recent'[Len(recent')]]_vars
====
