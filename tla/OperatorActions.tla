---- MODULE OperatorActions ----
\* Operators on one task: replays (src/services/replay_policy.py, replay_lineage.py), forced
\* lease evictions (force_operations.py, governance.py) with their audit records
\* (operator_actions.py, task_timeline.py), and the recovery explanation
\* (recovery_explainer.py), beside a worker that takes and loses the lease. The routes pass
\* the role operator (authenticate returns none); admin is the services' other role.
EXTENDS Integers, FiniteSets

CONSTANTS
    Requests,
    MaxReplays, Window,
    Horizon,     \* bound of the clock
    MaxEvents,   \* bound: steps of the worker, failing calls
    None

VARIABLES
    now,
    lease,     \* task_lock:<task> exists
    status,    \* of the MySQL row
    runs,      \* run_key -> the request that created it
    audit,     \* OperatorActionRecord rows: kind, at, by
    timeline,  \* TaskEventRecord rows: event, by
    req,
    evictions, \* history: the requests that deleted the lease
    crowd,     \* history: audit rows written under another request's count
    events

vars == <<now, lease, status, runs, audit, timeline, req, evictions, crowd, events>>
tables == <<runs, audit, timeline>>

New == [pc |-> "new", role |-> None, reason |-> FALSE, allowed |-> TRUE, locked |-> FALSE,
        was |-> {}, advice |-> None]

Init ==
    /\ now = 0 /\ lease = FALSE /\ status = "queued"
    /\ runs = {} /\ audit = {} /\ timeline = {} /\ evictions = {}
    /\ req = [r \in Requests |-> New]
    /\ crowd = 0 /\ events = 0

At(r, pc) == req[r].pc = pc
Goes(r, pc) == req' = [req EXCEPT ![r].pc = pc]
Event == events < MaxEvents /\ events' = events + 1
Ends(r, a) == req' = [req EXCEPT ![r] = [New EXCEPT !.pc = a]]
\* Every explanation under way sees the condition the worker's step leaves behind
Seen(rs, l, s) == [r \in Requests |-> IF rs[r].pc \in {"lock", "row"}
                                      THEN [rs[r] EXCEPT !.was = @ \cup {<<l, s>>}] ELSE rs[r]]

----
\* check_task_replay_allowed: the reason, the lease (an admin overrides what came so far),
\* the replays in the window
Ask(r, role, reason) ==
    /\ At(r, "new")
    /\ req' = [req EXCEPT ![r] = [New EXCEPT !.pc = "lease", !.role = role, !.reason = reason,
                                             !.allowed = reason]]
    /\ UNCHANGED <<now, lease, status, tables, evictions, crowd, events>>
CheckLease(r) ==
    /\ At(r, "lease")
    /\ req' = [req EXCEPT ![r].pc = "count",
                          ![r].allowed = IF lease THEN req[r].role = "admin" ELSE @]
    /\ UNCHANGED <<now, lease, status, tables, evictions, crowd, events>>
Recent == {a \in audit : a.kind = "replay" /\ a.at >= now - Window}
SpentLate == Cardinality(Recent) > MaxReplays
Spent == Cardinality(Recent) >= MaxReplays
CountRecent(r) ==
    /\ At(r, "count")
    /\ IF Spent \/ ~req[r].allowed THEN Ends(r, "denied") ELSE Goes(r, "run")
    /\ UNCHANGED <<now, lease, status, tables, evictions, crowd, events>>

\* replay_task: the run, the audit row, its timeline event and one more, a commit each
CreateRunUnaudited(r) ==
    /\ At(r, "run")
    /\ runs' = runs \cup {r}
    /\ Goes(r, "emit")
    /\ UNCHANGED <<now, lease, status, audit, timeline, evictions, crowd, events>>
CreateRun(r) ==
    /\ At(r, "run")
    /\ runs' = runs \cup {r}
    /\ Goes(r, "audit")
    /\ UNCHANGED <<now, lease, status, audit, timeline, evictions, crowd, events>>
Record(r, kind) ==
    /\ At(r, "audit")
    /\ kind = (IF r \in runs THEN "replay" ELSE "evict")
    /\ audit' = audit \cup {[kind |-> kind, at |-> now, by |-> r]}
    /\ crowd' = IF kind = "replay"
                THEN crowd + Cardinality({q \in Requests \ {r} : At(q, "run") \/ (At(q, "audit") /\ q \in runs)})
                ELSE crowd
    /\ Goes(r, "event")
    /\ UNCHANGED <<now, lease, status, runs, timeline, evictions, events>>
EmitAudit(r) ==
    /\ At(r, "event")
    /\ timeline' = timeline \cup {[event |-> "operator", by |-> r]}
    /\ Goes(r, IF r \in runs THEN "emit" ELSE "evict")
    /\ UNCHANGED <<now, lease, status, runs, audit, evictions, crowd, events>>
EmitReplay(r) ==
    /\ At(r, "emit")
    /\ timeline' = timeline \cup {[event |-> "replay", by |-> r]}
    /\ Ends(r, "done")
    /\ UNCHANGED <<now, lease, status, runs, audit, evictions, crowd, events>>

----
\* execute_force_operation for force_lease_eviction, a high-risk operation: admin, with a
\* reason; the audit row and its event, then the DEL
EvictFirst == "evict"
EvictWhen == "audit"
Evict(r, role, reason) ==
    /\ At(r, "new")
    /\ IF role = "admin" /\ reason THEN Goes(r, EvictWhen) ELSE Ends(r, "denied")
    /\ UNCHANGED <<now, lease, status, tables, evictions, crowd, events>>
DeleteLease(r) ==
    /\ At(r, "evict")
    /\ lease' = FALSE
    /\ evictions' = IF lease THEN evictions \cup {r} ELSE evictions
    /\ req' = Seen([req EXCEPT ![r] = [New EXCEPT !.pc = "done"]], FALSE, status)
    /\ UNCHANGED <<now, status, tables, crowd, events>>

\* explain_task: the lock, then the row; a failing query leaves the first advice
Explain(r) ==
    /\ At(r, "new")
    /\ req' = [req EXCEPT ![r].pc = "lock", ![r].was = {<<lease, status>>}]
    /\ UNCHANGED <<now, lease, status, tables, evictions, crowd, events>>
ReadLock(r) ==
    /\ At(r, "lock")
    /\ req' = [req EXCEPT ![r].pc = "row", ![r].locked = lease]
    /\ UNCHANGED <<now, lease, status, tables, evictions, crowd, events>>
AdviceAlways(r) == IF status = "running" THEN "replay_or_repair" ELSE "inspect"
Advice(r) == CASE status = "running" /\ ~req[r].locked -> "replay_or_repair"
               [] status \in {"completed", "failed"} -> "inspect_or_replay_callback"
               [] OTHER -> "inspect"
ReadRow(r) ==
    /\ At(r, "row")
    /\ \E a \in {Advice(r), "inspect"} : req' = [req EXCEPT ![r].pc = "explained", ![r].advice = a]
    /\ UNCHANGED <<now, lease, status, tables, evictions, crowd, events>>

\* A commit or a Redis call raises: the request ends where it is
Fails(r) ==
    /\ req[r].pc \notin {"new", "row", "denied", "done", "explained", "failed"}
    /\ Event
    /\ Ends(r, "failed")
    /\ UNCHANGED <<now, lease, status, tables, evictions, crowd>>

\* The worker (modelled in TaskExecutor): the lease before the row, the row before the
\* release; the lease may run out under it
Worker(l, s) ==
    /\ Event
    /\ <<lease, status, l, s>> \in
         {<<FALSE, "queued", TRUE, "queued">>, <<TRUE, "queued", TRUE, "running">>,
          <<TRUE, "running", TRUE, "completed">>, <<TRUE, "completed", FALSE, "completed">>,
          <<TRUE, "running", FALSE, "running">>}
    /\ lease' = l /\ status' = s
    /\ req' = Seen(req, l, s)
    /\ UNCHANGED <<now, tables, evictions, crowd>>
Tick ==
    /\ now < Horizon
    /\ now' = now + 1
    /\ UNCHANGED <<lease, status, tables, req, evictions, crowd, events>>

\* The three routes
Replay(r) ==
    \/ \E role \in {"operator", "admin"}, reason \in BOOLEAN : Ask(r, role, reason)
    \/ CheckLease(r) \/ CountRecent(r) \/ CreateRun(r) \/ Record(r, "replay") \/ EmitReplay(r)
Eviction(r) ==
    \/ \E role \in {"operator", "admin"}, reason \in BOOLEAN : Evict(r, role, reason)
    \/ Record(r, "evict") \/ DeleteLease(r)
ForceRoutes == \E r \in Requests : Eviction(r)
Explanation(r) == Explain(r) \/ ReadLock(r) \/ ReadRow(r)
Next ==
    \/ ForceRoutes
    \/ \E r \in Requests : Replay(r) \/ Explanation(r) \/ EmitAudit(r) \/ Fails(r)
    \/ \E l \in BOOLEAN, s \in {"queued", "running", "completed"} : Worker(l, s)
    \/ Tick
Spec == Init /\ [][Next]_vars

----
TypeOK ==
    /\ runs \subseteq Requests /\ evictions \subseteq Requests
    /\ \A a \in audit : a.at \in 0..now

\* Within a window there are no more replays on record than max_replays, plus the ones
\* recorded while another request was between its count and its record.
ReplaysLimited == Cardinality(Recent) <= MaxReplays + crowd

\* A replay run has its audit row, and its timeline says who asked, unless the request
\* is still between the commits or failed there.
ReplayAudited ==
    \A r \in runs : req[r].pc = "done" =>
       /\ \E a \in audit : a.by = r /\ a.kind = "replay"
       /\ {"operator", "replay"} = {e.event : e \in {f \in timeline : f.by = r}}

\* No lease is evicted without the audit row of the eviction.
EvictionAudited == \A r \in evictions : \E a \in audit : a.by = r /\ a.kind = "evict"

\* An operator is advised to replay or repair only if the task was running without a
\* lease at some time while the explanation was made, or the worker took the lease and
\* marked the task running between its two reads.
AdviceFounded ==
    \A r \in Requests : req[r].advice = "replay_or_repair" =>
       \/ <<FALSE, "running">> \in req[r].was
       \/ {<<TRUE, "queued">>, <<TRUE, "running">>, <<FALSE, "queued">>} \subseteq req[r].was
====
