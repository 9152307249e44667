---------------------------- MODULE QueueManager ----------------------------
(***************************************************************************)
(* src/platform/queue_manager.py: the priority queue of one capability     *)
(* with its circuit breaker.  Every Lua script, pipeline and single Redis  *)
(* command is one atomic step; an operation of several of them is several  *)
(* steps of the client that calls it, with other clients in between.       *)
(*                                                                         *)
(*   pending   {queue:<cap>}:pending   task -> priority * Scale + ready    *)
(*   running   {queue:<cap>}:running   task -> time of its dequeue         *)
(*   limit     field max_concurrent of {queue:<cap>}:config, 0 if absent   *)
(*   op        the call each client is in the middle of                    *)
(*   held      the tasks each client has dequeued and not yet finished     *)
(*                                                                         *)
(* No code writes max_queue_depth or max_concurrent_baseline into the      *)
(* config hash, so both have their defaults.  No guard depends on the      *)
(* counters of the stats hash, which are left out, nor on the capability   *)
(* registry and the process-local stats cache, which are in QueueStats.    *)
(***************************************************************************)
EXTENDS CircuitBreaker, TLC

CONSTANTS
    Tasks, Clients,
    Priorities,     \* priority ranks the callers use (1..5)
    Delays,         \* execute_after_ms - now_ms, as the callers choose it
    DefaultDepth,   \* default_max_queue_depth (1000)
    DefaultMC,      \* default_max_concurrent (8), also the baseline
    TTL,            \* ttl of the pending and config keys (3600)
    ScanLimit,      \* dequeue_scan_limit (50)
    Scale,          \* 10^13, the weight of a priority rank
    MaxAge,         \* max_age_seconds of cleanup_stale_running (300)
    MaxEnqueues     \* bound: enqueues of a task not yet delivered

ASSUME QueueAssumption ==
    /\ IsFiniteSet(Tasks)
    /\ Priorities \subseteq Nat
    /\ Delays \subseteq Nat
    /\ DefaultDepth \in Nat \ {0}
    /\ DefaultMC \in Nat \ {0}
    /\ TTL \in Nat \ {0}
    /\ ScanLimit \in Nat \ {0}
    /\ Scale \in Nat \ {0}
    /\ MaxAge \in Nat
    /\ MaxEnqueues \in Nat

VARIABLES
    pending, pendingExp, running, limit, limitExp, op, held,
    owed,       \* history: accepted enqueues of a task minus its deliveries
    lastEnqueue \* history: the time of the last accepted enqueue

queueVars == <<pending, pendingExp, running, limit, limitExp>>
clientVars == <<op, held>>
history == <<owed, lastEnqueue>>
vars == <<now, cbVars, queueVars, clientVars, history>>

Idle == [pc |-> "idle", tasks |-> {}, num |-> 0]

PCs == {"idle", "enqueue", "dequeue", "success", "failure", "cleanup"}

TypeOK ==
    /\ CBTypeOK
    /\ IsZSet(pending, Tasks)
    /\ pendingExp \in Nat
    /\ IsZSet(running, Tasks)
    /\ limit \in Nat
    /\ limitExp \in Nat
    /\ op \in [Clients -> [pc : PCs, tasks : SUBSET Tasks, num : Nat]]
    /\ held \in [Clients -> SUBSET Tasks]
    /\ owed \in [Tasks -> Nat]
    /\ lastEnqueue \in Nat

Init ==
    /\ CBInit
    /\ pending = EmptyZSet
    /\ pendingExp = NoExpiry
    /\ running = EmptyZSet
    /\ limit = 0
    /\ limitExp = NoExpiry
    /\ op = [c \in Clients |-> Idle]
    /\ held = [c \in Clients |-> {}]
    /\ owed = [t \in Tasks |-> 0]
    /\ lastEnqueue = 0

Call(c, pc, tasks, num) ==
    op' = [op EXCEPT ![c] = [pc |-> pc, tasks |-> tasks, num |-> num]]
Return(c) == op' = [op EXCEPT ![c] = Idle]

\* max_concurrent as the scripts read it.
MaxConcurrent == IF limit = 0 THEN DefaultMC ELSE limit

\* Redis removes a sorted set, and so its expiry, with the last member.
RemovePendingForgotten(t) == UNCHANGED <<pending, pendingExp>>
RemovePending(t) ==
    /\ pending' = ZRem(pending, {t})
    /\ pendingExp' = IF DOMAIN pending = {t} THEN NoExpiry ELSE pendingExp

-----------------------------------------------------------------------------
(* enqueue: ask the breaker, read the clock, run the script.  A refusal by *)
(* the breaker raises and changes nothing else.  The clock is read at some *)
(* instant between the answer of the breaker and the script; until then    *)
(* num holds the priority and the time execute_after_ms asks for.          *)

EnqueueCheck(c, t, p, d) ==
    /\ op[c].pc = "idle"
    /\ CheckState
    /\ IF AllowRequest THEN Call(c, "enqueue", {t}, p * Scale + now + d)
                       ELSE UNCHANGED op
    /\ UNCHANGED <<now, queueVars, held, history>>

QueueFullOffByOne == ZCard(pending) > DefaultDepth
QueueFull == ZCard(pending) >= DefaultDepth

\* What the clock may have shown since the call began at time start.
ClockReads(start) == start .. now

\* score = priority * Scale + max(execute_after_ms, now_ms).
Scores(num) ==
    IF num % Scale > now THEN {num}
    ELSE {(num \div Scale) * Scale + ms : ms \in ClockReads(num % Scale)}

EnqueueFull(c) ==
    /\ op[c].pc = "enqueue"
    /\ QueueFull
    /\ Return(c)
    /\ UNCHANGED <<now, cbVars, queueVars, held, history>>

EnqueueScript(c) ==
    /\ op[c].pc = "enqueue"
    /\ ~QueueFull
    /\ \E t \in op[c].tasks, score \in Scores(op[c].num) :
          /\ owed[t] < MaxEnqueues
          /\ pending' = ZAdd(pending, t, score)
          /\ owed' = [owed EXCEPT ![t] = @ + 1]
    /\ pendingExp' = RenewExpiry(pendingExp, now, TTL)
    /\ limitExp' = IF limit = 0 THEN limitExp
                                ELSE RenewExpiry(limitExp, now, TTL)
    /\ lastEnqueue' = now
    /\ Return(c)
    /\ UNCHANGED <<now, cbVars, running, limit, held>>

-----------------------------------------------------------------------------
(* dequeue_ready: ask the breaker, read the clock, run the script, which   *)
(* takes the first ready task among the ScanLimit lowest scores.  Members  *)
(* with equal scores are ordered by Redis by name, here arbitrarily.       *)

DequeueCheck(c) ==
    /\ op[c].pc = "idle"
    /\ CheckState
    /\ IF AllowRequest THEN Call(c, "dequeue", {}, now) ELSE UNCHANGED op
    /\ UNCHANGED <<now, queueVars, held, history>>

ReadyTime(score) == score % Scale

Scanned(t) ==
    Cardinality({u \in DOMAIN pending : pending[u] < pending[t]}) < ScanLimit

ReadyCandidates(ms) ==
    {t \in DOMAIN pending : Scanned(t) /\ ReadyTime(pending[t]) <= ms}

NextReadyUnordered(ms) == ReadyCandidates(ms)
NextReady(ms) ==
    {t \in ReadyCandidates(ms) :
        \A u \in ReadyCandidates(ms) : pending[t] <= pending[u]}

AtCapacityOffByOne == ZCard(running) > MaxConcurrent
AtCapacity == ZCard(running) >= MaxConcurrent

DequeueNil(c) ==
    /\ op[c].pc = "dequeue"
    /\ AtCapacity \/ \E ms \in ClockReads(op[c].num) : NextReady(ms) = {}
    /\ Return(c)
    /\ UNCHANGED <<now, cbVars, queueVars, held, history>>

DequeueScript(c) ==
    /\ op[c].pc = "dequeue"
    /\ ~AtCapacity
    /\ \E ms \in ClockReads(op[c].num) : \E t \in NextReady(ms) :
          /\ RemovePending(t)
          /\ running' = ZAdd(running, t, ms)
          /\ held' = [held EXCEPT ![c] = @ \cup {t}]
          /\ owed' = [owed EXCEPT ![t] = @ - 1]
    /\ Return(c)
    /\ UNCHANGED <<now, cbVars, limit, limitExp, lastEnqueue>>

-----------------------------------------------------------------------------
(* cancel, complete, fail, release_running_slot.                           *)

Cancel(t) ==
    /\ \/ /\ t \in DOMAIN pending
          /\ RemovePending(t)
          /\ UNCHANGED running
       \/ /\ t \notin DOMAIN pending
          /\ running' = ZRem(running, {t})
          /\ UNCHANGED <<pending, pendingExp>>
    /\ UNCHANGED <<now, cbVars, limit, limitExp, clientVars, history>>

\* _LUA_COMPLETE does not ask whether the task still is in running.
Finish(c, t, pc) ==
    /\ op[c].pc = "idle"
    /\ t \in held[c]
    /\ running' = ZRem(running, {t})
    /\ held' = [held EXCEPT ![c] = @ \ {t}]
    /\ Call(c, pc, {}, 0)
    /\ UNCHANGED <<now, cbVars, pending, pendingExp, limit, limitExp, history>>

Complete(c, t) == Finish(c, t, "success")
Fail(c, t) == Finish(c, t, "failure")

CompleteRecord(c) ==
    /\ op[c].pc = "success"
    /\ RecordSuccess
    /\ Return(c)
    /\ UNCHANGED <<now, queueVars, held, history>>

FailRecord(c) ==
    /\ op[c].pc = "failure"
    /\ RecordFailure
    /\ Return(c)
    /\ UNCHANGED <<now, queueVars, held, history>>

ReleaseRunningSlot(c, t) ==
    /\ op[c].pc = "idle"
    /\ t \in held[c]
    /\ running' = ZRem(running, {t})
    /\ held' = [held EXCEPT ![c] = @ \ {t}]
    /\ UNCHANGED <<now, cbVars, pending, pendingExp, limit,
                   limitExp, op, history>>

-----------------------------------------------------------------------------
(* Back-pressure: a failing step lowers max_concurrent by one (never below *)
(* one), a successful one raises it by one towards the baseline.           *)

LoweredLimit == IF MaxConcurrent > 1 THEN MaxConcurrent - 1 ELSE 1
RaisedLimitPastBaseline == MaxConcurrent + 1
RaisedLimit == IF MaxConcurrent < DefaultMC THEN MaxConcurrent + 1 ELSE limit

AdjustConcurrent ==
    /\ limit' = LoweredLimit
    /\ UNCHANGED <<now, cbVars, pending, pendingExp, running,
                   limitExp, clientVars, history>>

TryRecoverConcurrent ==
    /\ limit' = RaisedLimit
    /\ UNCHANGED <<now, cbVars, pending, pendingExp, running,
                   limitExp, clientVars, history>>

-----------------------------------------------------------------------------
(* cleanup_stale_running: read the members older than the cutoff, then     *)
(* remove them in a pipeline.                                              *)

CleanupScan(c) ==
    /\ op[c].pc = "idle"
    /\ now >= MaxAge
    /\ ZUpTo(running, now - MaxAge) # {}
    /\ Call(c, "cleanup", ZUpTo(running, now - MaxAge), 0)
    /\ UNCHANGED <<now, cbVars, queueVars, held, history>>

CleanupRemove(c) ==
    /\ op[c].pc = "cleanup"
    /\ running' = ZRem(running, op[c].tasks)
    /\ Return(c)
    /\ UNCHANGED <<now, cbVars, pending, pendingExp, limit,
                   limitExp, held, history>>

\* A client process dies: its calls and the tasks in its memory are gone.
Crash(c) ==
    /\ op' = [op EXCEPT ![c] = Idle]
    /\ held' = [held EXCEPT ![c] = {}]
    /\ UNCHANGED <<now, cbVars, queueVars, history>>

\* Time passes and Redis drops the keys whose time to live has run out.
Tick ==
    /\ CBTick
    /\ pending' = IF Expired(pendingExp, now + 1) THEN EmptyZSet ELSE pending
    /\ pendingExp' = IF Expired(pendingExp, now + 1) THEN NoExpiry ELSE pendingExp
    /\ limit' = IF Expired(limitExp, now + 1) THEN 0 ELSE limit
    /\ limitExp' = IF Expired(limitExp, now + 1) THEN NoExpiry ELSE limitExp
    /\ UNCHANGED <<running, clientVars, owed, lastEnqueue>>

ClientStep(c) ==
    \/ \E t \in Tasks, p \in Priorities, d \in Delays : EnqueueCheck(c, t, p, d)
    \/ EnqueueFull(c)
    \/ EnqueueScript(c)
    \/ DequeueCheck(c)
    \/ DequeueNil(c)
    \/ DequeueScript(c)
    \/ \E t \in Tasks : Complete(c, t)
    \/ CompleteRecord(c)
    \/ \E t \in Tasks : Fail(c, t)
    \/ FailRecord(c)
    \/ \E t \in Tasks : ReleaseRunningSlot(c, t)
    \/ CleanupScan(c)
    \/ CleanupRemove(c)
    \/ Crash(c)

Next ==
    \/ \E c \in Clients : ClientStep(c)
    \/ \E t \in Tasks : Cancel(t)
    \/ AdjustConcurrent
    \/ TryRecoverConcurrent
    \/ Tick

Spec == Init /\ [][Next]_vars

-----------------------------------------------------------------------------
(* Properties.                                                             *)

\* enqueue never lets the pending set grow past max_queue_depth, although
\* the breaker is asked and the score computed before the script runs.
WithinDepth == ZCard(pending) <= DefaultDepth

\* However steps fail (max_concurrent down), succeed (up again), however the
\* config key expires, and whatever cancel, cleanup and late completions
\* remove, the running set never exceeds the baseline concurrency.
RunningWithinBaseline == ZCard(running) <= DefaultMC

\* adjust_concurrent and try_recover_concurrent stay between one and the
\* baseline, so back-pressure can neither stop the queue nor overshoot.
LimitInRange == MaxConcurrent \in 1 .. DefaultMC

\* dequeue_ready hands a task out at most once for each time it was accepted
\* by enqueue: racing consumers, requeues of a running task, cancels, stale
\* cleanups and crashes never make a pending entry count twice.
DeliveredOncePerEnqueue == \A t \in DOMAIN pending : owed[t] > 0

\* The conditional TTL refresh of enqueue keeps the whole pending set for at
\* least half of the TTL after the last accepted enqueue.
PendingKeptHalfTTL ==
    DOMAIN pending # {} => /\ pendingExp # NoExpiry
                           /\ now < pendingExp
                           /\ 2 * (pendingExp - lastEnqueue) >= TTL

\* Client c's dequeue script hands out task t in this step.
Delivers(c, t) ==
    /\ op[c].pc = "dequeue"
    /\ op'[c] = Idle
    /\ t \in DOMAIN pending \ DOMAIN pending'

\* The task handed out was ready, and among all pending tasks that were ready
\* at that time none has a better priority rank, or the same rank and an
\* earlier ready time; the scan limit may hide ready tasks but never reorders
\* the ones it returns.
ReadyAndFirst ==
    [][\A c \in Clients : \A t \in DOMAIN pending :
          Delivers(c, t) =>
             /\ ReadyTime(pending[t]) <= now
             /\ \A u \in DOMAIN pending :
                   ReadyTime(pending[u]) <= op[c].num =>
                      \/ pending[t] \div Scale < pending[u] \div Scale
                      \/ /\ pending[t] \div Scale = pending[u] \div Scale
                         /\ ReadyTime(pending[t]) <= ReadyTime(pending[u])]_vars

-----------------------------------------------------------------------------
\* For TLC: tasks, and clients, are interchangeable.
Symmetry == Permutations(Tasks) \cup Permutations(Clients)

=============================================================================
