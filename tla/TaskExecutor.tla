---------------------------- MODULE TaskExecutor ----------------------------
(***************************************************************************)
(* src/platform/task_executor.py: executions of one task under its         *)
(* distributed lock, by processes that may stall, be stopped or die.       *)
(*                                                                         *)
(*   owner, left  task_lock:<task>: the execution whose lock_val is the    *)
(*                value, and the time to live of the key (0: no key)       *)
(*   cancelKey    whether task_cancel:<task> exists                        *)
(*   stage        where each call of execute stands                        *)
(*   renew        its renewal loop: "on" asleep or waiting for Redis,      *)
(*                "lost" returned, "broken" ended by an exception, "off"   *)
(*   age          time since the key was last given its full TTL by it     *)
(*   result       the status it will report                                *)
(*   called       whether its callback has been invoked                    *)
(*                                                                         *)
(* The clock is kept as remaining and elapsed times, so that no bound on   *)
(* the length of a behaviour is needed.                                    *)
(***************************************************************************)
EXTENDS Integers, FiniteSets

CONSTANTS
    Runs,           \* calls of execute for the task, each with its own lock_val
    NoRun,          \* no execution owns the lock
    LockTTL,        \* lock_ttl_ms
    RenewInterval,  \* _LOCK_RENEWAL_INTERVAL
    MaxDelay,       \* how late a renewal can reach Redis
    RedisErrors,    \* whether calls to Redis can raise
    Stops           \* whether TaskConsumer.stop cancels executions

ASSUME ExecutorAssumption ==
    /\ NoRun \notin Runs
    /\ LockTTL \in Nat \ {0}
    /\ RenewInterval \in Nat \ {0}
    /\ MaxDelay \in Nat
    /\ RedisErrors \in BOOLEAN
    /\ Stops \in BOOLEAN

VARIABLES owner, left, cancelKey, stage, renew, age, result, called

lock == <<owner, left>>
loop == <<renew, age>>
vars == <<lock, cancelKey, stage, loop, result, called>>

Stages == {"new", "checking", "dag", "closing", "releasing", "calling",
           "done", "refused", "raised", "dead"}
Results == {"unknown", "completed", "failed", "cancelled"}

TypeOK ==
    /\ owner \in Runs \cup {NoRun}
    /\ left \in 0 .. LockTTL
    /\ owner # NoRun => left > 0
    /\ cancelKey \in BOOLEAN
    /\ stage \in [Runs -> Stages]
    /\ renew \in [Runs -> {"off", "on", "lost", "broken"}]
    /\ age \in [Runs -> 0 .. RenewInterval + MaxDelay]
    /\ result \in [Runs -> Results]
    /\ called \in [Runs -> BOOLEAN]

Init ==
    /\ owner = NoRun
    /\ left = 0
    /\ cancelKey = FALSE
    /\ stage = [r \in Runs |-> "new"]
    /\ renew = [r \in Runs |-> "off"]
    /\ age = [r \in Runs |-> 0]
    /\ result = [r \in Runs |-> "unknown"]
    /\ called = [r \in Runs |-> FALSE]

-----------------------------------------------------------------------------
\* A client of the platform asks for the cancellation of the task.
RequestCancel ==
    /\ ~cancelKey
    /\ cancelKey' = TRUE
    /\ UNCHANGED <<lock, stage, loop, result, called>>

(* SET NX PX.                                                              *)

TakeLockInSeconds(r) == owner = NoRun /\ owner' = r /\ left' = 1000 * LockTTL
TakeLock(r) == owner = NoRun /\ owner' = r /\ left' = LockTTL

Acquire(r) ==
    /\ stage[r] = "new"
    /\ TakeLock(r)
    /\ stage' = [stage EXCEPT ![r] = "checking"]
    /\ renew' = [renew EXCEPT ![r] = "on"]
    /\ age' = [age EXCEPT ![r] = 0]
    /\ UNCHANGED <<cancelKey, result, called>>

Refuse(r) ==
    /\ stage[r] = "new"
    /\ owner # NoRun
    /\ stage' = [stage EXCEPT ![r] = "refused"]
    /\ UNCHANGED <<lock, cancelKey, loop, result, called>>

\* The call raises, before or after the key has been set.
AcquireError(r) ==
    /\ RedisErrors
    /\ stage[r] = "new"
    /\ TakeLock(r) \/ UNCHANGED lock
    /\ stage' = [stage EXCEPT ![r] = "raised"]
    /\ UNCHANGED <<cancelKey, loop, result, called>>

-----------------------------------------------------------------------------
(* The body of the try statement.                                          *)

\* Into the finally clause: renewal_task.cancel().
CloseKeepsRenewing(r, res) ==
    /\ stage' = [stage EXCEPT ![r] = "closing"]
    /\ result' = [result EXCEPT ![r] = res]
    /\ UNCHANGED <<lock, cancelKey, loop, called>>
Close(r, res) ==
    /\ stage' = [stage EXCEPT ![r] = "closing"]
    /\ result' = [result EXCEPT ![r] = res]
    /\ renew' = [renew EXCEPT ![r] = IF @ = "on" THEN "off" ELSE @]
    /\ age' = [age EXCEPT ![r] = 0]
    /\ UNCHANGED <<lock, cancelKey, called>>

StartDag(r) ==
    /\ stage[r] = "checking"
    /\ ~cancelKey
    /\ stage' = [stage EXCEPT ![r] = "dag"]
    /\ UNCHANGED <<lock, cancelKey, loop, result, called>>

SeeCancel(r) == stage[r] = "checking" /\ cancelKey /\ Close(r, "cancelled")

CheckError(r) == RedisErrors /\ stage[r] = "checking" /\ Close(r, "failed")

DagReturns(r) == stage[r] = "dag" /\ Close(r, "completed")

DagRaises(r) == stage[r] = "dag" /\ Close(r, "failed")

\* task.cancel() while the body waits; the exception is raised again later.
Cancel(r) == Stops /\ stage[r] \in {"checking", "dag"} /\ Close(r, "cancelled")

-----------------------------------------------------------------------------
(* The rest of the finally clause.                                         *)

\* await renewal_task: only CancelledError is caught.
AwaitRenewal(r) ==
    /\ stage[r] = "closing"
    /\ renew[r] # "on"
    /\ stage' = [stage EXCEPT ![r] =
                    IF renew[r] = "broken" THEN "raised" ELSE "releasing"]
    /\ UNCHANGED <<lock, cancelKey, loop, result, called>>

\* _LUA_LOCK_RELEASE.
DeleteAnyLock(r) == owner' = NoRun /\ left' = 0
DeleteOwnLock(r) ==
    /\ owner' = IF owner = r THEN NoRun ELSE owner
    /\ left' = IF owner = r THEN 0 ELSE left

Release(r) ==
    /\ stage[r] = "releasing"
    /\ DeleteOwnLock(r)
    /\ stage' = [stage EXCEPT ![r] = "calling"]
    /\ UNCHANGED <<cancelKey, loop, result, called>>

\* _release_lock swallows the exception of a script that did not run.
ReleaseError(r) ==
    /\ RedisErrors
    /\ stage[r] = "releasing"
    /\ stage' = [stage EXCEPT ![r] = "calling"]
    /\ UNCHANGED <<lock, cancelKey, loop, result, called>>

\* The callback's own exceptions are swallowed.
Callback(r) ==
    /\ stage[r] = "calling"
    /\ stage' = [stage EXCEPT ![r] = "done"]
    /\ called' = [called EXCEPT ![r] = TRUE]
    /\ UNCHANGED <<lock, cancelKey, loop, result>>

\* task.cancel() while the finally clause waits for Redis or the callback:
\* the script may or may not have run, and the rest is skipped.
CancelFinally(r) ==
    /\ Stops
    /\ \/ stage[r] = "releasing" /\ (DeleteOwnLock(r) \/ UNCHANGED lock)
       \/ stage[r] = "calling" /\ UNCHANGED lock
    /\ stage' = [stage EXCEPT ![r] = "raised"]
    /\ UNCHANGED <<cancelKey, loop, result, called>>

-----------------------------------------------------------------------------
(* _renew_lock_loop and its script.                                        *)

RenewDue(r) == renew[r] = "on" /\ age[r] >= RenewInterval

RenewLockOnlyChecks(r) ==
    /\ RenewDue(r)
    /\ owner = r
    /\ age' = [age EXCEPT ![r] = 0]
    /\ UNCHANGED <<lock, cancelKey, stage, renew, result, called>>
RenewLock(r) ==
    /\ RenewDue(r)
    /\ owner = r
    /\ left' = LockTTL
    /\ age' = [age EXCEPT ![r] = 0]
    /\ UNCHANGED <<owner, cancelKey, stage, renew, result, called>>

RenewLost(r) ==
    /\ RenewDue(r)
    /\ owner # r
    /\ renew' = [renew EXCEPT ![r] = "lost"]
    /\ age' = [age EXCEPT ![r] = 0]
    /\ UNCHANGED <<lock, cancelKey, stage, result, called>>

RenewError(r) ==
    /\ RedisErrors
    /\ RenewDue(r)
    /\ renew' = [renew EXCEPT ![r] = "broken"]
    /\ age' = [age EXCEPT ![r] = 0]
    /\ UNCHANGED <<lock, cancelKey, stage, result, called>>

-----------------------------------------------------------------------------
Ended == {"done", "refused", "raised", "dead"}

\* The process dies.
Crash(r) ==
    /\ stage[r] \notin Ended
    /\ stage' = [stage EXCEPT ![r] = "dead"]
    /\ renew' = [renew EXCEPT ![r] = "off"]
    /\ age' = [age EXCEPT ![r] = 0]
    /\ UNCHANGED <<lock, cancelKey, result, called>>

\* Time passes, but a renewal is never later than MaxDelay; the key expires.
Tick ==
    /\ \A r \in Runs : renew[r] = "on" => age[r] < RenewInterval + MaxDelay
    /\ \/ owner # NoRun
       \/ \E r \in Runs : renew[r] = "on"
    /\ left' = IF left > 0 THEN left - 1 ELSE 0
    /\ owner' = IF left > 1 THEN owner ELSE NoRun
    /\ age' = [r \in Runs |-> IF renew[r] = "on" THEN age[r] + 1 ELSE age[r]]
    /\ UNCHANGED <<cancelKey, stage, renew, result, called>>

Step(r) ==
    \/ Acquire(r) \/ Refuse(r) \/ AcquireError(r)
    \/ StartDag(r) \/ SeeCancel(r) \/ CheckError(r)
    \/ DagReturns(r) \/ DagRaises(r) \/ Cancel(r)
    \/ AwaitRenewal(r) \/ Release(r) \/ ReleaseError(r)
    \/ Callback(r) \/ CancelFinally(r)
    \/ RenewLock(r) \/ RenewLost(r) \/ RenewError(r)
    \/ Crash(r)

Next == RequestCancel \/ Tick \/ \E r \in Runs : Step(r)

Spec == Init /\ [][Next]_vars

-----------------------------------------------------------------------------
(* Properties.                                                             *)

Executing(r) == stage[r] \in {"checking", "dag"}

\* An execution whose last renewal is younger than the TTL.
Fresh(r) == Executing(r) /\ renew[r] = "on" /\ age[r] < LockTTL

\* Until its last renewal is as old as the TTL an execution owns the lock, so
\* that no two such executions of the task overlap, whichever of them stall,
\* die, finish slowly or lose answers of Redis; and the key lives exactly as
\* long as the renewal loop believes.
FreshOwnsLock ==
    \A r \in Runs : Fresh(r) => owner = r /\ left = LockTTL - age[r]

\* Renewals that reach Redis before the key expires.
TimelyRenewal == RenewInterval + MaxDelay < LockTTL /\ ~RedisErrors

\* No two executions of the task overlap.
OneRunner == \A r, q \in Runs : Executing(r) /\ Executing(q) => r = q

\* The lock of an execution goes by expiry or by its own release: a late
\* finally clause never deletes the lock of the execution that came next.
LockLostStep ==
    \A r \in Runs : owner = r /\ owner' # r =>
        left = 1 \/ stage[r] = "releasing"
OnlyOwnRelease == [][LockLostStep]_vars

\* An execution that has left its body, however it ended, does not keep the
\* task locked: what release does not delete expires, and nothing renews it.
LockFreed(r) == (owner = r /\ ~Executing(r)) ~> (owner # r)

=============================================================================
