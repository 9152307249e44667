---------------------------- MODULE StepExecutors ---------------------------
(***************************************************************************)
(* platform/step_executors.py: how one step is carried out.  The sync      *)
(* executor retries a dispatch and reports each outcome to the queue       *)
(* manager; the async executor submits and then waits for a result key,    *)
(* woken by a notification or by its own polling; the map executor runs    *)
(* one dispatch per shard.  Time is counted down.                          *)
(***************************************************************************)
EXTENDS Naturals, FiniteSets

CONSTANTS Executors,        \* the executors to consider: "sync", "async", "map"
          MaxRetries,       \* SyncStepExecutor.max_retries
          Shards,           \* the shards of a map step
          MaxParallelism,   \* its semaphore
          Timeout, Poll     \* AsyncStepExecutor: timeout and poll interval

VARIABLES kind,
          pc,               \* where execute is; "returned" and "raised" end it
          attempt,          \* sync: attempts made
          succeeded,        \* sync: dispatches that returned
          result, late,     \* async: the result key is set; set since the
                            \* last look at it
          inbox,            \* async: notifications in the subscription
          worker,           \* async: "off", "busy", "stored", "over"
          deadline, wait,   \* async: time left: of the step, of this wait
          shard             \* map: shard[s] is "new", "busy", "ok" or "bad"

vars == <<kind, pc, attempt, succeeded, result, late, inbox, worker, deadline,
          wait, shard>>

async == <<result, late, inbox, worker, deadline, wait>>
sync == <<attempt, succeeded>>
Ended == pc \in {"returned", "raised"}

Init ==
    /\ kind \in Executors
    /\ pc = "start" /\ attempt = 0 /\ succeeded = 0
    /\ result = FALSE /\ late = FALSE /\ inbox = 0 /\ worker = "off"
    /\ deadline = Timeout /\ wait = 0
    /\ shard = [s \in Shards |-> "new"]

-----------------------------------------------------------------------------
(* SyncStepExecutor.execute.                                               *)

\* The except branch: the concurrency limit goes down (which may raise out of
\* execute), and the loop sleeps and goes on, or gives up.
Failed(reported) ==
    pc' = IF ~reported \/ attempt' > MaxRetries THEN "raised" ELSE "start"

SyncDispatch(ok, reported) ==
    /\ kind = "sync" /\ pc = "start"
    /\ attempt' = attempt + 1
    /\ IF ok THEN succeeded' = succeeded + 1 /\ reported /\ pc' = "recover"
             ELSE succeeded' = succeeded /\ Failed(reported)
    /\ UNCHANGED <<kind, async, shard>>

\* try_recover_concurrent after a dispatch that returned: when it raises, the
\* attempt counts as failed and the step is dispatched again.
SyncRecover(ok, reported) ==
    /\ kind = "sync" /\ pc = "recover"
    /\ attempt' = attempt
    /\ IF ok THEN reported /\ pc' = "returned" ELSE Failed(reported)
    /\ UNCHANGED <<kind, succeeded, async, shard>>

-----------------------------------------------------------------------------
(* AsyncStepExecutor.execute.                                              *)

\* The dispatch submits the work; then the channel is subscribed to.
Submit(error) ==
    /\ kind = "async" /\ pc = "start"
    /\ pc' = IF error THEN "raised" ELSE "subscribe"
    /\ worker' = IF error THEN worker ELSE "busy"
    /\ UNCHANGED <<kind, sync, result, late, inbox, deadline, wait, shard>>

Subscribe ==
    /\ pc = "subscribe"
    /\ pc' = "check"
    /\ UNCHANGED <<kind, sync, async, shard>>

\* Mutant: the loop trusts the notification and does not look first.
CheckNotFirst ==
    /\ pc = "check"
    /\ pc' = IF deadline = 0 THEN "raised" ELSE "wait"
    /\ wait' = Poll
    /\ late' = FALSE
    /\ UNCHANGED <<kind, sync, result, inbox, worker, deadline, shard>>

\* The top of the loop: the deadline first, then the result key.
Check ==
    /\ pc = "check"
    /\ pc' = IF deadline = 0 THEN "raised"
             ELSE IF result THEN "returned" ELSE "wait"
    /\ wait' = Poll
    /\ late' = IF deadline = 0 THEN late ELSE FALSE
    /\ UNCHANGED <<kind, sync, result, inbox, worker, deadline, shard>>

\* A message arrives and the key is read again, or the poll interval is over.
Notified ==
    /\ pc = "wait" /\ inbox > 0
    /\ inbox' = inbox - 1
    /\ pc' = IF result THEN "returned" ELSE "check"
    /\ late' = FALSE
    /\ UNCHANGED <<kind, sync, result, worker, deadline, wait, shard>>

\* Mutant: the wait for a message has no timeout.
PolledNever ==
    /\ pc = "wait" /\ wait = 0 /\ inbox > 0
    /\ pc' = "check"
    /\ UNCHANGED <<kind, sync, async, shard>>

Polled ==
    /\ pc = "wait" /\ wait = 0
    /\ pc' = "check"
    /\ UNCHANGED <<kind, sync, async, shard>>

\* The worker stores its result, then publishes; it may die before either,
\* and a message published before the subscription is lost.
WorkerStores ==
    /\ worker = "busy"
    /\ worker' = "stored"
    /\ result' = TRUE
    /\ late' = TRUE
    /\ UNCHANGED <<kind, pc, sync, inbox, deadline, wait, shard>>

WorkerPublishes ==
    /\ worker = "stored"
    /\ worker' = "over"
    /\ inbox' = IF pc \in {"check", "wait"} THEN inbox + 1 ELSE inbox
    /\ UNCHANGED <<kind, pc, sync, result, late, deadline, wait, shard>>

WorkerDies ==
    /\ worker \in {"busy", "stored"}
    /\ worker' = "over"
    /\ UNCHANGED <<kind, pc, sync, result, late, inbox, deadline, wait, shard>>

Tick ==
    /\ pc = "wait" /\ wait > 0
    /\ wait' = wait - 1
    /\ deadline' = IF deadline > 0 THEN deadline - 1 ELSE 0
    /\ UNCHANGED <<kind, pc, sync, result, late, inbox, worker, shard>>

-----------------------------------------------------------------------------
(* MapStepExecutor.execute.                                                *)

ShardStarts(s) ==
    /\ kind = "map" /\ pc = "start" /\ shard[s] = "new"
    /\ Cardinality({t \in Shards : shard[t] = "busy"}) < MaxParallelism
    /\ shard' = [shard EXCEPT ![s] = "busy"]
    /\ UNCHANGED <<kind, pc, sync, async>>

ShardEnds(s, outcome) ==
    /\ kind = "map" /\ shard[s] = "busy"
    /\ shard' = [shard EXCEPT ![s] = outcome]
    /\ UNCHANGED <<kind, pc, sync, async>>

\* Mutant: gather without return_exceptions leaves at the first exception.
GatheredEarly ==
    /\ kind = "map" /\ pc = "start"
    /\ \/ \A s \in Shards : shard[s] \in {"ok", "bad"}
       \/ \E s \in Shards : shard[s] = "bad"
    /\ pc' = IF \E s \in Shards : shard[s] = "bad" THEN "raised" ELSE "returned"
    /\ UNCHANGED <<kind, sync, async, shard>>

\* gather; no shards give an empty list.
Gathered ==
    /\ kind = "map" /\ pc = "start"
    /\ \A s \in Shards : shard[s] \in {"ok", "bad"}
    /\ pc' = IF \E s \in Shards : shard[s] = "bad" THEN "raised" ELSE "returned"
    /\ UNCHANGED <<kind, sync, async, shard>>

Loop == Subscribe \/ Check \/ Notified \/ Polled \/ Tick

Next ==
    \/ \E ok, reported \in BOOLEAN : SyncDispatch(ok, reported)
                                     \/ SyncRecover(ok, reported)
    \/ \E error \in BOOLEAN : Submit(error)
    \/ Loop
    \/ WorkerStores \/ WorkerPublishes \/ WorkerDies
    \/ \E s \in Shards : ShardStarts(s)
    \/ \E s \in Shards, outcome \in {"ok", "bad"} : ShardEnds(s, outcome)
    \/ Gathered

-----------------------------------------------------------------------------
(* Properties.                                                             *)

TypeOK ==
    /\ pc \in {"start", "recover", "subscribe", "check", "wait", "returned",
               "raised"}
    /\ attempt \in 0..(MaxRetries + 1) /\ succeeded \in 0..attempt
    /\ inbox \in 0..1 /\ deadline \in 0..Timeout /\ wait \in 0..Poll

\* A submitted step always ends, with the notification lost, early or never
\* sent: the polling loop needs no message.
AsyncEnds == pc = "subscribe" ~> Ended

\* The async executor times out only when the result came after its last look
\* at the key, or never: no lost notification costs a result.
NoResultMissed == kind = "async" /\ pc = "raised" /\ result => late

\* When execute ends, no dispatch of a shard is still running, and a list is
\* returned only when every shard has a result.
MapGathersAll ==
    kind = "map" /\ Ended =>
        /\ \A s \in Shards : shard[s] \in {"ok", "bad"}
        /\ pc = "returned" => \A s \in Shards : shard[s] = "ok"

=============================================================================
