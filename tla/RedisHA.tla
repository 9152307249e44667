---- MODULE RedisHA ----
\* The Redis wrapper every service talks through (src/common/redis_ha.py):
\* retries, a circuit breaker shared by all callers, and a queue that keeps
\* failed writes in memory. A caller waits between two attempts, so the
\* attempts of several callers interleave around one breaker.
EXTENDS Integers, Sequences

CONSTANTS
    Calls,        \* coroutines that use the client; the write of one is to its own key
    Loop,         \* the coroutine in retry_degraded_operations
    MaxRetries,   \* max_retries
    Threshold,    \* circuit_breaker_threshold
    ResetTimeout, \* circuit_breaker_timeout in ticks
    MaxFailures   \* attempts that fail in one behaviour

VARIABLES
    state, failureCount, lastFailure,  \* the breaker; lastFailure is an age, -1 for None
    client, isConnected,
    queue,       \* _degradation_queue, as the callers whose writes it holds
    call,        \* per coroutine: what it does and which attempt it is at
    pos, failed, \* the retry loop: its position in the queue and its failed list
    stored,      \* writes Redis has applied
    acked,       \* writes whose caller was told they succeeded
    failures,    \* failed attempts so far
    late         \* history: a success was recorded while the breaker was OPEN

breaker == <<state, failureCount, lastFailure, late>>
vars == <<breaker, client, isConnected, queue, call, pos, failed, stored, acked, failures>>

Idle == [op |-> "none", item |-> Loop, attempt |-> 0]

Init ==
    /\ state = "CLOSED" /\ failureCount = 0 /\ lastFailure = -1 /\ late = FALSE
    /\ client = TRUE /\ isConnected = TRUE
    /\ queue = <<>>
    /\ call = [c \in Calls \cup {Loop} |-> Idle]
    /\ pos = 0 /\ failed = <<>>
    /\ stored = {} /\ acked = {}
    /\ failures = 0

----
\* CircuitBreaker
RecordFailure ==
    /\ failures < MaxFailures /\ failures' = failures + 1
    /\ failureCount' = IF failureCount < Threshold THEN failureCount + 1 ELSE Threshold
    /\ lastFailure' = 0
    /\ state' = IF failureCount' >= Threshold THEN "OPEN" ELSE state
    /\ UNCHANGED late

RecordSuccess ==
    /\ state' = IF state = "HALF_OPEN" THEN "CLOSED" ELSE state
    /\ failureCount' = 0
    /\ lastFailure' = -1
    /\ late' = (late \/ state = "OPEN")
    /\ UNCHANGED failures

TimedOutNever == FALSE
TimedOut == lastFailure > ResetTimeout
ShouldAllow == state # "OPEN" \/ TimedOut

----
\* _call_with_retry up to its loop: Begun(c, op, i) lets the call in, Refused
\* raises ConnectionError.
Begun(c, op, i) ==
    /\ ShouldAllow
    /\ client
    /\ state' = IF state = "OPEN" THEN "HALF_OPEN" ELSE state
    /\ call' = [call EXCEPT ![c] = [op |-> op, item |-> i, attempt |-> 1]]
    /\ UNCHANGED <<failureCount, lastFailure, late, client, isConnected, queue, stored, acked, failures>>

Refused ==
    /\ ~(ShouldAllow /\ client)
    /\ state' = IF state = "OPEN" /\ ShouldAllow THEN "HALF_OPEN" ELSE state
    /\ UNCHANGED <<failureCount, lastFailure, late, client, isConnected, queue, stored, acked, failures>>

Enter(c) ==
    /\ call[c] = Idle
    /\ \/ c \notin acked /\ Begun(c, "write", c)
       \/ Begun(c, "read", c)
       \/ Refused /\ UNCHANGED call
    /\ UNCHANGED <<pos, failed>>

\* the loop's next item: raised ones go to its failed list
LoopReturns(ok) ==
    /\ pos' = pos + 1
    /\ failed' = IF ok THEN failed ELSE Append(failed, queue[pos])

Returns(c, ok) ==
    /\ call' = [call EXCEPT ![c] = Idle]
    /\ IF c = Loop THEN LoopReturns(ok) ELSE UNCHANGED <<pos, failed>>
    /\ acked' = IF ok /\ call[c].op = "write" THEN acked \cup {call[c].item} ELSE acked

Writes(c) == call[c].op = "write"

AttemptOk(c) ==
    /\ call[c] # Idle
    /\ RecordSuccess
    /\ isConnected' = TRUE
    /\ stored' = IF Writes(c) THEN stored \cup {call[c].item} ELSE stored
    /\ Returns(c, TRUE)
    /\ UNCHANGED <<client, queue>>

\* a lost answer: Redis may have applied the write
MayApply(c) ==
    \/ UNCHANGED stored
    \/ Writes(c) /\ stored' = stored \cup {call[c].item}

AttemptFails(c) ==
    /\ call[c] # Idle
    /\ call[c].attempt < MaxRetries
    /\ RecordFailure
    /\ MayApply(c)
    /\ call' = [call EXCEPT ![c].attempt = @ + 1]
    /\ UNCHANGED <<client, isConnected, queue, pos, failed, acked>>

\* after the last attempt a write is queued and reported as done
QueueWriteNot(c) == UNCHANGED queue
QueueWrite(c) == queue' = IF Writes(c) THEN Append(queue, call[c].item) ELSE queue

LastAttemptFails(c) ==
    /\ call[c] # Idle
    /\ call[c].attempt = MaxRetries
    /\ RecordFailure
    /\ MayApply(c)
    /\ isConnected' = FALSE
    /\ QueueWrite(c)
    /\ Returns(c, Writes(c))
    /\ UNCHANGED client

----
\* retry_degraded_operations: the loop walks the list that failing writes,
\* its own included, are appended to
LoopStarts ==
    /\ pos = 0
    /\ queue # <<>>
    /\ isConnected
    /\ pos' = 1 /\ failed' = <<>>
    /\ UNCHANGED <<breaker, client, isConnected, queue, call, stored, acked, failures>>

LoopItem ==
    /\ pos \in 1..Len(queue)
    /\ call[Loop] = Idle
    /\ \/ Begun(Loop, "write", queue[pos]) /\ UNCHANGED <<pos, failed>>
       \/ Refused /\ LoopReturns(FALSE) /\ UNCHANGED call

LoopEnds ==
    /\ pos > Len(queue)
    /\ queue' = failed
    /\ pos' = 0
    /\ failed' = <<>>
    /\ UNCHANGED <<breaker, client, isConnected, call, stored, acked, failures>>

\* start: the client is kept whether or not the ping answers
StartOk ==
    /\ ~client
    /\ client' = TRUE /\ isConnected' = TRUE
    /\ RecordSuccess
    /\ UNCHANGED <<queue, call, pos, failed, stored, acked>>
StartFails ==
    /\ ~client
    /\ client' = TRUE
    /\ RecordFailure
    /\ UNCHANGED <<isConnected, queue, call, pos, failed, stored, acked>>

\* close, once in a behaviour and not under a running call
Close ==
    /\ client
    /\ failures = 1
    /\ \A c \in DOMAIN call : call[c] = Idle
    /\ client' = FALSE /\ isConnected' = FALSE
    /\ UNCHANGED <<breaker, queue, call, pos, failed, stored, acked, failures>>

Tick ==
    /\ lastFailure \in 0..ResetTimeout
    /\ lastFailure' = lastFailure + 1
    /\ UNCHANGED <<state, failureCount, late, client, isConnected, queue, call, pos, failed, stored, acked, failures>>

Attempt(c) == AttemptOk(c) \/ AttemptFails(c) \/ LastAttemptFails(c)
Next ==
    \/ \E c \in Calls : Enter(c)
    \/ \E c \in Calls \cup {Loop} : Attempt(c)
    \/ LoopStarts \/ LoopItem \/ LoopEnds
    \/ StartOk \/ StartFails \/ Close \/ Tick

Spec == Init /\ [][Next]_vars

\* What goes on by itself: callers that come back, running calls, a reconnection
\* and the clock. While the breaker is OPEN they cannot take turns for ever.
Progress == StartOk \/ Tick \/ \E c \in Calls : Enter(c) \/ Attempt(c)

TypeOK ==
    /\ state \in {"CLOSED", "OPEN", "HALF_OPEN"}
    /\ failureCount \in 0..Threshold /\ lastFailure \in -1..ResetTimeout + 1
    /\ queue \in Seq(Calls) /\ failed \in Seq(Calls)
    /\ pos \in 0..Len(queue) + 1
    /\ stored \subseteq Calls /\ acked \subseteq Calls

\* A write whose caller was told it succeeded is in Redis, in the degradation
\* queue, or in the hands of the loop that retries the queue, through every
\* failure, breaker trip and overlapping retry.
AcknowledgedNotLost ==
    \A c \in acked : \/ c \in stored
                     \/ \E i \in 1..Len(queue) : i >= pos /\ queue[i] = c
                     \/ \E i \in 1..Len(failed) : failed[i] = c

\* An open breaker lets calls through again after its timeout, as long as no
\* success of a call begun before it opened was recorded in between: that one
\* clears last_failure_time and the breaker stays OPEN (record_success).
BreakerRecovers == (state = "OPEN" /\ ~late) ~> (state # "OPEN" \/ late)
====
