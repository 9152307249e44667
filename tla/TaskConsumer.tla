---- MODULE TaskConsumer ----
\* The worker's poll loop (src/platform/task_consumer.py): bursts on the
\* capabilities that had work, a round over the others, one permit per task, and
\* stop. A coroutine made with create_task starts at a later turn of the event
\* loop; until then a cancellation ends it before its try block, finally included.
EXTENDS Integers, FiniteSets

CONSTANTS
    Caps,           \* capabilities; the loop's own order is open
    Jobs, CapOf,    \* tasks to arrive and the capability of each
    MaxConcurrent,
    Burst,          \* _burst_per_active
    MaxEmpty,       \* empty rounds before a capability leaves the active set
    MaxBackoff,     \* _max_backoff
    MaxErrors,      \* failing dequeues in one behaviour
    None

VARIABLES
    job,       \* per task: where it is
    running,   \* _running
    sem,       \* semaphore value
    active,    \* _active_caps: empty rounds, -1 when absent
    pc,        \* where the loop is
    todo,      \* capabilities left in this phase
    cap, burst,\* capability being tried, attempts left of its burst
    got,       \* got_task
    backoff,   \* _backoff_multiplier
    leaked,    \* history: permits of coroutines cancelled before they began
    errors

vars == <<job, running, sem, active, pc, todo, cap, burst, got, backoff, leaked, errors>>
round == <<todo, cap, burst, got, backoff>>

Init ==
    /\ job = [j \in Jobs |-> "none"]
    /\ running = TRUE
    /\ sem = MaxConcurrent
    /\ active = [c \in Caps |-> -1]
    /\ pc = "bursts" /\ todo = {} /\ cap = None /\ burst = 0 /\ got = FALSE
    /\ backoff = 1
    /\ leaked = 0 /\ errors = 0

Active == {c \in Caps : active[c] >= 0}

Arrive(j) ==
    /\ job[j] = "none"
    /\ job' = [job EXCEPT ![j] = "queued"]
    /\ UNCHANGED <<running, sem, active, pc, round, leaked, errors>>

----
\* _poll_loop: phase 1 takes the next active capability, phase 2 the next of the
\* others (membership is tested when its turn comes), then the loop sleeps
NextBurst ==
    /\ pc = "bursts" /\ todo # {}
    /\ \E c \in todo : cap' = c /\ todo' = todo \ {c}
    /\ burst' = Burst
    /\ pc' = "try"
    /\ UNCHANGED <<job, running, sem, active, got, backoff, leaked, errors>>
ToRoundActive ==
    /\ pc = "bursts" /\ todo = {}
    /\ pc' = "round" /\ todo' = Active /\ cap' = None
    /\ UNCHANGED <<job, running, sem, active, burst, got, backoff, leaked, errors>>
ToRound ==
    /\ pc = "bursts" /\ todo = {}
    /\ pc' = "round" /\ todo' = Caps /\ cap' = None
    /\ UNCHANGED <<job, running, sem, active, burst, got, backoff, leaked, errors>>
NextOther ==
    /\ pc = "round" /\ todo # {}
    /\ \E c \in todo :
          /\ todo' = todo \ {c}
          /\ IF c \in Active THEN UNCHANGED <<pc, cap>> ELSE pc' = "try" /\ cap' = c
    /\ burst' = 0
    /\ UNCHANGED <<job, running, sem, active, got, backoff, leaked, errors>>
BackoffUncapped == IF got THEN 1 ELSE backoff * 2
Backoff == IF got THEN 1 ELSE IF backoff * 2 > MaxBackoff THEN MaxBackoff ELSE backoff * 2
Sleep ==
    /\ pc = "round" /\ todo = {}
    /\ pc' = "sleep" /\ cap' = None
    /\ backoff' = Backoff
    /\ UNCHANGED <<job, running, sem, active, todo, burst, got, leaked, errors>>
Wake ==
    /\ pc = "sleep"
    /\ pc' = IF running THEN "bursts" ELSE "ended"
    /\ todo' = IF running THEN Active ELSE {}
    /\ got' = FALSE
    /\ UNCHANGED <<job, running, sem, active, cap, burst, backoff, leaked, errors>>

----
\* What the loop does with _try_dequeue's answer, in a burst and in the round
InBurst == burst > 0
Dropped(c) == active[c] + 1 >= MaxEmpty
Answer(ok) ==
    /\ got' = (got \/ ok)
    /\ active' = [active EXCEPT ![cap] =
          IF ok THEN 0 ELSE IF ~InBurst THEN @ ELSE IF Dropped(cap) THEN -1 ELSE @ + 1]
    /\ burst' = IF ok /\ InBurst THEN burst - 1 ELSE 0
    /\ pc' = IF ~InBurst THEN "round" ELSE IF ok /\ burst > 1 THEN "try" ELSE "bursts"
    /\ UNCHANGED <<job, running, todo, cap, backoff, leaked>>

\* _try_dequeue: no permit, no pop
Refused ==
    /\ pc = "try" /\ sem <= 0
    /\ Answer(FALSE)
    /\ UNCHANGED <<sem, errors>>
Acquire ==
    /\ pc = "try" /\ sem > 0
    /\ sem' = sem - 1
    /\ pc' = "dequeue"
    /\ UNCHANGED <<job, running, active, round, leaked, errors>>

Ready == {j \in Jobs : job[j] = "queued" /\ CapOf[j] = cap}
DequeueTask ==
    /\ pc = "dequeue"
    /\ \E j \in Ready :
          /\ job' = [job EXCEPT ![j] = "created"]
          /\ got' = TRUE
          /\ active' = [active EXCEPT ![cap] = 0]
          /\ burst' = IF InBurst THEN burst - 1 ELSE 0
          /\ pc' = IF ~InBurst THEN "round" ELSE IF burst > 1 THEN "try" ELSE "bursts"
    /\ UNCHANGED <<running, sem, todo, cap, backoff, leaked, errors>>
DequeueNone ==
    /\ pc = "dequeue" /\ Ready = {}
    /\ sem' = sem + 1
    /\ Answer(FALSE)
    /\ UNCHANGED errors
DequeueErrorKeeps ==
    /\ pc = "dequeue" /\ errors < MaxErrors
    /\ errors' = errors + 1
    /\ Answer(FALSE)
    /\ UNCHANGED sem
DequeueError ==
    /\ pc = "dequeue" /\ errors < MaxErrors
    /\ errors' = errors + 1
    /\ sem' = sem + 1
    /\ Answer(FALSE)

----
\* _execute_task
Begin(j) ==
    /\ job[j] = "created"
    /\ job' = [job EXCEPT ![j] = "running"]
    /\ UNCHANGED <<running, sem, active, pc, round, leaked, errors>>
Finish(j) ==
    /\ job[j] = "running"
    /\ job' = [job EXCEPT ![j] = "done"]
    /\ sem' = sem + 1
    /\ UNCHANGED <<running, active, pc, round, leaked, errors>>

\* stop: every coroutine it knows is cancelled and awaited; the loop itself goes on
\* to the end of its round
InState(s) == {j \in Jobs : job[j] = s}
Stop ==
    /\ running
    /\ running' = FALSE
    /\ job' = [j \in Jobs |-> IF job[j] \in {"created", "running"} THEN "cancelled" ELSE job[j]]
    /\ sem' = sem + Cardinality(InState("running"))
    /\ leaked' = Cardinality(InState("created"))
    /\ UNCHANGED <<active, pc, round, errors>>

LoopStep == NextBurst \/ ToRound \/ NextOther \/ Sleep \/ Wake \/ Refused \/ Acquire
            \/ DequeueTask \/ DequeueNone
JobStep == \E j \in Jobs : Begin(j) \/ Finish(j)
Next == LoopStep \/ JobStep \/ DequeueError \/ Stop \/ \E j \in Jobs : Arrive(j)

Spec == Init /\ [][Next]_vars

----
TypeOK ==
    /\ job \in [Jobs -> {"none", "queued", "created", "running", "done", "cancelled"}]
    /\ sem \in 0..MaxConcurrent /\ backoff \in 1..MaxBackoff
    /\ active \in [Caps -> -1..MaxEmpty - 1]
    /\ todo \subseteq Caps /\ burst \in 0..Burst

\* Every permit is free, held by the dequeue in progress, or held by a task that was
\* popped and has not ended; only a stop that meets a coroutine before its first turn
\* loses one. So at most MaxConcurrent tasks are ever popped and unfinished.
PermitsConserved ==
    sem + (IF pc = "dequeue" THEN 1 ELSE 0) + Cardinality(InState("created"))
        + Cardinality(InState("running")) + leaked = MaxConcurrent

\* A task that reaches the queue is executed to its end, whatever capability it is
\* for and however busy the others are, unless the consumer is stopped: bursts,
\* the round, exhausted permits and failing dequeues leave no capability behind.
QueuedIsExecuted(j) == job[j] = "queued" ~> (job[j] = "done" \/ ~running)
====
