---- MODULE CallbackDelivery ----
\* The callback path of TaskCompletionNode (src/platform/task_completion_node.py):
\* inline posts, the durable retry ZSET with its processors, the dead letters, and
\* the reconciler's phase 3 that feeds the same ZSET (task_reconciler.py). Every
\* task here has a callback URL. Scores are left out: which members are due when a
\* processor looks is open.
EXTENDS Integers, FiniteSets

CONSTANTS
    Tasks, Workers,
    InlineRetries,  \* _MAX_INLINE_RETRIES
    MaxDurable,     \* _MAX_DURABLE_ATTEMPTS
    BatchSize,
    MaxFaults       \* failing Redis calls and deaths of a processor in one behaviour

VARIABLES
    record,    \* status of the cached task record, which phase 3 reads
    persist,   \* per task: _persist; "ok" is a terminal row with its outbox row
    handler,   \* per task: _trigger_callback, with its inline attempt
    retry,     \* members of the retry ZSET; attempt 0 is a bare task id
    payload,   \* tasks with a companion payload key
    dlq,
    done,      \* tasks with a callback_done marker
    worker,    \* per processor: batch and the event it has popped
    recon,     \* tasks phase 3 still has to visit
    answered,  \* tasks whose receiver got a post
    acked,     \* faultVars: tasks with an acknowledged post
    sends,     \* faultVars: durable posts per task
    hurt,      \* faultVars: tasks whose popped or inline event a fault destroyed
    faults

deliveryVars == <<record, persist, handler, retry, payload, dlq, done, worker, recon,
          answered, acked, sends, hurt, faults>>
faultVars == <<hurt, faults>>
durable == <<retry, payload, dlq, worker, recon, sends>>
inline == <<record, persist, handler>>

Event(t, a) == [task |-> t, attempt |-> a]
Events == [task : Tasks, attempt : 0..MaxDurable]
NoEvent == [task |-> CHOOSE t \in Tasks : TRUE, attempt |-> 0]
Idle == [pc |-> "idle", batch |-> {}, ev |-> NoEvent]

DeliveryInit ==
    /\ record = [t \in Tasks |-> "active"]
    /\ retry = {} /\ payload = {} /\ dlq = {} /\ done = {}
    /\ persist = [t \in Tasks |-> "idle"]
    /\ handler = [t \in Tasks |-> [pc |-> "idle", n |-> 0]]
    /\ worker = [w \in Workers |-> Idle]
    /\ recon = {} /\ answered = {} /\ acked = {} /\ hurt = {}
    /\ sends = [t \in Tasks |-> 0]
    /\ faults = 0

Fault == faults < MaxFaults /\ faults' = faults + 1

----
\* handle_completion: both halves run in parallel, the exceptions of either are
\* only logged
HandleCompletion(t) ==
    /\ handler[t].pc = "idle"
    /\ handler' = [handler EXCEPT ![t] = [pc |-> "post", n |-> 1]]
    /\ persist' = [persist EXCEPT ![t] = "open"]
    /\ UNCHANGED <<record, durable, done, answered, acked, faultVars>>

\* _persist: one commit of the row and the outbox row, or an exception (of MySQL, or
\* of the state machine, which lets only a running task complete or fail)
Persist(t) ==
    /\ persist[t] = "open"
    /\ persist' \in {[persist EXCEPT ![t] = o] : o \in {"ok", "failed"}}
    /\ UNCHANGED <<record, handler, durable, done, answered, acked, faultVars>>

\* Phase 2 marks the cached record of a stuck task failed; MySQL is left alone
TimedOut(t) ==
    /\ record[t] = "active"
    /\ record' = [record EXCEPT ![t] = "terminal"]
    /\ UNCHANGED <<persist, handler, durable, done, answered, acked, faultVars>>

\* A post is acknowledged, refused, or answered without an answer
Answers == {"ack", "refused", "unanswered"}
Received(t, a) == answered' = IF a = "refused" THEN answered ELSE answered \cup {t}
Acked(t, a) == acked' = IF a = "ack" THEN acked \cup {t} ELSE acked

\* _trigger_callback: an attempt that fails, its done marker included, is followed
\* by the next one or by the durable queue
Failed(h) == IF h.n < InlineRetries THEN [pc |-> "post", n |-> h.n + 1] ELSE [h EXCEPT !.pc = "enqueue"]

Post(t) ==
    /\ handler[t].pc = "post"
    /\ \E a \in Answers :
          /\ Received(t, a) /\ Acked(t, a)
          /\ handler' = [handler EXCEPT ![t] =
                IF a = "ack" THEN [@ EXCEPT !.pc = "mark"] ELSE Failed(@)]
    /\ UNCHANGED <<record, persist, durable, done, faultVars>>

MarkDone(t) ==
    /\ handler[t].pc = "mark"
    /\ handler' = [handler EXCEPT ![t].pc = "ended"]
    /\ done' = done \cup {t}
    /\ UNCHANGED <<record, persist, durable, answered, acked, faultVars>>
MarkFails(t) ==
    /\ handler[t].pc = "mark"
    /\ Fault
    /\ handler' = [handler EXCEPT ![t] = Failed(@)]
    /\ UNCHANGED <<record, persist, durable, done, answered, acked, hurt>>

EnqueueForgotten(t) ==
    /\ handler[t].pc = "enqueue"
    /\ handler' = [handler EXCEPT ![t].pc = "ended"]
    /\ UNCHANGED <<record, persist, durable, done, answered, acked, faultVars>>
Enqueue(t) ==
    /\ handler[t].pc = "enqueue"
    /\ handler' = [handler EXCEPT ![t].pc = "ended"]
    /\ retry' = retry \cup {Event(t, 1)}
    /\ UNCHANGED <<record, persist, payload, dlq, worker, recon, sends, done, answered, acked, faultVars>>
EnqueueFails(t) ==
    /\ handler[t].pc = "enqueue"
    /\ Fault
    /\ handler' = [handler EXCEPT ![t].pc = "ended"]
    /\ hurt' = hurt \cup {t}
    /\ UNCHANGED <<record, persist, durable, done, answered, acked>>

----
\* process_due_callbacks: read a batch of due members, then pop and handle each
Fetch(w) ==
    /\ worker[w].pc = "idle"
    /\ \E b \in SUBSET retry :
          /\ b # {} /\ Cardinality(b) <= BatchSize
          /\ worker' = [worker EXCEPT ![w] = [pc |-> "pop", batch |-> b, ev |-> NoEvent]]
    /\ UNCHANGED <<inline, retry, payload, dlq, recon, sends, done, answered, acked, faultVars>>

\* The next member of the batch, or the end of it
Rest(b) == IF b = {} THEN Idle ELSE [pc |-> "pop", batch |-> b, ev |-> NoEvent]
Holding(b, e) == [pc |-> "send", batch |-> b, ev |-> e]

\* ZREM tells whether this processor is the one that removed the member
RemovedAlways(e) == TRUE
Removed(e) == e \in retry

\* A bare id is not a JSON document: it is gone from the ZSET and nothing is sent
Pop(w) ==
    /\ worker[w].pc = "pop"
    /\ \E e \in worker[w].batch :
          LET rest == worker[w].batch \ {e} IN
          /\ retry' = retry \ {e}
          /\ worker' = [worker EXCEPT ![w] =
                IF Removed(e) /\ e.attempt > 0 THEN Holding(rest, e) ELSE Rest(rest)]
    /\ UNCHANGED <<inline, payload, dlq, recon, sends, done, answered, acked, faultVars>>

ExhaustedEarly(e) == e.attempt + 1 >= MaxDurable
Exhausted(e) == e.attempt >= MaxDurable

\* _send_callback_once
Send(w) ==
    /\ worker[w].pc = "send"
    /\ LET e == worker[w].ev IN \E a \in Answers :
          /\ Received(e.task, a) /\ Acked(e.task, a)
          /\ sends' = [sends EXCEPT ![e.task] = @ + 1]
          /\ worker' = [worker EXCEPT ![w].pc =
                IF a = "ack" THEN "mark" ELSE IF Exhausted(e) THEN "dead" ELSE "requeue"]
    /\ UNCHANGED <<inline, retry, payload, dlq, recon, done, faultVars>>

Settle(w) ==
    LET e == worker[w].ev IN
    /\ worker[w].pc \in {"mark", "requeue", "dead"}
    /\ worker' = [worker EXCEPT ![w] = Rest(worker[w].batch)]
    /\ done' = IF worker[w].pc = "mark" THEN done \cup {e.task} ELSE done
    /\ retry' = IF worker[w].pc = "requeue" THEN retry \cup {Event(e.task, e.attempt + 1)} ELSE retry
    /\ dlq' = IF worker[w].pc = "dead" THEN dlq \cup {e} ELSE dlq
    /\ UNCHANGED <<inline, payload, recon, sends, answered, acked, faultVars>>

\* An exception of a Redis call, or a death, ends the pass: the batch is left in the
\* ZSET, a popped event is gone
WorkerFails(w) ==
    /\ worker[w].pc # "idle"
    /\ Fault
    /\ worker' = [worker EXCEPT ![w] = Idle]
    /\ hurt' = IF worker[w].pc = "pop" THEN hurt ELSE hurt \cup {worker[w].ev.task}
    /\ UNCHANGED <<inline, retry, payload, dlq, recon, sends, done, answered, acked>>

----
\* _phase3_lost_callback: one pipeline reads the markers, then every task without
\* one is queued by its bare id unless that id is queued already
Phase3(ts) ==
    /\ recon = {} /\ ts # {}
    /\ ts \subseteq {t \in Tasks : record[t] = "terminal" /\ t \notin done}
    /\ recon' = ts
    /\ UNCHANGED <<inline, retry, payload, dlq, worker, sends, done, answered, acked, faultVars>>

Phase3One(t) ==
    /\ t \in recon
    /\ recon' = recon \ {t}
    /\ IF Event(t, 0) \in retry
       THEN UNCHANGED <<retry, payload>>
       ELSE retry' = retry \cup {Event(t, 0)} /\ payload' = payload \cup {t}
    /\ UNCHANGED <<inline, dlq, worker, sends, done, answered, acked, faultVars>>

\* The marker lives for a day
MarkerExpires(t) ==
    /\ t \in done
    /\ done' = done \ {t}
    /\ UNCHANGED <<inline, durable, answered, acked, faultVars>>

DeliveryNext ==
    \/ \E t \in Tasks :
          \/ HandleCompletion(t) \/ Persist(t) \/ TimedOut(t)
          \/ Post(t) \/ MarkDone(t) \/ MarkFails(t) \/ Enqueue(t) \/ EnqueueFails(t)
          \/ Phase3One(t) \/ MarkerExpires(t)
    \/ \E w \in Workers : Fetch(w) \/ Pop(w) \/ Send(w) \/ Settle(w) \/ WorkerFails(w)
    \/ \E ts \in SUBSET Tasks : Phase3(ts)

DeliverySpec == DeliveryInit /\ [][DeliveryNext]_deliveryVars

----
DeliveryTypeOK ==
    /\ record \in [Tasks -> {"active", "terminal"}]
    /\ retry \subseteq Events /\ dlq \subseteq Events
    /\ done \subseteq acked /\ acked \subseteq answered /\ payload \subseteq Tasks
    /\ \A t \in Tasks : handler[t].n <= InlineRetries
    /\ recon \subseteq Tasks

\* A callback whose inline attempts are over was answered, or waits in the ZSET as a
\* full event, or is in a processor's hands, or is a dead letter; only a failing
\* Redis call or the death of a processor between pop and requeue loses it.
CallbackKept ==
    \A t \in Tasks : handler[t].pc = "ended" /\ t \notin hurt =>
       \/ t \in answered
       \/ \E a \in 1..MaxDurable : Event(t, a) \in retry \cup dlq
       \/ \E w \in Workers : worker[w].pc \in {"send", "requeue", "dead"} /\ worker[w].ev.task = t

\* However many processors read the same batch, a task gets at most MaxDurable
\* durable posts: the ZREM in process_due_callbacks hands an event to one of them.
DurablePostsBounded == \A t \in Tasks : sends[t] <= MaxDurable

\* A dead letter is a callback that spent every durable attempt and was never
\* acknowledged by an inline or a durable post whose marker was written.
DeadLetterSpent ==
    \A e \in dlq : sends[e.task] = MaxDurable /\ (e.task \in acked => faults > 0)
====
