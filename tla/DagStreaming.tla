---------------------------- MODULE DagStreaming ----------------------------
(***************************************************************************)
(* platform/dag_engine.py: one STREAMING step.  A producer started by the  *)
(* dispatch pushes chunks and a sentinel into a Redis list; the engine     *)
(* pops them, dispatches the downstream steps for each chunk, and stops at *)
(* the sentinel, at the deadline, at the chunk limit or when a blpop times *)
(* out.  Time is counted down.                                             *)
(***************************************************************************)
EXTENDS Naturals, SequencesExt

CONSTANTS Clients,         \* the kinds of Redis client to consider: "async"
                           \* (it has async_blpop), "sync" (redis.Redis) or
                           \* "aio" (redis.asyncio, whose blpop is a coroutine)
          Downstream,      \* trigger.downstream_steps, a sequence
          OnFailures,      \* the values of on_failure to consider
          Chunks,          \* bound: the chunks a producer pushes
          ChunkLimit,      \* streaming_max_chunks
          Timeout,         \* timeout_seconds
          PopMax           \* the longest blpop

VARIABLES client, onFailure, flush,
          buffer,          \* the list under buffer_key
          pushed,          \* chunks pushed so far
          producer,        \* "off", "on" or "finished" (or dead)
          pc,              \* where _run_streaming_step is
          todo,            \* downstream steps left for the current chunk
          seen,            \* the chunks whose downstream dispatch has begun
          received,        \* chunks_received
          remaining, wait, \* time left: of the step, of the current blpop
          outcome,         \* how the step ended: "none" while it runs
          dirty            \* a Redis delete has failed

vars == <<client, onFailure, flush, buffer, pushed, producer, pc, todo, seen,
          received, remaining, wait, outcome, dirty>>

\* What a list element stands for: a chunk is its number.
Done  == 0              \* {"__done__": true, "summary": ...}
Error == Chunks + 1     \* {"__done__": true, "__error__": ...}
Raw   == Chunks + 2     \* what does not parse

conf == <<client, onFailure, flush>>
world == <<pushed, producer>>

Init ==
    /\ client \in Clients
    /\ onFailure \in OnFailures
    /\ flush \in BOOLEAN                    \* trigger.flush_on_complete
    /\ buffer = <<>> /\ pushed = 0 /\ producer = "off"
    /\ pc = "dispatch" /\ todo = <<>> /\ seen = <<>> /\ received = 0
    /\ remaining = Timeout /\ wait = 0
    /\ outcome = "none" /\ dirty = FALSE

-----------------------------------------------------------------------------
(* The producer, started by the dispatch.                                  *)

Push ==
    /\ producer = "on"
    /\ \/ /\ pushed < Chunks
          /\ pushed' = pushed + 1
          /\ buffer' = Append(buffer, pushed')
          /\ producer' = producer
       \/ /\ \E last \in {Done, Error} : buffer' = Append(buffer, last)
          /\ producer' = "finished"
          /\ pushed' = pushed
    /\ UNCHANGED <<conf, pc, todo, seen, received, remaining, wait, outcome,
                   dirty>>

ProducerDies ==
    /\ producer = "on"
    /\ producer' = "finished"
    /\ UNCHANGED <<conf, buffer, pushed, pc, todo, seen, received, remaining,
                   wait, outcome, dirty>>

-----------------------------------------------------------------------------
(* _run_streaming_step.                                                    *)

Dispatch(error) ==
    /\ pc = "dispatch"
    /\ pc' = IF error THEN "except" ELSE "loop"
    /\ producer' = IF error THEN producer ELSE "on"
    /\ UNCHANGED <<conf, buffer, pushed, todo, seen, received, remaining,
                   wait, outcome, dirty>>

\* A delete of the buffer key while it holds list.  (A synchronous client
\* deletes it, and then awaiting the number it returns raises.)
Deletes(list, failing) ==
    /\ buffer' = IF failing THEN list ELSE <<>>
    /\ dirty' = (dirty \/ failing)

\* The deadline and the limit are looked at before each blpop only.
LoopTop(failing) ==
    /\ pc = "loop"
    /\ IF remaining = 0 \/ received >= ChunkLimit
       THEN Deletes(buffer, failing) /\ pc' = "except" /\ wait' = wait
       ELSE /\ ~failing
            /\ pc' = "pop"
            /\ wait' = IF remaining + 1 < PopMax THEN remaining + 1 ELSE PopMax
            /\ UNCHANGED <<buffer, dirty>>
    /\ UNCHANGED <<conf, world, todo, seen, received, remaining, outcome>>

\* The branch a popped chunk takes; flush deletes the key at the sentinel.
Consume(chunk, failing) ==
    IF chunk = Done
    THEN /\ IF flush THEN Deletes(Tail(buffer), failing)
            ELSE ~failing /\ buffer' = Tail(buffer) /\ dirty' = dirty
         /\ pc' = IF failing THEN "except" ELSE "end"
         /\ outcome' = IF failing THEN outcome ELSE "result"
         /\ UNCHANGED <<todo, seen>>
    ELSE /\ ~failing
         /\ buffer' = Tail(buffer)
         /\ IF chunk = Error
            THEN pc' = "except" /\ UNCHANGED <<todo, seen>>
            ELSE /\ todo' = Downstream
                 /\ seen' = Append(seen, chunk)
                 /\ pc' = IF Downstream = <<>> THEN "loop" ELSE "down"
         /\ UNCHANGED <<outcome, dirty>>

\* async_blpop returns (key, value).  _redis_blpop_sync returns the value
\* alone, of which item[1] is one character: it does not parse, and becomes
\* a chunk {"__raw__": ...}, whatever the value was.
Decode(value) == IF client = "async" THEN value ELSE Raw

Pop(failing) ==
    /\ pc = "pop"
    /\ buffer # <<>>
    /\ client # "aio"
    /\ received' = received + 1
    /\ Consume(Decode(Head(buffer)), failing)
    /\ UNCHANGED <<conf, world, remaining, wait>>

\* Mutant: a silent producer counts as a finished one.
PopTimeoutCompletes ==
    /\ pc = "pop"
    /\ wait = 0 \/ client = "aio"
    /\ pc' = "end"
    /\ outcome' = "result"
    /\ UNCHANGED <<conf, buffer, world, todo, seen, received, remaining, wait,
                   dirty>>

\* Mutant: blpop without a timeout.
PopTimeoutNever ==
    /\ pc = "pop"
    /\ client = "aio"
    /\ pc' = "except"
    /\ UNCHANGED <<conf, buffer, world, todo, seen, received, remaining, wait,
                   outcome, dirty>>

\* No element in time: None, and TimeoutError.  (The coroutine of an aio
\* client cannot be unpacked, which gives None at once.)
PopTimeout ==
    /\ pc = "pop"
    /\ wait = 0 \/ client = "aio"
    /\ pc' = "except"
    /\ UNCHANGED <<conf, buffer, world, todo, seen, received, remaining, wait,
                   outcome, dirty>>

\* Redis fails: the thread returns None, async_blpop raises.
PopError ==
    /\ pc = "pop"
    /\ pc' = "except"
    /\ UNCHANGED <<conf, buffer, world, todo, seen, received, remaining, wait,
                   outcome, dirty>>

\* A downstream dispatch returns, raises or times out: the loop goes on.
DispatchDownstream ==
    /\ pc = "down"
    /\ todo' = Tail(todo)
    /\ pc' = IF todo' = <<>> THEN "loop" ELSE "down"
    /\ UNCHANGED <<conf, buffer, world, seen, received, remaining, wait,
                   outcome, dirty>>

-----------------------------------------------------------------------------
(* _run_step's except: delete the buffer, then on_failure.                 *)

OutcomeOf(failing) ==
    IF failing \/ client = "sync" \/ onFailure = "abort" THEN "raised"
    ELSE onFailure

\* Mutant: the buffer is left as it is.
ExceptNoDelete(failing) ==
    /\ pc = "except"
    /\ pc' = "end"
    /\ outcome' = OutcomeOf(failing)
    /\ UNCHANGED <<conf, world, buffer, dirty, todo, seen, received,
                   remaining, wait>>

Except(failing) ==
    /\ pc = "except"
    /\ Deletes(buffer, failing)
    /\ pc' = "end"
    /\ outcome' = OutcomeOf(failing)
    /\ UNCHANGED <<conf, world, todo, seen, received, remaining, wait>>

\* Time passes while the engine waits in a blpop or in a dispatch; a blpop
\* does not outlast its own timeout.
Tick ==
    /\ \/ pc = "pop" /\ wait > 0
       \/ pc = "down" /\ remaining > 0
    /\ remaining' = IF remaining > 0 THEN remaining - 1 ELSE 0
    /\ wait' = IF wait > 0 THEN wait - 1 ELSE 0
    /\ UNCHANGED <<conf, buffer, world, pc, todo, seen, received, outcome,
                   dirty>>

Engine ==
    \/ \E failing \in BOOLEAN : LoopTop(failing) \/ Pop(failing)
    \/ \E failing \in BOOLEAN : Except(failing)
    \/ PopTimeout
    \/ DispatchDownstream

Next == (\E error \in BOOLEAN : Dispatch(error)) \/ Engine \/ Tick \/ PopError \/ Push \/ ProducerDies

\* The event loop runs and time passes; the producer owes nothing, and the
\* first dispatch has no timeout.
Progress == Engine \/ Tick

-----------------------------------------------------------------------------
(* Properties.                                                             *)

TypeOK ==
    /\ buffer \in Seq(0..(Chunks + 1)) /\ pushed \in 0..Chunks
    /\ producer \in {"off", "on", "finished"}
    /\ pc \in {"dispatch", "loop", "pop", "down", "except", "end"}
    /\ received \in 0..ChunkLimit /\ wait \in 0..PopMax
    /\ outcome \in {"none", "result", "fallback", "skip", "raised"}

\* With async_blpop, a step that returns a result has dispatched the
\* downstream steps for every chunk of the producer, once and in order.
StreamComplete ==
    client = "async" /\ outcome = "result" => seen = [i \in 1..pushed |-> i]

\* A step that ends leaves an empty buffer, unless Redis refused the delete:
\* the next execution of the task starts on old chunks only when the producer
\* outlives this one.
EndsWithEmptyBuffer ==
    [][pc # "end" /\ pc' = "end" => buffer' = <<>> \/ dirty']_vars

\* The deadline, the chunk limit and the blpop timeout end the step, even
\* when the producer dies without a sentinel.
StreamEnds == pc = "loop" ~> pc = "end"

=============================================================================
