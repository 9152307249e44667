----------------------------- MODULE DagEngine ------------------------------
(***************************************************************************)
(* platform/dag_engine.py: DagEngine.execute and _run_step.  The steps are *)
(* sorted into waves; the tasks of one wave run concurrently under a       *)
(* semaphore, gather waits for all of them, and an exception of a step     *)
(* whose on_failure is ABORT ends the execution.  A step is a plain, MAP   *)
(* or STREAMING step (the stream's inside is DagStreaming).                *)
(***************************************************************************)
EXTENDS Integers, FiniteSets, Sequences, Functions

CONSTANTS StepSeq,        \* dag_def.steps, in order
          Ghosts,         \* names depends_on may mention that are not steps
          MaxDeps,        \* bound: the dependencies of one step
          Kind,           \* Kind[s]: "task", "map" or "stream"
          Mode,           \* Mode[s]: "sync" (with a timeout) or "async"
          OnFailure,      \* OnFailure[s]: "abort", "skip", "fallback",
                          \* or "bare_fallback": FALLBACK without a fallback
          MapPolicy,      \* MapPolicy[s]: "abort_all" or "continue"
          Conditional,    \* the steps with a condition
          MaxRetries,     \* retry_policy.max_retries
          Items,          \* the number of items of a MAP step
          Parallelism     \* min(max_parallelism, max_concurrent)

Steps == Range(StepSeq)

ASSUME DagAssumption ==
    /\ StepSeq \in Seq(Steps)
    /\ \A i, j \in DOMAIN StepSeq : StepSeq[i] = StepSeq[j] => i = j
    /\ IsFiniteSet(Ghosts) /\ Ghosts \cap Steps = {}
    /\ Kind \in [Steps -> {"task", "map", "stream"}]
    /\ MaxRetries \in Nat /\ Items \in Nat /\ Parallelism \in Nat

VARIABLES deps,           \* deps[s]: the names in depends_on
          deg,            \* _topo_sort: in_degree
          queue,          \* the steps of the last wave not yet gone through
          next,           \* next_q
          at,             \* how many steps the innermost loop has looked at
          order,          \* the waves still to run, the current one first
          st,             \* st[s]: where the task of step s is
          left,           \* left[s]: retries, or MAP items, still to go
          errors,         \* errors[s]: MAP items that raised
          inputs,         \* inputs[s]: the results step s saw when it started
          produced,       \* the steps with a non-empty result in step_results
          completed,      \* ctx.completed_steps
          snap,           \* snap[s]: the completed steps in its pending save
          saved,          \* the completed steps of the stored context
          status          \* ctx.status

sort == <<deg, queue, next, at>>
engineVars == <<deps, sort, order, st, left, errors, inputs, produced, completed,
                snap, saved, status>>
tasks == <<st, left, errors, inputs, produced, completed, snap, saved, status>>

Inside == {"run", "sleep"}          \* the task holds the semaphore
Over   == {"done", "raised"}        \* the task has ended
Wave == IF order = <<>> THEN <<>> ELSE Head(order)

-----------------------------------------------------------------------------
\* Mutant: only the names that are steps count.
InDegreeKnownOnly(d) == [s \in Steps |-> Cardinality(d[s] \cap Steps)]

\* Every name of depends_on counts, also the ones that are no step.
InDegree(d) == [s \in Steps |-> Cardinality(d[s])]

\* execute: the context is new and the sorting begins.
EngineInit ==
    /\ deps \in [Steps -> {D \in SUBSET (Steps \cup Ghosts) :
                                Cardinality(D) <= MaxDeps}]
    /\ deg = InDegree(deps)
    /\ queue = <<>> /\ next = <<>> /\ at = 0
    /\ order = <<>>
    /\ st = [s \in Steps |-> "wait"]
    /\ left = [s \in Steps |-> 0]
    /\ errors = [s \in Steps |-> 0]
    /\ inputs = [s \in Steps |-> {}]
    /\ produced = {}
    /\ completed = {}
    /\ snap = [s \in Steps |-> {}]
    /\ saved = {}
    /\ status = "running"

(* _topo_sort: Kahn's algorithm, level by level.  Nothing is awaited in    *)
(* it, so nothing else happens before it has returned.                     *)
Sorted == at = Len(StepSeq) /\ queue = <<>> /\ next = <<>>

\* The first queue: the steps without a dependency.
SortSource(n) ==
    /\ queue = <<>>
    /\ next' = IF deg[n] = 0 THEN Append(next, n) ELSE next
    /\ UNCHANGED deg

\* The degree of a neighbour goes down; at zero it joins the next wave.
SortNeighbour(n) ==
    /\ queue # <<>>
    /\ IF Head(queue) \in deps[n]
       THEN /\ deg' = [deg EXCEPT ![n] = @ - 1]
            /\ next' = IF deg[n] = 1 THEN Append(next, n) ELSE next
       ELSE UNCHANGED <<deg, next>>

SortLook ==
    /\ at < Len(StepSeq)
    /\ SortSource(StepSeq[at + 1]) \/ SortNeighbour(StepSeq[at + 1])
    /\ at' = at + 1
    /\ UNCHANGED <<deps, queue, order, tasks>>

\* On to the next step of the wave, ...
SortStep ==
    /\ at = Len(StepSeq) /\ queue # <<>>
    /\ queue' = Tail(queue)
    /\ at' = IF Tail(queue) = <<>> THEN at ELSE 0
    /\ UNCHANGED <<deps, deg, next, order, tasks>>

\* ... or to the next wave.
SortWave ==
    /\ at = Len(StepSeq) /\ queue = <<>> /\ next # <<>>
    /\ order' = Append(order, next)
    /\ queue' = next
    /\ next' = <<>>
    /\ at' = 0
    /\ UNCHANGED <<deps, deg, tasks>>

Sort == SortLook \/ SortStep \/ SortWave

-----------------------------------------------------------------------------
ctx == <<produced, completed, snap, saved>>

\* No step can start: the execution is complete.
EmptyOrder ==
    /\ Sorted /\ status = "running"
    /\ order = <<>>
    /\ status' = "completed"
    /\ UNCHANGED <<deps, sort, order, st, left, errors, inputs, ctx>>

\* create_task for every step of the wave.
StartWave ==
    /\ Sorted /\ status = "running"
    /\ order # <<>>
    /\ \A s \in Range(Wave) : st[s] = "wait"
    /\ st' = [s \in Steps |-> IF s \in Range(Wave) THEN "created" ELSE st[s]]
    /\ UNCHANGED <<deps, sort, order, left, errors, inputs, ctx, status>>

\* The tasks of a wave run their first slice in the order of the wave.
FirstSlice(s) ==
    /\ st[s] = "created"
    /\ \A i, j \in DOMAIN Wave :
          i < j /\ Wave[j] = s => st[Wave[i]] # "created"

\* The condition is false: the step counts as completed, without a result.
SkipByCondition(s) ==
    /\ FirstSlice(s)
    /\ s \in Conditional
    /\ st' = [st EXCEPT ![s] = "done"]
    /\ completed' = completed \cup {s}
    /\ UNCHANGED <<deps, sort, order, left, errors, inputs, produced, snap, saved,
                   status>>

\* The input is built from the context now, before the semaphore.
BuildInput(s) ==
    /\ FirstSlice(s)
    /\ st' = [st EXCEPT ![s] = "queued"]
    /\ inputs' = [inputs EXCEPT ![s] = produced]
    /\ UNCHANGED <<deps, sort, order, left, errors, ctx, status>>

\* Mutant: the semaphore is not awaited.
AcquireAlways(s) ==
    /\ st[s] = "queued"
    /\ st' = [st EXCEPT ![s] = "run"]
    /\ left' = [left EXCEPT ![s] = IF Kind[s] = "map" THEN Items ELSE 0]
    /\ UNCHANGED <<deps, sort, order, errors, inputs, ctx, status>>

Acquire(s) ==
    /\ st[s] = "queued"
    /\ Cardinality({t \in Steps : st[t] \in Inside}) < Parallelism
    /\ st' = [st EXCEPT ![s] = "run"]
    /\ left' = [left EXCEPT ![s] = CASE Kind[s] = "task" -> MaxRetries
                                     [] Kind[s] = "map" -> Items
                                     [] Kind[s] = "stream" -> 0]
    /\ UNCHANGED <<deps, sort, order, errors, inputs, ctx, status>>

\* Mutant: a save writes the step alone, not the whole context.
FinishOwnOnly(s, nonempty) ==
    /\ st' = [st EXCEPT ![s] = "saving"]
    /\ produced' = IF nonempty THEN produced \cup {s} ELSE produced
    /\ completed' = completed \cup {s}
    /\ snap' = [snap EXCEPT ![s] = {s}]
    /\ UNCHANGED <<deps, sort, order, left, errors, inputs, saved, status>>

\* Mutant: the step is not added to completed_steps.
FinishUncounted(s, nonempty) ==
    /\ st' = [st EXCEPT ![s] = "saving"]
    /\ produced' = IF nonempty THEN produced \cup {s} ELSE produced
    /\ UNCHANGED <<deps, sort, order, left, errors, inputs, completed, snap, saved,
                   status>>

\* The semaphore is free again; the result enters the context and the save
\* of this context begins.
Finish(s, nonempty) ==
    /\ st' = [st EXCEPT ![s] = "saving"]
    /\ produced' = IF nonempty THEN produced \cup {s} ELSE produced
    /\ completed' = completed \cup {s}
    /\ snap' = [snap EXCEPT ![s] = completed \cup {s}]
    /\ UNCHANGED <<deps, sort, order, left, errors, inputs, saved, status>>

\* The last error of a step: fallback, skip, or the exception leaves the task.
GiveUp(s) ==
    \/ OnFailure[s] = "fallback" /\ Finish(s, TRUE)
    \/ OnFailure[s] = "skip" /\ Finish(s, FALSE)
    \/ /\ OnFailure[s] \in {"abort", "bare_fallback"}
       /\ st' = [st EXCEPT ![s] = "raised"]
       /\ UNCHANGED <<deps, sort, order, left, errors, inputs, ctx, status>>

DispatchOk(s) ==
    /\ st[s] = "run"
    /\ Kind[s] # "map"
    /\ Finish(s, TRUE)

\* Mutant: the attempts are not counted.
DispatchErrorForever(s) ==
    /\ st[s] = "run"
    /\ Kind[s] # "map"
    /\ IF left[s] > 0
       THEN /\ st' = [st EXCEPT ![s] = "sleep"]
            /\ UNCHANGED <<deps, sort, order, left, errors, inputs, ctx, status>>
       ELSE GiveUp(s)

\* An error or a timeout of a plain or a streaming step.
DispatchError(s) ==
    /\ st[s] = "run"
    /\ Kind[s] # "map"
    /\ IF left[s] > 0
       THEN /\ st' = [st EXCEPT ![s] = "sleep"]
            /\ left' = [left EXCEPT ![s] = @ - 1]
            /\ UNCHANGED <<deps, sort, order, errors, inputs, ctx, status>>
       ELSE GiveUp(s)

\* The retry delay is slept inside the semaphore.
Retry(s) ==
    /\ st[s] = "sleep"
    /\ st' = [st EXCEPT ![s] = "run"]
    /\ UNCHANGED <<deps, sort, order, left, errors, inputs, ctx, status>>

\* One item of a MAP step returns; under CONTINUE an error is a result too.
MapItem(s, error) ==
    /\ st[s] = "run"
    /\ Kind[s] = "map"
    /\ left[s] > 0
    /\ left' = [left EXCEPT ![s] = @ - 1]
    /\ errors' = [errors EXCEPT ![s] =
                     IF error /\ MapPolicy[s] # "continue" THEN @ + 1 ELSE @]
    /\ UNCHANGED <<deps, sort, order, st, inputs, ctx, status>>

\* gather has all the items; one error under ABORT_ALL fails the step.
MapGathered(s) ==
    /\ st[s] = "run"
    /\ Kind[s] = "map"
    /\ left[s] = 0
    /\ IF errors[s] > 0 THEN GiveUp(s) ELSE Finish(s, TRUE)

\* store.save returns or raises; what it wrote is what it was given.
SaveEnds(s, error) ==
    /\ st[s] = "saving"
    /\ st' = [st EXCEPT ![s] = IF error THEN "raised" ELSE "done"]
    /\ saved' = IF error THEN saved ELSE snap[s]
    /\ snap' = [snap EXCEPT ![s] = {}]
    /\ UNCHANGED <<deps, sort, order, left, errors, inputs, produced, completed,
                   status>>

\* The step whose exception ends the execution.
Aborts(s) == st[s] = "raised" /\ OnFailure[s] = "abort"

\* Mutant: gather returns with the first exception.
EndWaveEarly ==
    /\ Sorted /\ status = "running"
    /\ order # <<>>
    /\ \A s \in Range(Wave) : st[s] # "wait"
    /\ IF \E s \in Range(Wave) : Aborts(s)
       THEN status' = "failed" /\ order' = order
       ELSE /\ \A s \in Range(Wave) : st[s] \in Over
            /\ order' = Tail(order)
            /\ status' = IF Tail(order) = <<>> THEN "completed" ELSE "running"
    /\ UNCHANGED <<deps, sort, st, left, errors, inputs, ctx>>

\* Mutant: the next wave does not wait for all of this one.
EndWaveNoWait ==
    /\ Sorted /\ status = "running"
    /\ order # <<>>
    /\ \E s \in Range(Wave) : st[s] \in Over
    /\ order' = Tail(order)
    /\ status' = IF Tail(order) = <<>> THEN "completed" ELSE "running"
    /\ UNCHANGED <<deps, sort, st, left, errors, inputs, ctx>>

\* gather has all the tasks of the wave.
EndWave ==
    /\ Sorted /\ status = "running"
    /\ order # <<>>
    /\ \A s \in Range(Wave) : st[s] \in Over
    /\ IF \E s \in Range(Wave) : Aborts(s)
       THEN status' = "failed" /\ order' = order
       ELSE /\ order' = Tail(order)
            /\ status' = IF Tail(order) = <<>> THEN "completed" ELSE "running"
    /\ UNCHANGED <<deps, sort, st, left, errors, inputs, ctx>>

StepAction(s) ==
    \/ SkipByCondition(s)
    \/ BuildInput(s)
    \/ Acquire(s)
    \/ DispatchOk(s)
    \/ DispatchError(s)
    \/ Retry(s)
    \/ \E error \in BOOLEAN : MapItem(s, error)
    \/ MapGathered(s)
    \/ \E error \in BOOLEAN : SaveEnds(s, error)

EngineNext ==
    \/ Sort \/ EmptyOrder \/ StartWave \/ EndWave
    \/ \E s \in Steps : StepAction(s)

EngineSpec == EngineInit /\ [][EngineNext]_engineVars

\* What the event loop and the timeouts bring about: everything but the
\* answer to a dispatch in ASYNC mode, which has no timeout.
EngineProgress ==
    \/ Sort
    \/ EmptyOrder
    \/ StartWave
    \/ EndWave
    \/ \E s \in Steps :
          /\ st[s] = "run" => Mode[s] = "sync" \/ Kind[s] # "task"
          /\ StepAction(s)

-----------------------------------------------------------------------------
(* Properties.                                                             *)

Waiting == {s \in Steps : st[s] = "wait"}

EngineTypeOK ==
    /\ deg \in [Steps -> Nat] /\ at \in 0..Len(StepSeq)
    /\ queue \in Seq(Steps) /\ next \in Seq(Steps) /\ order \in Seq(Seq(Steps))
    /\ st \in [Steps -> {"wait", "created", "queued", "run", "sleep",
                         "saving"} \cup Over]
    /\ left \in [Steps -> 0..(MaxRetries + Items)]
    /\ errors \in [Steps -> 0..Items]
    /\ inputs \in [Steps -> SUBSET Steps]
    /\ produced \subseteq completed
    /\ saved \subseteq completed
    /\ status \in {"running", "completed", "failed"}

\* The semaphore of execute bounds the steps that dispatch, sleep between
\* retries or wait for their items.
WithinParallelism ==
    Cardinality({s \in Steps : st[s] \in Inside}) <= Parallelism

\* s is on a cycle, or reaches one, or reaches a name that is no step: it is in
\* a set of steps none of which can be the first to start.
Blocked(s) ==
    \E B \in SUBSET Steps :
       s \in B /\ \A t \in B : deps[t] \cap (B \cup Ghosts) # {}

\* _topo_sort drops, without an error, exactly the steps that depend on a
\* cycle or on an unknown name: a completed execution has run all the others.
LeftOutIsBlocked ==
    status = "completed" => Waiting = {s \in Steps : Blocked(s)}

\* When _run_step builds its input, the result of every dependency that has
\* one is in the context, however the siblings of the waves interleave.
InputsComplete ==
    \A s \in Steps : st[s] \notin {"wait", "created"} /\ s \notin completed
                        => deps[s] \cap produced \subseteq inputs[s]

\* Saves of siblings may land in any order, yet the stored context never
\* names a step without the completed steps it depends on.
PersistedClosed ==
    \A s \in saved : deps[s] \cap completed \subseteq saved

\* A dispatch in ASYNC mode may hang; otherwise an execution ends.
DagEnds ==
    \/ <>(status # "running")
    \/ <>[](\E s \in Steps : st[s] = "run" /\ Mode[s] = "async")

\* The engine implements the abstract order of DagOrder.
Order == INSTANCE DagOrder WITH
    Names <- Steps \cup Ghosts,
    phase <- [s \in Steps |-> IF st[s] = "wait" THEN "waiting"
                              ELSE IF st[s] \in Over THEN "ended"
                              ELSE "running"],
    bad <- {s \in Steps : st[s] = "raised"},
    verdict <- status

=============================================================================
