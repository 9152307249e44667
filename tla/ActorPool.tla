---- MODULE ActorPool ----
\* One capability's pool of worker actors (src/workload/actor_pool_manager.py).
\* ray.get blocks the event loop, so a call is selected and dispatched in one
\* step and no other coroutine ever sees it in a worker's inflight list: every
\* worker has pending 0 at a selection and at a resize. The coroutines
\* interleave where they await: at the lock and inside the worker factory.
EXTENDS Integers, Sequences, FiniteSets

CONSTANTS
    Calls,       \* execute / submit / submit_streaming coroutines
    Resizers,    \* start and resize coroutines
    TargetSize, MaxSize,
    MaxFaults,   \* actor deaths, slow answers and failed creations in one behaviour
    MaxReplaces, \* _ACTOR_FAULT_MAX_REPLACES_PER_WINDOW
    Window,      \* _ACTOR_FAULT_REPLACE_WINDOW_SECONDS in ticks
    None

VARIABLES
    workers,     \* _workers, as a sequence of handle numbers
    handle,      \* sequence of all _WorkerHandles made: name index, actor index, and
                 \* which of its faults fault_times still holds
    nextIndex,   \* _next_index
    lock,        \* the resizer inside the lock
    resizer,     \* per resizer: idle, waiting, or the indexes it still has to create
    live,        \* worker names with a live Ray actor
    call,        \* per call: where it is, with which handle, replacing which index
    replaced,    \* per handle, the ages of the replacements begun for it: one per
                 \* recorded fault, the fault's number being its index
    failedCreate,\* history: a creation failed
    faults

vars == <<workers, handle, nextIndex, lock, resizer, live, call, replaced, failedCreate, faults>>
poolVars == <<workers, nextIndex, lock, resizer>>

Names == 0..MaxSize - 1
IdleCall == [pc |-> "idle", h |-> 0, idx |-> 0]
IdleResizer == [pc |-> "idle", todo |-> <<>>]

Init ==
    /\ workers = <<>> /\ handle = <<>> /\ replaced = <<>>
    /\ nextIndex = 0
    /\ lock = None
    /\ resizer = [r \in Resizers |-> IdleResizer]
    /\ live = {}
    /\ call = [c \in Calls |-> IdleCall]
    /\ failedCreate = FALSE
    /\ faults = 0

Fault == faults < MaxFaults /\ faults' = faults + 1

----
\* _WorkerHandle.is_tripped, record_fault
Young(h) == {n \in 1..Len(replaced[h]) : replaced[h][n] < Window}
IsTrippedLate(h) == Cardinality(handle[h].faults \cap Young(h)) > MaxReplaces
IsTripped(h) == Cardinality(handle[h].faults \cap Young(h)) >= MaxReplaces
Faulted(h) ==
    [handle EXCEPT ![h].faults = (@ \cap Young(h)) \cup {Len(replaced[h]) + 1}]

\* _select_worker with every pending equal: round robin
Selected == workers[(nextIndex % Len(workers)) + 1]

\* A dispatch on handle h ends well, with an error of the worker's own code, or
\* with an actor fault; a fault of a live actor is a GetTimeoutError.
Outcomes(h) == IF handle[h].actor \in live THEN {"ok", "error", "fault"} ELSE {"fault"}
OutcomeCost(h, o) ==
    IF o = "fault" /\ handle[h].actor \in live THEN Fault ELSE UNCHANGED faults

\* _replace_worker's index: the position of the handle, not the index of its name
PositionOf(h) == {i \in 1..Len(workers) : workers[i] = h}

Ends(c, o) == call' = [call EXCEPT ![c] = [IdleCall EXCEPT !.pc = o]]

\* execute, submit, submit_streaming: select, dispatch; on a fault either give up
\* (breaker) or record it and go on to replace the worker
Call(c) ==
    /\ call[c].pc = "idle"
    /\ workers # <<>>
    /\ nextIndex' = (nextIndex + 1) % Len(workers)
    /\ LET h == Selected IN \E o \in Outcomes(h) :
          /\ OutcomeCost(h, o)
          /\ IF o # "fault" \/ IsTripped(h)
             THEN Ends(c, IF o = "ok" THEN "done" ELSE "failed") /\ UNCHANGED <<handle, replaced>>
             ELSE \E i \in PositionOf(h) :
                  /\ call' = [call EXCEPT ![c] = [pc |-> "replace", h |-> h, idx |-> i - 1]]
                  /\ handle' = Faulted(h)
                  /\ replaced' = [replaced EXCEPT ![h] = Append(@, 0)]
    /\ UNCHANGED <<workers, lock, resizer, live, failedCreate>>

CallEmpty(c) ==
    /\ call[c].pc = "idle"
    /\ workers = <<>>
    /\ Ends(c, "failed")
    /\ UNCHANGED <<poolVars, handle, live, replaced, failedCreate, faults>>

\* _try_recover_or_create of the replacement, then the one retry. It suspends only
\* inside the factory; the model also lets others run when Ray has the actor.
ReplaceOk(c) ==
    /\ call[c].pc = "replace"
    /\ LET h == call[c].h
           i == call[c].idx
       IN /\ live' = live \cup {i}
          /\ handle' = [handle EXCEPT ![h].actor = i]
          /\ call' = [call EXCEPT ![c].pc = "retry"]
    /\ UNCHANGED <<poolVars, replaced, failedCreate, faults>>
ReplaceFails(c) ==
    /\ call[c].pc = "replace"
    /\ call[c].idx \notin live
    /\ Fault
    /\ failedCreate' = TRUE
    /\ Ends(c, "failed")
    /\ UNCHANGED <<poolVars, handle, live, replaced>>

RetryFaultDropped(c) ==
    /\ call[c].pc = "retry"
    /\ handle[call[c].h].actor \in live
    /\ Ends(c, "done")
    /\ UNCHANGED <<poolVars, handle, live, replaced, failedCreate, faults>>
Retry(c) ==
    /\ call[c].pc = "retry"
    /\ \E o \in Outcomes(call[c].h) :
          /\ OutcomeCost(call[c].h, o)
          /\ Ends(c, IF o = "ok" THEN "done" ELSE "failed")
    /\ UNCHANGED <<poolVars, handle, live, replaced, failedCreate>>

----
\* start and resize: wait for the lock, then create one worker after the other
\* (a creation awaits the factory) or drop the tail
Ask(r) ==
    /\ resizer[r].pc = "idle"
    /\ resizer' = [resizer EXCEPT ![r].pc = "waiting"]
    /\ UNCHANGED <<workers, handle, nextIndex, lock, live, call, replaced, failedCreate, faults>>

LockedNever == FALSE
Locked == lock # None

\* The indexes to create for a new size, from the size read inside the lock
Missing(n) == [k \in 1..(IF n > Len(workers) THEN n - Len(workers) ELSE 0) |-> Len(workers) + k - 1]

Resize(r) ==
    /\ resizer[r].pc = "waiting"
    /\ ~Locked
    /\ lock' = r
    /\ \E n \in (IF handle = <<>> THEN {TargetSize} ELSE 0..MaxSize) :
          /\ resizer' = [resizer EXCEPT ![r] = [pc |-> "create", todo |-> Missing(n)]]
          /\ IF n < Len(workers)
             THEN /\ workers' = SubSeq(workers, 1, n)
                  /\ nextIndex' = nextIndex % (IF n = 0 THEN 1 ELSE n)
             ELSE UNCHANGED <<workers, nextIndex>>
    /\ UNCHANGED <<handle, live, call, replaced, failedCreate, faults>>

Create(r) ==
    /\ resizer[r].pc = "create"
    /\ resizer[r].todo # <<>>
    /\ LET i == Head(resizer[r].todo) IN
       \/ /\ workers' = Append(workers, Len(handle) + 1)
          /\ handle' = Append(handle, [name |-> i, actor |-> i, faults |-> {}])
          /\ replaced' = Append(replaced, <<>>)
          /\ live' = live \cup {i}
          /\ UNCHANGED <<failedCreate, faults>>
       \/ /\ i \notin live
          /\ Fault
          /\ failedCreate' = TRUE
          /\ UNCHANGED <<workers, handle, live, replaced>>
    /\ resizer' = [resizer EXCEPT ![r].todo = Tail(@)]
    /\ UNCHANGED <<nextIndex, lock, call>>

Resized(r) ==
    /\ resizer[r].pc = "create"
    /\ resizer[r].todo = <<>>
    /\ resizer' = [resizer EXCEPT ![r].pc = "done"]
    /\ lock' = None
    /\ UNCHANGED <<workers, handle, nextIndex, live, call, replaced, failedCreate, faults>>

----
ActorDies(i) ==
    /\ i \in live
    /\ Fault
    /\ live' = live \ {i}
    /\ UNCHANGED <<poolVars, handle, call, replaced, failedCreate>>

Aged(s) == [k \in 1..Len(s) |-> IF s[k] < Window THEN s[k] + 1 ELSE s[k]]
Tick ==
    /\ \E h \in 1..Len(handle) : Young(h) # {}
    /\ replaced' = [h \in 1..Len(handle) |-> Aged(replaced[h])]
    /\ UNCHANGED <<poolVars, handle, live, call, failedCreate, faults>>

CallStep(c) == ReplaceOk(c) \/ Retry(c)
Next ==
    \/ \E c \in Calls : Call(c) \/ CallEmpty(c) \/ ReplaceFails(c) \/ CallStep(c)
    \/ \E r \in Resizers : Ask(r) \/ Resize(r) \/ Create(r) \/ Resized(r)
    \/ \E i \in live : ActorDies(i)
    \/ Tick

Spec == Init /\ [][Next]_vars

TypeOK ==
    /\ workers \in Seq(1..Len(handle))
    /\ nextIndex \in Nat
    /\ lock \in Resizers \cup {None}
    /\ live \subseteq Names

\* However many calls fault on a worker while its replacement is being created,
\* no more replacements start in one window than the breaker allows (record_fault
\* comes before the first await of _call_worker).
ReplacesBounded == \A h \in 1..Len(handle) : Cardinality(Young(h)) <= MaxReplaces

\* As long as no creation has failed, a worker sits at the position its name says
\* and has the actor of that name, no two workers share one, and the pool stays
\* within max_size, whatever resizes overlap (the lock of start and resize).
PoolSound ==
    ~failedCreate =>
        /\ Len(workers) <= MaxSize
        /\ \A i \in 1..Len(workers) :
              handle[workers[i]].name = i - 1 /\ handle[workers[i]].actor = i - 1

\* A call whose worker is being replaced ends: it is retried once.
CallsEnd(c) == (call[c].pc = "replace") ~> (call[c].pc \in {"done", "failed"})
====
