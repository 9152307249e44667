------------------------------- MODULE MCDag --------------------------------
(***************************************************************************)
(* The parts of DAG execution for TLC: the engine, one streaming step, the *)
(* condition of a step, the step executors and the proxy that runs a       *)
(* worker's commands.  They share no state, so a behaviour moves one of    *)
(* them, its focus, and leaves the others where they start: the states add *)
(* up instead of multiplying.                                              *)
(***************************************************************************)
EXTENDS DagProofs, TLC

CONSTANTS s1, s2, s3, ghost

VARIABLES focus,
    client, onFailure, flush, buffer, pushed, producer, pc, todo, seen,
    received, remaining, wait, outcome, dirty,
    expr, env, decided,
    kind, xpc, attempt, succeeded, result, late, inbox, worker, deadline,
    xwait, shard

StepTriple(a, b, c) == (s1 :> a) @@ (s2 :> b) @@ (s3 :> c)

StepsDef == <<s1, s2, s3>>
KindDef == StepTriple("task", "map", "stream")
ModeDef == StepTriple("async", "sync", "sync")
OnFailureDef == StepTriple("abort", "bare_fallback", "skip")
MapPolicyDef == StepTriple("abort_all", "abort_all", "continue")

Stream == INSTANCE DagStreaming WITH
    Clients <- {"async", "sync", "aio"}, Downstream <- <<s2, s3>>,
    OnFailures <- {"abort", "skip", "fallback"},
    Chunks <- 2, ChunkLimit <- 3, Timeout <- 2, PopMax <- 2

Cond == INSTANCE DagCondition WITH
    Ids <- {"x", "y"}, Attrs <- {"a"},
    Values <- {<<"int", 0>>, <<"int", 1>>, <<"none">>,
               <<"list", <<<<"int", 1>>>>>>, <<"dict", [a |-> <<"int", 1>>]>>}

Exec == INSTANCE StepExecutors WITH
    Executors <- {"sync", "async", "map"},
    Shards <- {s1, s2, s3}, MaxParallelism <- 2, Timeout <- 3, Poll <- 2,
    pc <- xpc, wait <- xwait

stream == <<client, onFailure, flush, buffer, pushed, producer, pc, todo,
            seen, received, remaining, wait, outcome, dirty>>
cond == <<expr, env, decided>>
exec == <<kind, xpc, attempt, succeeded, result, late, inbox, worker,
          deadline, xwait, shard>>
proxy == <<job, proc, processes, cancelled, canceller, results, caller, early,
           silent, faults>>
vars == <<focus, engineVars, stream, cond, exec, proxy>>

Init ==
    /\ focus \in {"engine", "stream", "condition", "executor", "proxy"}
    /\ EngineInit
    /\ focus # "engine" => \A s \in Steps : deps[s] = {}
    /\ Stream!Init
    /\ focus # "stream" => client = "async" /\ onFailure = "abort" /\ flush
    /\ Exec!Init /\ Proxy!Init
    /\ focus # "executor" => kind = "sync"
    /\ IF focus = "condition" THEN Cond!Init
       ELSE /\ expr = [k |-> "call"]
            /\ env = [i \in {"x", "y"} |-> <<"none">>]
            /\ decided = "no"

EngineStep == focus = "engine" /\ EngineNext
    /\ UNCHANGED <<focus, stream, cond, exec, proxy>>
StreamStep == focus = "stream" /\ Stream!Next
    /\ UNCHANGED <<focus, engineVars, cond, exec, proxy>>
CondStep == focus = "condition" /\ Cond!Next
    /\ UNCHANGED <<focus, engineVars, stream, exec, proxy>>
ExecStep == focus = "executor" /\ Exec!Next
    /\ UNCHANGED <<focus, engineVars, stream, cond, proxy>>
ProxyStep == focus = "proxy" /\ Proxy!Next
    /\ UNCHANGED <<focus, engineVars, stream, cond, exec>>

Next == EngineStep \/ StreamStep \/ CondStep \/ ExecStep \/ ProxyStep

Fairness ==
    /\ WF_vars(EngineStep /\ EngineProgress)
    /\ WF_vars(StreamStep /\ Stream!Progress)
    /\ WF_vars(ExecStep /\ Exec!Loop)
    /\ WF_vars(/\ focus = "proxy"
               /\ \E j \in Jobs : Proxy!ThreadStep(j)
               /\ UNCHANGED <<focus, engineVars, stream, cond, exec>>)

Spec == Init /\ [][Next]_vars /\ Fairness

-----------------------------------------------------------------------------

\* The types of the five parts.
TypeOK ==
    /\ EngineTypeOK /\ Stream!TypeOK /\ Cond!TypeOK /\ Exec!TypeOK
    /\ Proxy!TypeOK

\* Inside a step nothing it waits for gets lost: a streaming result stands for all
\* the chunks in order and leaves none behind in Redis, a result that arrives in
\* time is not missed by the polling loop, and no shard of a map step outlives it.
StepsSound ==
    /\ [](Stream!StreamComplete /\ Exec!NoResultMissed /\ Exec!MapGathersAll)
    /\ Stream!EndsWithEmptyBuffer

\* DagCondition: a skipped step is one Python would skip.
SkipAgreesWithPython == Cond!SkipAgreesWithPython

\* Executions end (unless an ASYNC dispatch hangs), streaming loops end without a
\* sentinel, submitted steps end without a notification, and a job submitted to the
\* proxy leaves a result.
PartsEnd ==
    /\ focus = "engine" => DagEnds
    /\ focus = "stream" => Stream!StreamEnds
    /\ focus = "executor" => Exec!AsyncEnds
    /\ focus = "proxy" => Proxy!JobAnswers

=============================================================================
