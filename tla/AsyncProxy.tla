---- MODULE AsyncProxy ----
\* The sidecar command proxy (src/proxy/async_command_proxy.py) and the worker that
\* waits for its answer (src/workload/async_proxy_worker.py). Threads meet at one
\* lock; the result list of a job is pushed and popped at its left end. The service
\* proxy (src/proxy/async_service_proxy.py) is the same path for jobs that cannot be
\* cancelled: Cancellable tells the two kinds apart.
EXTENDS Integers, Sequences, FiniteSets

CONSTANTS
    Jobs, Cancellable,
    MaxThreads,    \* MAX_WORKERS
    MaxFaults      \* failing Redis writes and failing starts in one behaviour

VARIABLES
    job,        \* per job: the executor thread's place in _execute_and_store
    proc,       \* per job: the command's process
    processes,  \* _processes
    cancelled,  \* _cancelled
    canceller,  \* per job: the cancel handler's place
    results,    \* per job: its Redis list
    caller,     \* per job: the worker that submitted it
    early,      \* history: jobs marked cancelled while not yet past the check
    silent,     \* history: jobs whose error could not be written either
    faults

vars == <<job, proc, processes, cancelled, canceller, results, caller, early, silent, faults>>

Init ==
    /\ job = [j \in Jobs |-> "none"]
    /\ proc = [j \in Jobs |-> "none"]
    /\ processes = {} /\ cancelled = {} /\ early = {} /\ silent = {}
    /\ canceller = [j \in Jobs |-> "idle"]
    /\ results = [j \in Jobs |-> <<>>]
    /\ caller = [j \in Jobs |-> "idle"]
    /\ faults = 0

Fault == faults < MaxFaults /\ faults' = faults + 1
At(j, pc) == job[j] = pc
Goes(j, pc) == job' = [job EXCEPT ![j] = pc]
\* _write_result: LPUSH, then EXPIRE
Write(j, r) == results' = [results EXCEPT ![j] = <<r>> \o @]
InThread(j) == job[j] \notin {"none", "queued", "ended"}
Threads == {j \in Jobs : InThread(j)}

----
\* AsyncProxyWorker.call: submit, then BLPOP with a timeout
Submit(j) ==
    /\ caller[j] = "idle"
    /\ caller' = [caller EXCEPT ![j] = "waiting"]
    /\ Goes(j, "queued")
    /\ UNCHANGED <<proc, processes, cancelled, canceller, results, early, silent, faults>>
SubmitFails(j) ==
    /\ caller[j] = "idle"
    /\ Fault
    /\ caller' = [caller EXCEPT ![j] = "submit error"]
    /\ UNCHANGED <<job, proc, processes, cancelled, canceller, results, early, silent>>

Returned(r) == CASE r = "success" -> "returned" [] r = "error" -> "backend error" [] OTHER -> "cancelled"
TakeResult(j) ==
    /\ caller[j] = "waiting"
    /\ results[j] # <<>>
    /\ caller' = [caller EXCEPT ![j] = Returned(Head(results[j]))]
    /\ results' = [results EXCEPT ![j] = Tail(@)]
    /\ UNCHANGED <<job, proc, processes, cancelled, canceller, early, silent, faults>>
Timeout(j) ==
    /\ caller[j] = "waiting"
    /\ results[j] = <<>>
    /\ caller' = [caller EXCEPT ![j] = "timeout"]
    /\ UNCHANGED <<job, proc, processes, cancelled, canceller, results, early, silent, faults>>

----
\* _execute_and_store: a thread of the pool takes the job; cancellation is not looked
\* at before the command starts
Begin(j) ==
    /\ At(j, "queued")
    /\ Cardinality(Threads) < MaxThreads
    /\ Goes(j, "started")
    /\ proc' = [proc EXCEPT ![j] = "running"]
    /\ UNCHANGED <<processes, cancelled, canceller, results, caller, early, silent, faults>>
CannotStart(j) ==
    /\ At(j, "queued")
    /\ Cardinality(Threads) < MaxThreads
    /\ Fault
    /\ Goes(j, "raise")
    /\ UNCHANGED <<proc, processes, cancelled, canceller, results, caller, early, silent>>

Register(j) ==
    /\ At(j, "started")
    /\ processes' = processes \cup ({j} \cap Cancellable)
    /\ Goes(j, "communicate")
    /\ UNCHANGED <<proc, cancelled, canceller, results, caller, early, silent, faults>>

\* The command ends by itself, well or badly
Ends(j) ==
    /\ proc[j] = "running"
    /\ proc' \in {[proc EXCEPT ![j] = o] : o \in {"ok", "bad"}}
    /\ UNCHANGED <<job, processes, cancelled, canceller, results, caller, early, silent, faults>>

Communicate(j) ==
    /\ At(j, "communicate")
    /\ proc[j] # "running"
    /\ Goes(j, "pop")
    /\ UNCHANGED <<proc, processes, cancelled, canceller, results, caller, early, silent, faults>>

\* TimeoutExpired: kill, leave the table, and only then look at _cancelled
KillLate(j) ==
    /\ At(j, "communicate")
    /\ proc[j] = "running"
    /\ proc' = [proc EXCEPT ![j] = "killed"]
    /\ processes' = processes \ {j}
    /\ Goes(j, "check")
    /\ UNCHANGED <<cancelled, canceller, results, caller, early, silent, faults>>

\* The two looks at _cancelled: with the pop, or under a lock of its own
WasCancelledNot(j) == FALSE
WasCancelled(j) == j \in cancelled
Outcome(j) == IF proc[j] = "ok" THEN "write success" ELSE "write error"
CheckKeeps(j) ==
    /\ job[j] \in {"pop", "check"}
    /\ Goes(j, IF WasCancelled(j) THEN "ended" ELSE Outcome(j))
    /\ UNCHANGED <<proc, processes, cancelled, canceller, results, caller, early, silent, faults>>
Check(j) ==
    /\ job[j] \in {"pop", "check"}
    /\ processes' = processes \ {j}
    /\ Goes(j, IF WasCancelled(j) THEN "ended" ELSE Outcome(j))
    /\ UNCHANGED <<proc, cancelled, canceller, results, caller, early, silent, faults>>

Status(j) == IF At(j, "write success") THEN "success" ELSE "error"
WriteOutcome(j) ==
    /\ job[j] \in {"write success", "write error"}
    /\ Write(j, Status(j))
    /\ Goes(j, "ended")
    /\ UNCHANGED <<proc, processes, cancelled, canceller, caller, early, silent, faults>>
\* LPUSH or EXPIRE raises. The service proxy writes outside its try statement.
WriteFails(j) ==
    /\ job[j] \in {"write success", "write error"}
    /\ Fault
    /\ Goes(j, IF j \in Cancellable THEN "raise" ELSE "ended")
    /\ \/ Write(j, Status(j)) /\ UNCHANGED silent
       \/ UNCHANGED results /\ silent' = IF j \in Cancellable THEN silent ELSE silent \cup {j}
    /\ UNCHANGED <<proc, processes, cancelled, canceller, caller, early>>

\* The except branch writes an error whether or not the job was cancelled; if that
\* write fails too the job ends without a result
RaiseSilent(j) ==
    /\ At(j, "raise")
    /\ processes' = processes \ {j}
    /\ Goes(j, "ended")
    /\ UNCHANGED <<proc, cancelled, canceller, results, caller, early, silent, faults>>
Raise(j) ==
    /\ At(j, "raise")
    /\ Write(j, "error")
    /\ processes' = processes \ {j}
    /\ Goes(j, "ended")
    /\ UNCHANGED <<proc, cancelled, canceller, caller, early, silent, faults>>
RaiseFails(j) ==
    /\ At(j, "raise")
    /\ Fault
    /\ processes' = processes \ {j}
    /\ silent' = silent \cup {j}
    /\ Goes(j, "ended")
    /\ UNCHANGED <<proc, cancelled, canceller, results, caller, early>>

----
\* cancel: mark and read the table under the lock, then write, then terminate
Cancel(j) ==
    /\ j \in Cancellable
    /\ canceller[j] = "idle" /\ ~At(j, "none")
    /\ cancelled' = cancelled \cup {j}
    /\ early' = IF job[j] \in {"queued", "started", "communicate", "pop", "check"} THEN early \cup {j} ELSE early
    /\ canceller' = [canceller EXCEPT ![j] = IF j \in processes THEN "write, terminate" ELSE "write"]
    /\ UNCHANGED <<job, proc, processes, results, caller, silent, faults>>
CancelWrites(j) ==
    /\ canceller[j] \in {"write", "write, terminate"}
    /\ Write(j, "cancelled")
    /\ canceller' = [canceller EXCEPT ![j] = IF @ = "write" THEN "done" ELSE "terminate"]
    /\ UNCHANGED <<job, proc, processes, cancelled, caller, early, silent, faults>>
CancelTerminates(j) ==
    /\ canceller[j] = "terminate"
    /\ proc' = [proc EXCEPT ![j] = IF @ = "running" THEN "killed" ELSE @]
    /\ canceller' = [canceller EXCEPT ![j] = "done"]
    /\ UNCHANGED <<job, processes, cancelled, results, caller, early, silent, faults>>

\* RESULT_TTL
ResultExpires(j) ==
    /\ results[j] # <<>> /\ caller[j] # "waiting"
    /\ results' = [results EXCEPT ![j] = <<>>]
    /\ UNCHANGED <<job, proc, processes, cancelled, canceller, caller, early, silent, faults>>

\* Both proxies are also packaged (packages/proxy: service.py, command.py)
Forwarding(j) == Begin(j) \/ WriteOutcome(j)
Executing(j) == Register(j) \/ Communicate(j) \/ KillLate(j) \/ Check(j) \/ Raise(j)
Cancelling(j) == CancelWrites(j) \/ CancelTerminates(j)
ThreadStep(j) == Forwarding(j) \/ Executing(j) \/ Cancelling(j)
Submission(j) == Submit(j) \/ SubmitFails(j)
Worker(j) == Submission(j) \/ TakeResult(j) \/ Timeout(j)
Next == \E j \in Jobs :
    \/ ThreadStep(j) \/ Worker(j) \/ CannotStart(j) \/ Ends(j)
    \/ WriteFails(j) \/ RaiseFails(j) \/ Cancel(j) \/ ResultExpires(j)
Spec == Init /\ [][Next]_vars

----
TypeOK ==
    /\ \A j \in Jobs : /\ proc[j] \in {"none", "running", "ok", "bad", "killed"}
                       /\ Len(results[j]) <= 3
    /\ processes \subseteq Jobs /\ early \subseteq cancelled

\* A cancellation that came before the thread looked at _cancelled is final: no
\* success is ever in the job's list, so neither the worker nor /result sees one.
EarlyCancelIsFinal ==
    \A j \in early : /\ caller[j] # "returned"
                     /\ \A k \in 1..Len(results[j]) : results[j][k] # "success"

\* A finished job has left the process table, and its process has ended: no late
\* cancel terminates what is not its own.
TableIsCurrent ==
    \A j \in Jobs : At(j, "ended") => j \notin processes /\ proc[j] # "running"

\* A submitted job gets an answer, its own or the one of a cancel, unless Redis
\* refused both its result and its error.
JobAnswers == \A j \in Jobs : At(j, "queued") ~> (results[j] # <<>> \/ j \in silent \/ canceller[j] = "done")
====
