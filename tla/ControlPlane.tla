---------------------------- MODULE ControlPlane ----------------------------
(***************************************************************************)
(* The control-plane process from its start to its end: lifespan and       *)
(* run_forever (scheduler_runtime_core/control_plane.py), the container it *)
(* builds (src/platform/container.py), the LifecycleManager                *)
(* (src/common/lifecycle.py) and start and stop of the four services.      *)
(*                                                                         *)
(*   enabled   the services registered, in the order of Order              *)
(*   pc, at    where lifespan is, and the resource its loop is at          *)
(*   loop      each service's background loop: "off", "runs" or "dead"     *)
(*   open      what the process holds of {"http", "redis", "engine"}       *)
(*   started   _started of the manager                                     *)
(*   signal    the process was told to end (its main task is cancelled)    *)
(*                                                                         *)
(* CronScheduler.start awaits its own loop, the other three start a task   *)
(* and return.  Every loop but the compensation loop ends at the first     *)
(* exception; log_errors swallows it except a ValueError (which a bad      *)
(* cron expression raises), and start_all goes on after either.            *)
(***************************************************************************)
EXTENDS Integers, Sequences

Order == <<"reconciler", "cron", "compensation", "dispatcher">>

Services == {Order[i] : i \in 1..Len(Order)}

VARIABLES enabled, pc, at, loop, open, started, signal

vars == <<enabled, pc, at, loop, open, started, signal>>

PhaseOf == [reconciler |-> 20, cron |-> 30, compensation |-> 20, dispatcher |-> 20]

Registered == SelectSeq(Order, LAMBDA s : s \in enabled)

InPhase(p) == SelectSeq(Registered, LAMBDA s : PhaseOf[s] = p)

StopOrderUnscheduled == InPhase(10) \o InPhase(20) \o InPhase(40)

StopOrderSchedulersFirst == InPhase(10) \o InPhase(30) \o InPhase(20) \o InPhase(40)

StopOrder == InPhase(10) \o InPhase(20) \o InPhase(30) \o InPhase(40)

TypeOK ==
    /\ enabled \subseteq Services
    /\ pc \in {"build", "start", "await", "serve", "stop", "close", "closed", "abort", "gone"}
    /\ at \in 1..5
    /\ loop \in [Services -> {"off", "runs", "dead"}]
    /\ open \subseteq {"http", "redis", "engine"}
    /\ started \in BOOLEAN
    /\ signal \in BOOLEAN

\* reconcile.enabled and cron.enabled choose two services, mysql.url decides
\* on the dispatcher, and the compensation service is always there
Choices == {e \in SUBSET Services : "compensation" \in e}

Init ==
    /\ enabled \in Choices
    /\ pc = "build"
    /\ at = 1
    /\ loop = [s \in Services |-> "off"]
    /\ open = {}
    /\ started = FALSE
    /\ signal = FALSE

\* init_http_client, then the container: a Redis client and, with a MySQL
\* url, the engine
Build ==
    /\ pc = "build"
    /\ pc' = "start"
    /\ open' = {"http", "redis"} \cup (IF "dispatcher" \in enabled THEN {"engine"} ELSE {})
    /\ UNCHANGED <<enabled, at, loop, started, signal>>

\* the engine cannot be made, or the cancellation arrives while Redis connects
BuildFails ==
    /\ pc = "build"
    /\ pc' = "abort"
    /\ open' = {"http"}
    /\ UNCHANGED <<enabled, at, loop, started, signal>>

\* start of a service creates the task of its loop, stop cancels and awaits it
LoopStarts(s) == loop' = [loop EXCEPT ![s] = "runs"]

LoopStops(s) == loop' = [loop EXCEPT ![s] = "off"]

AfterStartRaisesStops == [pc |-> "start", at |-> Len(Registered) + 1]

\* the next resource of start_all, after the one at `at` returned or raised
AfterStartRaises == [pc |-> "start", at |-> at + 1]

\* start_all at a resource whose start only creates a task, or at cron
StartNext ==
    /\ pc = "start"
    /\ at <= Len(Registered)
    /\ LoopStarts(Registered[at])
    /\ IF Registered[at] = "cron"
       THEN pc' = "await" /\ at' = at
       ELSE pc' = pc /\ at' = at + 1
    /\ UNCHANGED <<enabled, open, started, signal>>

\* start_all returns and run_forever sleeps
StartDone ==
    /\ pc = "start"
    /\ at > Len(Registered)
    /\ pc' = "serve"
    /\ started' = TRUE
    /\ UNCHANGED <<enabled, at, loop, open, signal>>

\* an exception ends a loop; the end of the cron loop lets start_all go on,
\* whether start returns or raises
LoopDies(s) ==
    /\ loop[s] = "runs"
    /\ s # "compensation"
    /\ pc \notin {"abort", "gone"}
    /\ loop' = [loop EXCEPT ![s] = "dead"]
    /\ IF s = "cron" /\ pc = "await"
       THEN pc' = AfterStartRaises.pc /\ at' = AfterStartRaises.at
       ELSE UNCHANGED <<pc, at>>
    /\ UNCHANGED <<enabled, open, started, signal>>

Signal ==
    /\ ~signal
    /\ pc \notin {"closed", "abort", "gone"}
    /\ signal' = TRUE
    /\ UNCHANGED <<enabled, pc, at, loop, open, started>>

\* the cancellation reaches the sleep inside the try: stop_all begins, or
\* returns at once when _started is not set
BeginStop ==
    /\ pc = "serve"
    /\ signal
    /\ pc' = IF started THEN "stop" ELSE "close"
    /\ at' = 1
    /\ UNCHANGED <<enabled, loop, open, started, signal>>

\* the cancellation reaches `await self._loop_task` in CronScheduler.start: it
\* cancels the cron loop, passes start_all's `except Exception` and leaves
\* lifespan before its try
AbortStart ==
    /\ pc = "await"
    /\ signal
    /\ pc' = "abort"
    /\ loop' = [loop EXCEPT !["cron"] = "off"]
    /\ UNCHANGED <<enabled, at, open, started, signal>>

\* asyncio.run cancels the tasks that are left
Exit ==
    /\ pc = "abort"
    /\ pc' = "gone"
    /\ loop' = [s \in Services |-> "off"]
    /\ UNCHANGED <<enabled, at, open, started, signal>>

\* stop_all at one resource: stop cancels the loop and awaits its end
StopNext ==
    /\ pc = "stop"
    /\ at <= Len(StopOrder)
    /\ LoopStops(StopOrder[at])
    /\ at' = at + 1
    /\ UNCHANGED <<enabled, pc, open, started, signal>>

StopDone ==
    /\ pc = "stop"
    /\ at > Len(StopOrder)
    /\ pc' = "close"
    /\ at' = 1
    /\ started' = FALSE
    /\ UNCHANGED <<enabled, loop, open, signal>>

\* the engine is disposed and the HTTP client closed; nobody closes Redis
Close ==
    /\ pc = "close"
    /\ pc' = "closed"
    /\ open' = open \ {"engine", "http"}
    /\ UNCHANGED <<enabled, at, loop, started, signal>>

\* start_all and stop_all, of which the split services keep copies; the copy in
\* packages/runtime-core has this start_all, but its stop_all raises on a
\* missing attribute and is not this one
StartAll == StartNext \/ StartDone

StopAll == BeginStop \/ StopNext \/ StopDone

Managed == StartAll \/ StopAll

Start == Build \/ StartAll

Stop == StopAll \/ AbortStart \/ Exit \/ Close

Next ==
    \/ Build \/ BuildFails \/ Managed \/ Signal \/ AbortStart \/ Exit \/ Close
    \/ \E s \in Services : LoopDies(s)

Spec == Init /\ [][Next]_vars /\ WF_vars(Start) /\ WF_vars(Stop)

(***************************************************************************)
(* Properties                                                              *)
(***************************************************************************)

\* start_all: when run_forever begins to sleep, every registered service has
\* been started, even if the loop of the cron scheduler died on the way and
\* its start raised.
ServesWithAllStarted ==
    pc = "serve" => \A s \in enabled : loop[s] # "off"

\* lifespan, stop_all: a process that went through its finally clause leaves
\* no loop running behind the engine and the HTTP client it has closed.
ClosedIsQuiet ==
    pc \in {"close", "closed"} => \A s \in Services : loop[s] = "off"

\* stop_all, phases 3 and 4 of its docstring: when it stops the cron
\* scheduler, every processor and reconciler has been stopped before.
ProcessorsStopFirst ==
    [][pc = "stop" /\ loop["cron"] # "off" /\ loop'["cron"] = "off"
        => \A s \in enabled \ {"cron"} : loop[s] = "off"]_vars

\* start_all, "Start all registered resources.": unless the process is told
\* to end or its container cannot be built, every registered service starts.
AllServicesStart ==
    <>(signal \/ pc \in {"abort", "gone"} \/ \A s \in enabled : loop[s] # "off")
=============================================================================
