---- MODULE NodeAgent ----
\* The agent processes of one node (src/agent/server.py) and the node's record
\* in the NodeRegistry (src/platform/node_registry.py). A Redis call is one
\* step; between two of them the event loop may run any other handler.
EXTENDS Integers, FiniteSets

CONSTANTS
    Agents,       \* agent processes that may run for the node, each with its own instance_id
    First,        \* the one that runs at the start, after its startup
    Clusters,     \* Ray clusters that invite it
    None,         \* no value
    Ghost,        \* the instance_id of a process that is gone
    MaxEvents,    \* restarts, requests, Redis errors, failed ray commands and
                  \* crashes in one behaviour
    MaxInFlight   \* registry calls in flight when a request is accepted

VARIABLES
    st,       \* AgentState.state, "down" when the process does not run
    cluster,  \* AgentState.cluster_id
    hb,       \* where heartbeat_task is
    fails,    \* its consecutive_failures
    owner,    \* value of agent_owner:<node>
    ttl,      \* its remaining life, in heartbeat intervals
    ray,      \* head the local Ray is attached to
    rec,      \* the registry's record of the node
    jobs,     \* registry calls in flight
    events,   \* how many of those have happened
    clean     \* history: no ray command failed, no agent started beside a
              \* running Ray or a running agent

vars == <<st, cluster, hb, fails, owner, ttl, ray, rec, jobs, events, clean>>

OWNER_TTL == 3      \* _OWNER_TTL_SECONDS / _HEARTBEAT_INTERVAL
MAX_RETRIES == 3

NodeState == {"idle", "reserved", "joining", "joined", "draining", "offline"}

\* A record as get() returns it: "model" when NodeInfo.model_validate accepts it,
\* "raw" when it does not and the dict itself is returned. cjson writes the empty
\* gpu_list of an agent back as an object, which the model refuses.
Record == [state : NodeState, shape : {"model", "raw"}]

Ops == {"register", "beat", "join", "release", "drain", "offline"}
Job == [a : Agents \cup {None}, op : Ops, pc : {"sleep", "get", "set"}, snap : Record \cup {None}]

Up(a) == st[a] # "down"
Call(a, op, pc) == [a |-> a, op |-> op, pc |-> pc, snap |-> None]

\* NodeRegistry.register's SET
Registered == [state |-> "idle", shape |-> "model"]

Init ==
    /\ st = [a \in Agents |-> IF a = First THEN "idle" ELSE "down"]
    /\ cluster = [a \in Agents |-> None]
    /\ hb = [a \in Agents |-> IF a = First THEN "renew" ELSE "stopped"]
    /\ fails = [a \in Agents |-> 0]
    /\ owner = First /\ ttl = OWNER_TTL
    /\ ray = None
    /\ rec = Registered
    /\ jobs = {}
    /\ events = 0
    /\ clean = TRUE

Event(n) == events + n <= MaxEvents /\ events' = events + n

----
\* acquire_ownership: SET NX EX
TakeIfFree(a) ==
    /\ owner' = IF owner = None THEN a ELSE owner
    /\ ttl' = IF owner = None THEN OWNER_TTL ELSE ttl

\* _LUA_RENEW
Renew(a) ==
    /\ owner' = owner
    /\ ttl' = IF owner = a THEN OWNER_TTL ELSE ttl

\* _LUA_RELEASE
DropAny(a) == owner' = None /\ ttl' = 0
DropOwnership(a) ==
    /\ owner' = IF owner = a THEN None ELSE owner
    /\ ttl' = IF owner = a THEN 0 ELSE ttl

\* lifespan, startup: a failed acquire is only logged
Start(a) ==
    /\ ~Up(a)
    /\ Event(1)
    /\ TakeIfFree(a)
    /\ st' = [st EXCEPT ![a] = "idle"]
    /\ cluster' = [cluster EXCEPT ![a] = None]
    /\ fails' = [fails EXCEPT ![a] = 0]
    /\ jobs' = jobs \cup {Call(a, "register", "set")}
    /\ clean' = (clean /\ ray = None /\ \A b \in Agents : ~Up(b))
    /\ UNCHANGED <<hb, ray, rec>>

\* The process is gone: its handlers with it, and nobody else has its instance_id.
Gone(a) ==
    /\ st' = [st EXCEPT ![a] = "down"]
    /\ hb' = [hb EXCEPT ![a] = "stopped"]
    /\ jobs' = {j \in jobs : j.a # a}
    /\ UNCHANGED <<cluster, fails, ray, rec, clean>>

Abandoned(a) == owner' = (IF owner = a THEN Ghost ELSE owner) /\ UNCHANGED ttl

\* lifespan, shutdown: ownership is given back only in IDLE or RESERVED
Shutdown(a) ==
    /\ Up(a)
    /\ Call(a, "register", "set") \notin jobs
    /\ Gone(a)
    /\ IF st[a] \in {"idle", "reserved"} THEN DropOwnership(a) ELSE Abandoned(a)
    /\ UNCHANGED events

Crash(a) == Up(a) /\ Event(1) /\ Gone(a) /\ Abandoned(a)

----
\* heartbeat_task: renew, else acquire, else count the failure
BeatFailedForgiving(a) ==
    /\ fails' = [fails EXCEPT ![a] = 1]
    /\ hb' = [hb EXCEPT ![a] = "sleep"]
    /\ jobs' = jobs \cup {Call(a, "beat", "get")}
BeatFailed(a) ==
    /\ fails' = [fails EXCEPT ![a] = @ + 1]
    /\ IF fails[a] + 1 >= MAX_RETRIES
       THEN hb' = [hb EXCEPT ![a] = "stopped"] /\ UNCHANGED jobs
       ELSE hb' = [hb EXCEPT ![a] = "sleep"] /\ jobs' = jobs \cup {Call(a, "beat", "get")}

BeatOk(a) ==
    /\ fails' = [fails EXCEPT ![a] = 0]
    /\ hb' = [hb EXCEPT ![a] = "sleep"]
    /\ jobs' = jobs \cup {Call(a, "beat", "get")}

BeatRenew(a) ==
    /\ hb[a] = "renew"
    /\ Renew(a)
    /\ IF owner = a THEN BeatOk(a)
       ELSE hb' = [hb EXCEPT ![a] = "acquire"] /\ UNCHANGED <<fails, jobs>>
    /\ UNCHANGED <<st, cluster, ray, rec, events, clean>>

BeatAcquire(a) ==
    /\ hb[a] = "acquire"
    /\ TakeIfFree(a)
    /\ IF owner = None THEN BeatOk(a) ELSE BeatFailed(a)
    /\ UNCHANGED <<st, cluster, ray, rec, events, clean>>

\* any exception of the loop body: logged, and the loop sleeps
BeatError(a) ==
    /\ hb[a] \in {"renew", "acquire"}
    /\ Event(1)
    /\ hb' = [hb EXCEPT ![a] = "sleep"]
    /\ UNCHANGED <<st, cluster, fails, owner, ttl, ray, rec, jobs, clean>>

\* asyncio.sleep(interval) after the registry call has returned
Wake(a) ==
    /\ hb[a] = "sleep"
    /\ \A j \in jobs : ~(j.a = a /\ j.op = "beat")
    /\ hb' = [hb EXCEPT ![a] = "renew"]
    /\ UNCHANGED <<st, cluster, fails, owner, ttl, ray, rec, jobs, events, clean>>

\* one heartbeat interval of the owner key's life
TickKeepsOwner ==
    /\ ttl > 0
    /\ ttl' = ttl - 1
    /\ UNCHANGED <<st, cluster, hb, fails, owner, ray, rec, jobs, events, clean>>
Tick ==
    /\ ttl > 0
    /\ ttl' = ttl - 1
    /\ owner' = IF ttl = 1 THEN None ELSE owner
    /\ UNCHANGED <<st, cluster, hb, fails, ray, rec, jobs, events, clean>>

----
Served(a) == Up(a) /\ Call(a, "register", "set") \notin jobs
Free(a, op) == Cardinality(jobs) < MaxInFlight /\ \A j \in jobs : ~(j.a = a /\ j.op = op)

\* ray_start, as success and the Ray it leaves behind: it never looks at which
\* head a running Ray is attached to, and one that fails may leave a Ray running
RayStart(c) ==
    [ok : {TRUE}, ray : {IF ray = None THEN c ELSE ray}, bad : {FALSE}]
    \cup [ok : {FALSE}, ray : IF ray = None THEN {None, c} ELSE {ray}, bad : {TRUE}]

\* ray_stop
RayStop == [ray : {None}, bad : {FALSE}] \cup (IF ray = None THEN {} ELSE [ray : {ray}, bad : {TRUE}])

RayCall(r, cost) ==
    /\ ray' = r.ray
    /\ clean' = (clean /\ ~r.bad)
    /\ Event(cost + IF r.bad THEN 1 ELSE 0)

\* POST /invite
Accept(a, c) ==
    /\ Served(a) /\ Free(a, "join")
    /\ \E r \in RayStart(c) :
          /\ RayCall(r, 1)
          /\ st' = [st EXCEPT ![a] = IF r.ok THEN "joined" ELSE "idle"]
          /\ cluster' = [cluster EXCEPT ![a] = IF r.ok THEN c ELSE None]
          /\ jobs' = IF r.ok THEN jobs \cup {Call(a, "join", "get")} ELSE jobs
    /\ UNCHANGED <<hb, fails, owner, ttl, rec>>
Invite(a, c) == st[a] \in {"idle", "reserved"} /\ Accept(a, c)

\* ray_stop, IDLE, then mark_released
DoRelease(a, rest, cost) ==
    /\ \E r \in RayStop : RayCall(r, cost)
    /\ st' = [st EXCEPT ![a] = "idle"]
    /\ cluster' = [cluster EXCEPT ![a] = None]
    /\ jobs' = rest \cup {Call(a, "release", "get")}
    /\ UNCHANGED <<hb, fails, owner, ttl, rec>>

\* POST /release; a graceful one of a draining node first waits
Release(a) ==
    /\ Served(a) /\ Free(a, "release")
    /\ \/ DoRelease(a, jobs, 1)
       \/ /\ st[a] = "draining"
          /\ Event(1)
          /\ jobs' = jobs \cup {Call(a, "release", "sleep")}
          /\ UNCHANGED <<st, cluster, hb, fails, owner, ttl, ray, rec, clean>>

ReleaseWakes(a) ==
    /\ Call(a, "release", "sleep") \in jobs
    /\ DoRelease(a, jobs \ {Call(a, "release", "sleep")}, 0)

\* POST /drain
Drain(a) ==
    /\ Served(a) /\ Free(a, "drain")
    /\ st[a] = "joined"
    /\ Event(1)
    /\ st' = [st EXCEPT ![a] = "draining"]
    /\ jobs' = jobs \cup {Call(a, "drain", "get")}
    /\ UNCHANGED <<cluster, hb, fails, owner, ttl, ray, rec, clean>>

----
\* What a registry call does with the record it read: assigning to an item of a
\* model raises TypeError, so only a dict is changed and written back.
Reads(j) == rec.shape = "raw"

Written(j) ==
    CASE j.op = "register" -> Registered
      [] j.op = "beat"    -> [j.snap EXCEPT !.shape = "model"]
      [] j.op = "join"    -> [j.snap EXCEPT !.state = "joined"]
      [] j.op = "release" -> [j.snap EXCEPT !.state = "idle"]
      [] j.op = "drain"   -> [j.snap EXCEPT !.state = "draining"]
      [] j.op = "offline" -> [j.snap EXCEPT !.state = "offline"]

JobGet(j) ==
    /\ j.pc = "get"
    /\ jobs' = (jobs \ {j}) \cup (IF Reads(j) THEN {[j EXCEPT !.pc = "set", !.snap = rec]} ELSE {})
    /\ UNCHANGED <<st, cluster, hb, fails, owner, ttl, ray, rec, events, clean>>

JobSet(j) ==
    /\ j.pc = "set"
    /\ rec' = Written(j)
    /\ jobs' = jobs \ {j}
    /\ hb' = IF j.op = "register" THEN [hb EXCEPT ![j.a] = "renew"] ELSE hb
    /\ UNCHANGED <<st, cluster, fails, owner, ttl, ray, events, clean>>

\* a Redis error inside a registry call; one of register fails the startup
JobError(j) ==
    /\ j.pc # "sleep"
    /\ Event(1)
    /\ IF j.op = "register" THEN Gone(j.a) /\ Abandoned(j.a)
       ELSE jobs' = jobs \ {j} /\ UNCHANGED <<st, cluster, hb, fails, owner, ttl, ray, rec, clean>>

\* reserve_node: the Lua compare-and-set; the record goes through cjson
Reserve ==
    /\ rec.state = "idle"
    /\ Event(1)
    /\ rec' = [state |-> "reserved", shape |-> "raw"]
    /\ UNCHANGED <<st, cluster, hb, fails, owner, ttl, ray, jobs, clean>>

\* detect_dead_nodes finds the node silent for longer than its timeout
DetectDead ==
    /\ Free(None, "offline")
    /\ Event(1)
    /\ jobs' = jobs \cup {Call(None, "offline", "get")}
    /\ UNCHANGED <<st, cluster, hb, fails, owner, ttl, ray, rec, clean>>

----
Beat(a) == BeatRenew(a) \/ BeatAcquire(a) \/ Wake(a)
Next ==
    \/ \E a \in Agents :
          Start(a) \/ Shutdown(a) \/ Crash(a) \/ Beat(a) \/ BeatError(a)
          \/ Release(a) \/ ReleaseWakes(a) \/ Drain(a)
          \/ \E c \in Clusters : Invite(a, c)
    \/ \E j \in jobs : JobGet(j) \/ JobSet(j) \/ JobError(j)
    \/ Reserve
    \/ DetectDead
    \/ Tick

Spec == Init /\ [][Next]_vars

\* The event loop runs every ready heartbeat and registry call. Process starts
\* and stops, requests and the faults are the environment's.
JobStep(a) == \E j \in jobs : j.a = a /\ (JobGet(j) \/ JobSet(j))

TypeOK ==
    /\ st \in [Agents -> NodeState \cup {"down"}]
    /\ cluster \in [Agents -> Clusters \cup {None}]
    /\ hb \in [Agents -> {"renew", "acquire", "sleep", "stopped"}]
    /\ fails \in [Agents -> 0..MAX_RETRIES]
    /\ owner \in Agents \cup {None, Ghost} /\ ttl \in 0..OWNER_TTL
    /\ (owner = None) = (ttl = 0)
    /\ ray \in Clusters \cup {None}
    /\ rec \in Record
    /\ jobs \subseteq Job

\* With one agent process on the node and no failed ray command, the Ray of the
\* node is attached to the cluster its agent says it joined, and to none when the
\* agent is idle (invite, release and drain of agent/server.py).
RayFollowsAgent ==
    clean => \A a \in Agents : Up(a) => ray = cluster[a]

\* Ownership of a node leaves a running agent only when the agent gives it back or
\* its key expires: no renewal, acquisition or release of another process takes it
\* (the compare in _LUA_RENEW and _LUA_RELEASE, NX in acquire_ownership).
OwnershipNotStolen ==
    [][\A a \in Agents : (owner = a /\ owner' # a) => (ttl = 1 /\ Tick) \/ ~Up(a)']_vars

\* An agent whose heartbeat runs while another process holds the node does not go
\* on for ever: it gets the node, or its heartbeat stops (MAX_RETRIES in
\* heartbeat_task), or the process ends.
HeartbeatSettles(a) ==
    (hb[a] \in {"renew", "acquire"}) ~> (owner = a \/ hb[a] = "stopped")
====
