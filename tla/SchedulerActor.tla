---- MODULE SchedulerActor ----
\* Finding and using a cluster's SchedulerActor (src/workload/scheduler_actor.py):
\* get_scheduler_actor of several callers, and the pools of one actor through
\* registration, restart and recovery from the Redis hash.
EXTENDS Integers, FiniteSets

CONSTANTS Callers, Releases, Caps, None,
          MaxEvents   \* switches of the active release, deaths and restarts

VARIABLES
    active,   \* scheduler:active:<cluster>
    alive,    \* releases whose named actor is alive
    lookup,   \* per caller of get_scheduler_actor
    steady,   \* history: the release active when the caller read the key has
              \* been active and alive until now
    pools,    \* _pools: "none", a "local" pool, or the actor found by "name"
    hash,     \* capabilities in scheduler:<name>:pools
    pending,  \* register_pool calls between the dict and the hset
    todo,     \* _recover_pools_from_redis: capabilities it still has to look at
    dropping, \* the capability whose hdel is on its way
    named,    \* an actor carries the name the hash stores (the pool's class name)
    events

vars == <<active, alive, lookup, steady, pools, hash, pending, todo, dropping, named, events>>
lookupVars == <<active, alive, lookup, steady>>
poolVars == <<pools, hash, pending, todo, dropping, named>>

Init ==
    /\ active \in Releases \cup {None}
    /\ alive \in SUBSET Releases
    /\ lookup = [c \in Callers |-> [pc |-> "idle", want |-> None, got |-> None]]
    /\ steady = [c \in Callers |-> TRUE]
    /\ pools = [k \in Caps |-> "none"]
    /\ hash = {} /\ pending = {} /\ todo = {} /\ dropping = {}
    /\ named \in BOOLEAN
    /\ events = 0

Event == events < MaxEvents /\ events' = events + 1
Goes(c, f) == lookup' = [lookup EXCEPT ![c] = f]

\* the active version, if the key names one and Ray has it; a failed read is ignored
ReadActive(c, r) ==
    /\ lookup[c].pc = "idle"
    /\ Goes(c, [pc |-> IF active = None THEN "requested" ELSE "active", want |-> r, got |-> active])
    /\ steady' = [steady EXCEPT ![c] = active \in alive]
    /\ UNCHANGED <<active, alive, poolVars, events>>
ReadFails(c, r) ==
    /\ lookup[c].pc = "idle"
    /\ Event
    /\ Goes(c, [pc |-> "requested", want |-> r, got |-> None])
    /\ steady' = [steady EXCEPT ![c] = FALSE]
    /\ UNCHANGED <<active, alive, poolVars>>
TryActiveIgnored(c) ==
    /\ lookup[c].pc = "active"
    /\ Goes(c, [lookup[c] EXCEPT !.pc = "requested"])
    /\ UNCHANGED <<active, alive, steady, poolVars, events>>
TryActive(c) ==
    /\ lookup[c].pc = "active"
    /\ Goes(c, [lookup[c] EXCEPT !.pc = IF lookup[c].got \in alive THEN "done" ELSE "requested"])
    /\ UNCHANGED <<active, alive, steady, poolVars, events>>

\* the requested release, else create it; Ray refuses a second actor of a name
TryRequested(c) ==
    /\ lookup[c].pc = "requested"
    /\ Goes(c, IF lookup[c].want \in alive
               THEN [lookup[c] EXCEPT !.pc = "done", !.got = lookup[c].want]
               ELSE [lookup[c] EXCEPT !.pc = "create"])
    /\ UNCHANGED <<active, alive, steady, poolVars, events>>
CreateActor(c) ==
    /\ lookup[c].pc = "create"
    /\ alive' = alive \cup {lookup[c].want}
    /\ Goes(c, IF lookup[c].want \in alive
               THEN [lookup[c] EXCEPT !.pc = "failed"]
               ELSE [lookup[c] EXCEPT !.pc = "done", !.got = lookup[c].want])
    /\ UNCHANGED <<active, steady, poolVars, events>>

Switch(r) ==
    /\ active # r
    /\ Event
    /\ active' = r
    /\ steady' = [c \in Callers |-> FALSE]
    /\ UNCHANGED <<alive, lookup, poolVars>>
ActorDies(r) ==
    /\ r \in alive
    /\ Event
    /\ alive' = alive \ {r}
    /\ steady' = [c \in Callers |-> steady[c] /\ active # r]
    /\ UNCHANGED <<active, lookup, poolVars>>

----
\* register_pool: the dict, then the hash
RegisterPool(k) ==
    /\ k \notin pending /\ pools[k] # "local"
    /\ pools' = [pools EXCEPT ![k] = "local"]
    /\ pending' = pending \cup {k}
    /\ UNCHANGED <<lookupVars, hash, todo, dropping, named, events>>
RegisterStored(k) ==
    /\ k \in pending
    /\ hash' = hash \cup {k}
    /\ pending' = pending \ {k}
    /\ UNCHANGED <<lookupVars, pools, todo, dropping, named, events>>

\* _recover_pools_from_redis: one hgetall, then each capability in turn
Recover ==
    /\ todo = {} /\ dropping = {}
    /\ hash # {}
    /\ todo' = hash
    /\ UNCHANGED <<lookupVars, pools, hash, pending, dropping, named, events>>
RecoverOneAnyway(k) ==
    /\ k \in todo /\ dropping = {}
    /\ todo' = todo \ {k}
    /\ IF named THEN pools' = [pools EXCEPT ![k] = "name"] /\ UNCHANGED dropping
       ELSE UNCHANGED pools /\ dropping' = {k}
    /\ UNCHANGED <<lookupVars, hash, pending, named, events>>
RecoverOne(k) ==
    /\ k \in todo /\ dropping = {}
    /\ todo' = todo \ {k}
    /\ CASE pools[k] # "none" -> UNCHANGED <<pools, dropping>>
         [] pools[k] = "none" /\ named -> pools' = [pools EXCEPT ![k] = "name"] /\ UNCHANGED dropping
         [] pools[k] = "none" /\ ~named -> UNCHANGED pools /\ dropping' = {k}
    /\ UNCHANGED <<lookupVars, hash, pending, named, events>>
DropEntry(k) ==
    /\ k \in dropping
    /\ hash' = hash \ {k}
    /\ dropping' = {}
    /\ UNCHANGED <<lookupVars, pools, pending, todo, named, events>>

Restart ==
    /\ Event
    /\ pools' = [k \in Caps |-> "none"]
    /\ pending' = {} /\ todo' = {} /\ dropping' = {}
    /\ UNCHANGED <<lookupVars, hash, named>>

Next ==
    \/ \E c \in Callers : \/ \E r \in Releases : ReadActive(c, r) \/ ReadFails(c, r)
                          \/ TryActive(c) \/ TryRequested(c) \/ CreateActor(c)
    \/ \E r \in Releases : Switch(r) \/ ActorDies(r)
    \/ \E k \in Caps : RegisterPool(k) \/ RegisterStored(k) \/ RecoverOne(k) \/ DropEntry(k)
    \/ Recover \/ Restart

Spec == Init /\ [][Next]_vars

TypeOK ==
    /\ active \in Releases \cup {None} /\ alive \subseteq Releases
    /\ pools \in [Caps -> {"none", "local", "name"}]
    /\ hash \subseteq Caps /\ pending \subseteq Caps /\ todo \subseteq Caps /\ dropping \subseteq Caps

\* A caller whose cluster keeps one live active release all through its lookup
\* gets that release, whatever it asked for and however many callers create
\* theirs meanwhile (the order of the three attempts in get_scheduler_actor).
ActiveServes ==
    \A c \in Callers : lookup[c].pc = "done" /\ steady[c] => lookup[c].got = active

\* Recovery, whose list of capabilities may be old, never replaces a pool that was
\* registered while it ran.
RegisteredKept ==
    [][\A k \in Caps : pools[k] = "local" => pools'[k] = "local" \/ events' # events]_vars
====
