---- MODULE MCFleet ----
\* The parts that run the worker fleet, for TLC: node agents and registry, node
\* selection, the Redis wrapper, one actor pool, the scheduler actor and the
\* artifact cache.
\* They share no state here: a behaviour moves one of them, its focus.
EXTENDS Nodes, Workers

VARIABLE focus

agent == <<st, cluster, hb, fails, owner, ttl, ray, rec, jobs, events, clean>>
ha == <<state, failureCount, lastFailure, client, isConnected, queue, call, pos,
        failed, stored, acked, failures, late>>
pool == <<workers, handle, nextIndex, lock, resizer, live, pcall, replaced,
          failedCreate, pfaults>>
sched == <<active, alive, lookup, steady, pools, hash, pending, todo, dropping,
           named, sevents>>
fetch == <<entry, ready, pc, key, tmp, deployed, torn, faults>>
vars == <<focus, agent, ha, pool, sched, fetch>>

Init ==
    /\ focus \in {"agent", "ha", "pool", "sched", "fetch"}
    /\ Agent!Init /\ HA!Init /\ Pool!Init /\ Fetch!Init
    /\ Sched!Init
    /\ focus # "sched" => active = None /\ alive = {} /\ named

AgentStep == focus = "agent" /\ Agent!Next /\ UNCHANGED <<focus, ha, pool, sched, fetch>>
HAStep == focus = "ha" /\ HA!Next /\ UNCHANGED <<focus, agent, pool, sched, fetch>>
PoolStep == focus = "pool" /\ Pool!Next /\ UNCHANGED <<focus, agent, ha, sched, fetch>>
SchedStep == focus = "sched" /\ Sched!Next /\ UNCHANGED <<focus, agent, ha, pool, fetch>>
FetchStep == focus = "fetch" /\ Fetch!Next /\ UNCHANGED <<focus, agent, ha, pool, sched>>

Next == AgentStep \/ HAStep \/ PoolStep \/ SchedStep \/ FetchStep

\* The event loops run what is ready, callers come back to Redis, time passes.
Fairness ==
    /\ \A a \in Agents :
         WF_vars(/\ focus = "agent"
                 /\ (Agent!Beat(a) \/ Agent!JobStep(a))
                 /\ UNCHANGED <<focus, ha, pool, sched, fetch>>)
    /\ WF_vars(/\ focus = "ha"
               /\ HA!Progress
               /\ UNCHANGED <<focus, agent, pool, sched, fetch>>)
    /\ WF_vars(/\ focus = "pool"
               /\ \E c \in Callers : Pool!CallStep(c)
               /\ UNCHANGED <<focus, agent, ha, sched, fetch>>)

Spec == Init /\ [][Next]_vars /\ Fairness

----
\* The types of the five parts.
TypeOK == NodesTypeOK /\ WorkersTypeOK

\* A heartbeat (that of an agent which starts beside the first) gets the node or
\* stops, an open breaker recovers unless a late success froze it, and a call on a
\* faulty worker ends (the calls are alike).
FleetProgress ==
    /\ focus = "agent" => Agent!HeartbeatSettles(CHOOSE a \in Agents : a # First)
    /\ focus = "ha" => HA!BreakerRecovers
    /\ focus = "pool" => Pool!CallsEnd(CHOOSE c \in Callers : TRUE)

=============================================================================
