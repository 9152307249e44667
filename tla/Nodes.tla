---- MODULE Nodes ----
\* The parts of a node: its agent and the registry, the Redis wrapper its
\* coroutines share, and the scheduler actor that finds its pools. They share no
\* state. Each has its own inductive invariant, proved for every value of the
\* constants the assumptions allow: any number of agents, clusters, callers and
\* releases.
EXTENDS Integers, Sequences, FiniteSets, TLAPS

CONSTANTS
    Agents, First, Clusters, None, Ghost,      \* NodeAgent
    AgentEvents, MaxInFlight,
    Calls, Loop, MaxRetries, Threshold,        \* RedisHA
    ResetTimeout, MaxFailures,
    Releases, Caps, SchedEvents                \* SchedulerActor

VARIABLES
    st, cluster, hb, fails, owner, ttl, ray, rec, jobs, events, clean,
    state, failureCount, lastFailure, client, isConnected, queue, call, pos,
    failed, stored, acked, failures, late,
    active, alive, lookup, steady, pools, hash, pending, todo, dropping, named,
    sevents

----
HA == INSTANCE RedisHA

\* max_retries, the threshold and the timeout are non-negative settings.
ASSUME HAAssumption ==
    /\ Loop \notin Calls
    /\ MaxRetries \in Nat /\ Threshold \in Nat /\ ResetTimeout \in Nat

\* RedisHA: no acknowledged write is lost.
AcknowledgedNotLost == HA!AcknowledgedNotLost

\* RedisHA. A coroutine that runs a write has its own key as the item; the retry
\* loop's item is the queue entry it is at.
HACalls ==
    /\ call \in [Calls \cup {Loop} -> [op : {"none", "write", "read"}, item : Calls \cup {Loop},
                                       attempt : Nat]]
    /\ \A c \in Calls : call[c].op = "write" => call[c].item \in Calls
    /\ call[Loop] # HA!Idle =>
          /\ call[Loop].op = "write"
          /\ pos \in 1..Len(queue) /\ call[Loop].item = queue[pos]
    /\ pos = 0 => failed = <<>>

HAInv ==
    /\ HA!TypeOK
    /\ HACalls
    /\ HA!AcknowledgedNotLost

LEMMA HAInit == HA!Init => HAInv
  BY HAAssumption DEF HA!Init, HAInv, HA!TypeOK, HACalls, HA!AcknowledgedNotLost, HA!Idle

LEMMA HANext == HAInv /\ [HA!Next]_(HA!vars) => HAInv'
<1> SUFFICES ASSUME HAInv, [HA!Next]_(HA!vars) PROVE HAInv'
  OBVIOUS
<1> USE HAAssumption DEF HAInv
<1>0. \A c \in Calls \cup {Loop} : HA!Writes(c) => call[c].item \in Calls
  BY DEF HA!TypeOK, HACalls, HA!Writes, HA!Idle
<1>1. ASSUME NEW c \in Calls, HA!Enter(c) PROVE HAInv'
  <2>1. HA!TypeOK'
    BY <1>1, Zenon DEF HA!TypeOK, HA!Enter, HA!Begun, HA!Refused
  <2>2. HACalls'
    BY <1>1, SMTT(30) DEF HA!TypeOK, HACalls, HA!Enter, HA!Begun, HA!Refused, HA!Idle
  <2>3. HA!AcknowledgedNotLost'
    BY <1>1, Zenon DEF HA!AcknowledgedNotLost, HA!Enter, HA!Begun, HA!Refused
  <2>4. QED BY <2>1, <2>2, <2>3, Zenon
<1>2. ASSUME NEW c \in Calls \cup {Loop}, HA!AttemptOk(c) PROVE HAInv'
  <2>1. HA!TypeOK'
    BY <1>2
       DEF HA!TypeOK, HACalls, HA!AttemptOk, HA!RecordSuccess, HA!Returns,
           HA!LoopReturns, HA!Writes
  <2>2. HACalls'
    BY <1>2 DEF HA!TypeOK, HACalls, HA!AttemptOk, HA!Returns, HA!LoopReturns, HA!Idle
  <2>3. HA!AcknowledgedNotLost'
    BY <1>2
       DEF HA!TypeOK, HACalls, HA!AcknowledgedNotLost, HA!AttemptOk, HA!Returns,
           HA!LoopReturns, HA!Writes
  <2>4. QED BY <2>1, <2>2, <2>3, Zenon
<1>3. ASSUME NEW c \in Calls \cup {Loop}, HA!AttemptFails(c) PROVE HAInv'
  <2>1. HA!TypeOK'
    <3>1. stored' \subseteq Calls
      BY <1>0, <1>3 DEF HA!TypeOK, HA!AttemptFails, HA!MayApply
    <3>2. QED
      BY <1>3, <3>1 DEF HA!TypeOK, HA!AttemptFails, HA!RecordFailure
  <2>2. HACalls'
    <3>1. call' = [call EXCEPT ![c] = [call[c] EXCEPT !.attempt = @ + 1]]
      BY <1>3, Zenon DEF HA!AttemptFails, HACalls
    <3>2. pos' = pos /\ queue' = queue /\ failed' = failed /\ call[c] # HA!Idle
      BY <1>3, Zenon DEF HA!AttemptFails
    <3>3. QED
      BY <3>1, <3>2 DEF HACalls
  <2>3. HA!AcknowledgedNotLost'
    BY <1>3, Zenon DEF HA!AcknowledgedNotLost, HA!AttemptFails, HA!MayApply
  <2>4. QED BY <2>1, <2>2, <2>3, Zenon
<1>4. ASSUME NEW c \in Calls \cup {Loop}, HA!LastAttemptFails(c) PROVE HAInv'
  <2>a. queue' \in Seq(Calls) /\ Len(queue') >= Len(queue) /\ \A i \in 1..Len(queue) : queue'[i] = queue[i]
    BY <1>0, <1>4 DEF HA!TypeOK, HA!LastAttemptFails, HA!QueueWrite
  <2>1. HA!TypeOK'
    BY <1>0, <1>4, <2>a, SMTT(30)
       DEF HA!TypeOK, HACalls, HA!LastAttemptFails, HA!RecordFailure, HA!MayApply,
       HA!Returns, HA!LoopReturns, HA!Writes
  <2>2. HACalls'
    BY <1>4, <2>a
       DEF HA!TypeOK, HACalls, HA!LastAttemptFails, HA!Returns, HA!LoopReturns, HA!Idle
  <2>3. HA!AcknowledgedNotLost'
    <3>1. stored \subseteq stored' /\ failed' = failed
      BY <1>4, Zenon DEF HA!TypeOK, HACalls, HA!LastAttemptFails, HA!MayApply,
         HA!Returns, HA!LoopReturns, HA!Writes
    <3>2. acked' = IF HA!Writes(c) THEN acked \cup {call[c].item} ELSE acked
      BY <1>4, Zenon DEF HA!LastAttemptFails, HA!Returns, HA!Writes
    <3>3. HA!Writes(c) => Len(queue') = Len(queue) + 1 /\ queue'[Len(queue')] = call[c].item
      BY <1>0, <1>4 DEF HA!TypeOK, HA!LastAttemptFails, HA!QueueWrite
    <3>4. pos' <= Len(queue) + 1 /\ pos' \in Nat /\ (c # Loop => pos' = pos)
      BY <1>4 DEF HA!TypeOK, HACalls, HA!LastAttemptFails, HA!Returns, HA!LoopReturns
    <3>5. c = Loop => HA!Writes(c) /\ call[c].item = queue[pos] /\ pos' = pos + 1
      BY <1>4, Zenon DEF HACalls, HA!LastAttemptFails, HA!Returns, HA!LoopReturns, HA!Writes
    <3>6. ASSUME NEW d \in acked'
          PROVE  \/ d \in stored'
                 \/ \E i \in 1..Len(queue') : i >= pos' /\ queue'[i] = d
                 \/ \E i \in 1..Len(failed') : failed'[i] = d
      <4>1. CASE HA!Writes(c) /\ d = call[c].item
        BY <2>a, <3>3, <3>4, <4>1 DEF HA!TypeOK
      <4>2. CASE d \in acked /\ ~(HA!Writes(c) /\ d = call[c].item)
        <5>1. CASE d \in stored BY <3>1, <5>1, Zenon
        <5>2. ASSUME NEW i \in 1..Len(queue), i >= pos, queue[i] = d
              PROVE  \E k \in 1..Len(queue') : k >= pos' /\ queue'[k] = d
          <6>1. i \in 1..Len(queue') /\ queue'[i] = d
            BY <2>a, <5>2 DEF HA!TypeOK
          <6>2. i >= pos'
            BY <3>4, <3>5, <4>2, <5>2 DEF HA!TypeOK
          <6>3. QED BY <6>1, <6>2, Zenon
        <5>3. ASSUME NEW i \in 1..Len(failed), failed[i] = d
              PROVE  \E k \in 1..Len(failed') : failed'[k] = d
          BY <3>1, <5>3, Zenon
        <5>4. QED BY <4>2, <5>1, <5>2, <5>3, Zenon DEF HA!AcknowledgedNotLost
      <4>3. QED BY <3>2, <3>6, <4>1, <4>2, Zenon
    <3>7. QED BY <3>6, Zenon DEF HA!AcknowledgedNotLost
  <2>4. QED BY <2>1, <2>2, <2>3, Zenon
<1>5. CASE HA!LoopStarts
  <2>1. HA!TypeOK' /\ HACalls'
    BY <1>5 DEF HA!TypeOK, HACalls, HA!LoopStarts, HA!breaker
  <2>2. HA!AcknowledgedNotLost'
    BY <1>5 DEF HA!TypeOK, HACalls, HA!AcknowledgedNotLost, HA!LoopStarts
  <2>3. QED BY <2>1, <2>2, Zenon
<1>6. CASE HA!LoopItem
  <2>1. CASE HA!Begun(Loop, "write", queue[pos]) /\ UNCHANGED <<pos, failed>>
    BY <1>6, <2>1 DEF HA!TypeOK, HACalls, HA!AcknowledgedNotLost, HA!LoopItem, HA!Begun
  <2>2. CASE HA!Refused /\ HA!LoopReturns(FALSE) /\ UNCHANGED call
    <3>1. /\ pos \in 1..Len(queue) /\ pos' = pos + 1 /\ queue' = queue
          /\ acked' = acked /\ stored' = stored
          /\ failed' \in Seq(Calls) /\ Len(failed') = Len(failed) + 1
          /\ failed'[Len(failed')] = queue[pos]
          /\ \A i \in 1..Len(failed) : failed'[i] = failed[i]
      BY <1>6, <2>2 DEF HA!TypeOK, HA!LoopItem, HA!Refused, HA!LoopReturns
    <3>2. HA!TypeOK' /\ HACalls'
      BY <1>6, <2>2, <3>1 DEF HA!TypeOK, HACalls, HA!LoopItem, HA!Refused
    <3>3. ASSUME NEW d \in acked
          PROVE  \/ d \in stored
                 \/ \E i \in 1..Len(queue) : i >= pos + 1 /\ queue[i] = d
                 \/ \E i \in 1..Len(failed') : failed'[i] = d
      <4>1. ASSUME NEW i \in 1..Len(queue), i >= pos, queue[i] = d
            PROVE  \/ \E k \in 1..Len(queue) : k >= pos + 1 /\ queue[k] = d
                   \/ \E k \in 1..Len(failed') : failed'[k] = d
        <5>1. CASE i = pos
          BY <3>1, <4>1, <5>1 DEF HA!TypeOK
        <5>2. CASE i # pos
          BY <4>1, <5>2 DEF HA!TypeOK
        <5>3. QED BY <5>1, <5>2, Zenon
      <4>2. ASSUME NEW i \in 1..Len(failed), failed[i] = d
            PROVE  \E k \in 1..Len(failed') : failed'[k] = d
        BY <3>1, <4>2 DEF HA!TypeOK
      <4>3. QED BY <4>1, <4>2, Zenon DEF HA!AcknowledgedNotLost
    <3>4. HA!AcknowledgedNotLost'
      BY <3>1, <3>3, Zenon DEF HA!AcknowledgedNotLost
    <3>5. QED BY <3>2, <3>4, Zenon
  <2>3. QED BY <1>6, <2>1, <2>2, Zenon DEF HA!LoopItem
<1>7. CASE HA!LoopEnds
  BY <1>7 DEF HA!TypeOK, HACalls, HA!AcknowledgedNotLost, HA!LoopEnds, HA!breaker
<1>8. CASE HA!StartOk
  BY <1>8 DEF HA!TypeOK, HACalls, HA!AcknowledgedNotLost, HA!StartOk, HA!RecordSuccess
<1>9. CASE HA!StartFails
  BY <1>9 DEF HA!TypeOK, HACalls, HA!AcknowledgedNotLost, HA!StartFails, HA!RecordFailure
<1>10. CASE HA!Close
  BY <1>10, Zenon DEF HA!TypeOK, HACalls, HA!AcknowledgedNotLost, HA!Close, HA!breaker
<1>11. CASE HA!Tick
  BY <1>11 DEF HA!TypeOK, HACalls, HA!AcknowledgedNotLost, HA!Tick
<1>12. CASE UNCHANGED HA!vars
  BY <1>12, Zenon DEF HA!TypeOK, HACalls, HA!AcknowledgedNotLost, HA!vars, HA!breaker
<1>13. QED
  BY <1>1, <1>2, <1>3, <1>4, <1>5, <1>6, <1>7, <1>8, <1>9, <1>10, <1>11, <1>12, Zenon
     DEF HA!Next, HA!Attempt

\* RedisHA: a write whose caller was told it succeeded is in Redis, in the
\* degradation queue or with the loop that retries it (_call_with_retry,
\* retry_degraded_operations), for any number of callers and any settings.
THEOREM WritesNotLost == HA!Spec => []AcknowledgedNotLost
<1>1. HAInv => AcknowledgedNotLost
  BY Zenon DEF HAInv, AcknowledgedNotLost
<1>2. QED
  BY HAInit, HANext, <1>1, PTL DEF HA!Spec


----
Agent == INSTANCE NodeAgent WITH MaxEvents <- AgentEvents

\* None and Ghost are no process's instance_id, and None is no cluster.
ASSUME AgentAssumption ==
    /\ First \in Agents
    /\ {None, Ghost} \cap Agents = {} /\ None # Ghost
    /\ None \notin Clusters

\* NodeAgent. A registry call in flight belongs to a running process (or to the
\* dead-node detector), a startup's register call is the process's only activity,
\* and a heartbeat that still runs has failed fewer than MAX_RETRIES times.
AgentJobs ==
    /\ \A j \in jobs : j.a \in Agents => Agent!Up(j.a)
    /\ \A j \in jobs : j.op = "register" =>
          /\ j.a \in Agents /\ j = Agent!Call(j.a, "register", "set")
          /\ hb[j.a] = "stopped" /\ fails[j.a] = 0
    /\ \A j \in jobs : j.op # "register" /\ j.pc = "set" => j.snap \in Agent!Record

AgentBeats ==
    \A a \in Agents : /\ ~Agent!Up(a) => hb[a] = "stopped"
                      /\ hb[a] # "stopped" => fails[a] < Agent!MAX_RETRIES

\* An agent that has joined nothing names no cluster; in a clean history at most
\* one process runs, and Ray is where it says.
AgentRay ==
    /\ \A a \in Agents : st[a] \in {"idle", "reserved"} => cluster[a] = None
    /\ clean \in BOOLEAN
    /\ clean => \A a, b \in Agents : Agent!Up(a) /\ Agent!Up(b) => a = b
    /\ Agent!RayFollowsAgent

AgentInv == Agent!TypeOK /\ AgentJobs /\ AgentBeats /\ AgentRay

LEMMA AgentInit == Agent!Init => AgentInv
<1> SUFFICES ASSUME Agent!Init PROVE AgentInv
  OBVIOUS
<1> USE AgentAssumption DEF Agent!Init
<1>1. Agent!TypeOK
  BY
     DEF Agent!TypeOK, Agent!NodeState, Agent!Record, Agent!Registered, Agent!OWNER_TTL,
         Agent!MAX_RETRIES
<1>2. AgentJobs /\ AgentBeats
  BY DEF AgentJobs, AgentBeats, Agent!Up, Agent!MAX_RETRIES
<1>3. AgentRay
  BY Zenon DEF AgentRay, Agent!RayFollowsAgent, Agent!Up
<1>4. QED BY <1>1, <1>2, <1>3, Zenon DEF AgentInv

\* A process that is gone leaves the invariant, whatever becomes of its ownership.
LEMMA AgentGone ==
    ASSUME AgentInv, NEW a \in Agents, Agent!Gone(a),
           owner' \in Agents \cup {None, Ghost}, ttl' \in 0..Agent!OWNER_TTL,
           (owner' = None) = (ttl' = 0)
    PROVE  AgentInv'
<1> USE DEF Agent!Gone
<1>1. Agent!TypeOK'
  BY Zenon DEF AgentInv, Agent!TypeOK
<1>2. AgentJobs'
  BY Zenon DEF AgentInv, Agent!TypeOK, AgentJobs, Agent!Up
<1>3. AgentBeats'
  BY Zenon DEF AgentInv, Agent!TypeOK, AgentBeats, Agent!Up
<1>4. AgentRay'
  BY Zenon DEF AgentInv, Agent!TypeOK, AgentRay, Agent!RayFollowsAgent, Agent!Up
<1>5. QED BY <1>1, <1>2, <1>3, <1>4, Zenon DEF AgentInv

LEMMA AgentAbandons ==
    ASSUME AgentInv, NEW a \in Agents, Agent!Gone(a), Agent!Abandoned(a)
    PROVE  AgentInv'
<1>1. /\ owner' \in Agents \cup {None, Ghost} /\ ttl' \in 0..Agent!OWNER_TTL
      /\ (owner' = None) = (ttl' = 0)
  BY AgentAssumption, Zenon DEF AgentInv, Agent!TypeOK, Agent!Abandoned
<1>2. QED BY <1>1, AgentGone, Zenon

\* Adding a registry call of a running process that starts with its read.
LEMMA AgentAddsJob ==
    ASSUME AgentInv, NEW a, NEW op \in {"beat", "join", "release", "drain", "offline"},
           NEW pc2 \in {"get", "sleep"}, a \in Agents \/ a = None
    PROVE  /\ Agent!Call(a, op, pc2) \in Agent!Job
           /\ Agent!Call(a, op, pc2).a = a /\ Agent!Call(a, op, pc2).op = op
           /\ Agent!Call(a, op, pc2).pc = pc2
  BY Zenon DEF Agent!Call, Agent!Job, Agent!Ops

LEMMA AgentNext == AgentInv /\ [Agent!Next]_(Agent!vars) => AgentInv'
<1> SUFFICES ASSUME AgentInv, [Agent!Next]_(Agent!vars) PROVE AgentInv'
  OBVIOUS
<1> USE AgentAssumption
<1> USE DEF Agent!MAX_RETRIES, Agent!OWNER_TTL
<1>1. ASSUME NEW a \in Agents, Agent!Start(a) PROVE AgentInv'
  <2>1. Agent!TypeOK'
    BY <1>1
       DEF AgentInv, Agent!TypeOK, Agent!Start, Agent!TakeIfFree, Agent!Call, Agent!Job,
           Agent!Ops,
       Agent!NodeState
  <2>2. hb[a] = "stopped" /\ \A j \in jobs : j.a # a
    BY <1>1, Zenon DEF AgentInv, AgentJobs, AgentBeats, Agent!Start
  <2>3. AgentJobs'
    BY <1>1, <2>2 DEF AgentInv, Agent!TypeOK, AgentJobs, Agent!Start, Agent!Up, Agent!Call
  <2>4. AgentBeats'
    BY <1>1, <2>2, Zenon DEF AgentInv, Agent!TypeOK, AgentBeats, Agent!Start, Agent!Up
  <2>5. AgentRay'
    BY <1>1, Zenon
       DEF AgentInv, Agent!TypeOK, AgentRay, Agent!RayFollowsAgent, Agent!Start, Agent!Up
  <2>6. QED BY <2>1, <2>3, <2>4, <2>5, Zenon DEF AgentInv
<1>2. ASSUME NEW a \in Agents, Agent!Shutdown(a) PROVE AgentInv'
  <2>1. CASE st[a] \in {"idle", "reserved"}
    <3>1. /\ owner' \in Agents \cup {None, Ghost} /\ ttl' \in 0..Agent!OWNER_TTL
          /\ (owner' = None) = (ttl' = 0)
      BY <1>2, <2>1 DEF AgentInv, Agent!TypeOK, Agent!Shutdown, Agent!DropOwnership
    <3>2. QED BY <1>2, <3>1, AgentGone, Zenon DEF Agent!Shutdown
  <2>2. CASE st[a] \notin {"idle", "reserved"}
    BY <1>2, <2>2, AgentAbandons, Zenon DEF Agent!Shutdown
  <2>3. QED BY <2>1, <2>2, Zenon
<1>3. ASSUME NEW a \in Agents, Agent!Crash(a) PROVE AgentInv'
  BY <1>3, AgentAbandons, Zenon DEF Agent!Crash
<1>4. ASSUME NEW a \in Agents, hb[a] # "stopped", UNCHANGED <<st, cluster, ray, rec, clean>>,
             Agent!BeatOk(a) \/ Agent!BeatFailed(a),
             owner' \in Agents \cup {None, Ghost}, ttl' \in 0..Agent!OWNER_TTL,
             (owner' = None) = (ttl' = 0)
      PROVE AgentInv'
  <2>1. Agent!Call(a, "beat", "get") \in Agent!Job
    BY Zenon DEF Agent!Call, Agent!Job, Agent!Ops
  <2>2. fails[a] \in 0..2 /\ Agent!Up(a) /\ \A j \in jobs : j.op = "register" => j.a # a
    BY <1>4 DEF AgentInv, AgentBeats, AgentJobs, Agent!TypeOK
  <2>3. Agent!TypeOK'
    BY <1>4, <2>1, <2>2 DEF AgentInv, Agent!TypeOK, Agent!BeatOk, Agent!BeatFailed
  <2>4. AgentJobs'
    BY <1>4, <2>2
       DEF AgentInv, Agent!TypeOK, AgentJobs, Agent!BeatOk, Agent!BeatFailed, Agent!Call,
           Agent!Up
  <2>5. AgentBeats'
    BY <1>4, <2>2
       DEF AgentInv, Agent!TypeOK, AgentBeats, Agent!BeatOk, Agent!BeatFailed, Agent!Up
  <2>6. AgentRay'
    BY <1>4, Zenon DEF AgentInv, AgentRay, Agent!RayFollowsAgent, Agent!Up
  <2>7. QED BY <2>3, <2>4, <2>5, <2>6, Zenon DEF AgentInv
<1>5. ASSUME NEW a \in Agents, Agent!BeatRenew(a) PROVE AgentInv'
  <2>1. CASE owner = a
    BY <1>4, <1>5, <2>1 DEF Agent!BeatRenew, Agent!Renew, AgentInv, Agent!TypeOK
  <2>2. CASE owner # a
    BY <1>5, <2>2, Zenon
       DEF Agent!BeatRenew, Agent!Renew, AgentInv, Agent!TypeOK, AgentJobs, AgentBeats,
       AgentRay, Agent!RayFollowsAgent, Agent!Up
  <2>3. QED BY <2>1, <2>2, Zenon
<1>6. ASSUME NEW a \in Agents, Agent!BeatAcquire(a) PROVE AgentInv'
  <2>1. /\ owner' \in Agents \cup {None, Ghost} /\ ttl' \in 0..Agent!OWNER_TTL
        /\ (owner' = None) = (ttl' = 0)
    BY <1>6 DEF Agent!BeatAcquire, Agent!TakeIfFree, AgentInv, Agent!TypeOK
  <2>2. QED BY <1>4, <1>6, <2>1, Zenon DEF Agent!BeatAcquire
<1>7. ASSUME NEW a \in Agents, Agent!Wake(a) \/ Agent!BeatError(a) PROVE AgentInv'
  <2>1. /\ hb[a] # "stopped" /\ \E v \in {"renew", "sleep"} : hb' = [hb EXCEPT ![a] = v]
        /\ UNCHANGED <<st, cluster, fails, owner, ttl, ray, rec, jobs, clean>>
    BY <1>7, Zenon DEF Agent!Wake, Agent!BeatError
  <2>2. Agent!TypeOK' /\ AgentBeats' /\ AgentRay'
    BY <2>1, Zenon
       DEF AgentInv, Agent!TypeOK, AgentBeats, AgentRay, Agent!RayFollowsAgent, Agent!Up
  <2>3. AgentJobs'
    BY <2>1, Zenon DEF AgentInv, Agent!TypeOK, AgentJobs, Agent!Up
  <2>4. QED BY <2>2, <2>3, Zenon DEF AgentInv
<1>8. CASE Agent!Tick
  BY <1>8
     DEF AgentInv, Agent!TypeOK, AgentJobs, AgentBeats, AgentRay, Agent!RayFollowsAgent,
         Agent!Up, Agent!Tick
<1>9. ASSUME NEW a \in Agents, NEW c \in Clusters, Agent!Invite(a, c) PROVE AgentInv'
  <2>1. PICK r \in Agent!RayStart(c) :
            /\ Agent!RayCall(r, 1)
            /\ st' = [st EXCEPT ![a] = IF r.ok THEN "joined" ELSE "idle"]
            /\ cluster' = [cluster EXCEPT ![a] = IF r.ok THEN c ELSE None]
            /\ jobs' = IF r.ok THEN jobs \cup {Agent!Call(a, "join", "get")} ELSE jobs
    BY <1>9, Zenon DEF Agent!Invite, Agent!Accept
  <2>2. /\ Agent!Up(a) /\ st[a] \in {"idle", "reserved"}
        /\ UNCHANGED <<hb, fails, owner, ttl, rec>>
    BY <1>9, Zenon DEF Agent!Invite, Agent!Accept, Agent!Served
  <2>3. /\ r.ok \in BOOLEAN /\ r.bad \in BOOLEAN /\ r.ray \in Clusters \cup {None}
        /\ ~r.bad => r.ok /\ r.ray = IF ray = None THEN c ELSE ray
    BY <2>1, Zenon DEF AgentInv, Agent!TypeOK, Agent!RayStart
  <2>4. ray' = r.ray /\ clean' = (clean /\ ~r.bad)
    BY <2>1, Zenon DEF Agent!RayCall
  <2>5. Agent!Call(a, "join", "get") \in Agent!Job
    BY Zenon DEF Agent!Call, Agent!Job, Agent!Ops
  <2>6. Agent!TypeOK'
    BY <2>1, <2>2, <2>3, <2>4, <2>5, Zenon DEF AgentInv, Agent!TypeOK, Agent!NodeState
  <2>7. \A b \in Agents : Agent!Up(b)' = Agent!Up(b)
    BY <2>1, <2>2, Zenon DEF AgentInv, Agent!TypeOK, Agent!Up
  <2>8. AgentJobs' /\ AgentBeats'
    BY <2>1, <2>2, <2>7 DEF AgentInv, AgentJobs, AgentBeats, Agent!Call
  <2>9. AgentRay'
    <3>1. clean' \in BOOLEAN /\ (clean' => clean /\ ~r.bad)
      BY <2>4, <2>3, Zenon DEF AgentInv, AgentRay
    <3>2. \A b \in Agents : st'[b] \in {"idle", "reserved"} => cluster'[b] = None
      BY <2>1, <2>3, Zenon DEF AgentInv, AgentRay, Agent!TypeOK
    <3>3. clean' => ray = None /\ ray' = c /\ cluster'[a] = c
      BY <2>1, <2>2, <2>3, <2>4, <3>1, Zenon
         DEF AgentInv, AgentRay, Agent!RayFollowsAgent, Agent!TypeOK
    <3>4. QED
      BY <2>2, <2>7, <3>1, <3>2, <3>3, Zenon DEF AgentInv, AgentRay, Agent!RayFollowsAgent
  <2>10. QED BY <2>6, <2>8, <2>9, Zenon DEF AgentInv
<1>10. ASSUME NEW a \in Agents, NEW rest \in SUBSET jobs, NEW cost, Agent!Up(a),
              Agent!DoRelease(a, rest, cost)
       PROVE AgentInv'
  <2>1. PICK r \in Agent!RayStop : Agent!RayCall(r, cost)
    BY <1>10, Zenon DEF Agent!DoRelease
  <2>2. /\ r.bad \in BOOLEAN /\ r.ray \in Clusters \cup {None} /\ (~r.bad => r.ray = None)
        /\ ray' = r.ray /\ clean' = (clean /\ ~r.bad)
    BY <2>1, Zenon DEF AgentInv, Agent!TypeOK, Agent!RayStop, Agent!RayCall
  <2>3. Agent!Call(a, "release", "get") \in Agent!Job
    BY Zenon DEF Agent!Call, Agent!Job, Agent!Ops
  <2>4. Agent!TypeOK'
    BY <1>10, <2>2, <2>3, Zenon DEF AgentInv, Agent!TypeOK, Agent!NodeState, Agent!DoRelease
  <2>5. \A b \in Agents : Agent!Up(b)' = Agent!Up(b)
    BY <1>10, Zenon DEF AgentInv, Agent!TypeOK, Agent!Up, Agent!DoRelease
  <2>6. AgentJobs' /\ AgentBeats'
    BY <1>10, <2>5 DEF AgentInv, AgentJobs, AgentBeats, Agent!Call, Agent!DoRelease
  <2>7. AgentRay'
    <3>1. clean' \in BOOLEAN /\ (clean' => clean /\ ray' = None)
      BY <2>2, Zenon DEF AgentInv, AgentRay
    <3>2. cluster'[a] = None /\ \A b \in Agents : b # a => cluster'[b] = cluster[b] /\ st'[b] = st[b]
      BY <1>10, Zenon DEF Agent!DoRelease, AgentInv, Agent!TypeOK
    <3>3. QED
      BY <1>10, <2>5, <3>1, <3>2, Zenon DEF AgentInv, AgentRay, Agent!RayFollowsAgent
  <2>8. QED BY <2>4, <2>6, <2>7, Zenon DEF AgentInv
<1>11. ASSUME NEW a \in Agents, NEW op \in {"release", "drain", "offline"}, NEW q \in {"get", "sleep"},
              NEW b \in {a, None}, b = a => Agent!Up(a),
              jobs' = jobs \cup {Agent!Call(b, op, q)},
              \/ st' = st
              \/ st[a] = "joined" /\ st' = [st EXCEPT ![a] = "draining"],
              UNCHANGED <<cluster, hb, fails, owner, ttl, ray, rec, clean>>
       PROVE AgentInv'
  <2>1. Agent!Call(b, op, q) \in Agent!Job
    BY Zenon DEF Agent!Call, Agent!Job, Agent!Ops
  <2>2. Agent!TypeOK'
    BY <1>11, <2>1, Zenon DEF AgentInv, Agent!TypeOK, Agent!NodeState
  <2>3. \A d \in Agents : Agent!Up(d)' = Agent!Up(d)
    BY <1>11, Zenon DEF AgentInv, Agent!TypeOK, Agent!Up
  <2>4. AgentJobs' /\ AgentBeats'
    BY <1>11, <2>3 DEF AgentInv, AgentJobs, AgentBeats, Agent!Call
  <2>5. AgentRay'
    BY <1>11, <2>3, Zenon DEF AgentInv, AgentRay, Agent!RayFollowsAgent, Agent!TypeOK
  <2>6. QED BY <2>2, <2>4, <2>5, Zenon DEF AgentInv
<1>12. ASSUME NEW a \in Agents, Agent!Release(a) PROVE AgentInv'
  BY <1>10, <1>11, <1>12, Zenon DEF Agent!Release, Agent!Served
<1>13. ASSUME NEW a \in Agents, Agent!ReleaseWakes(a) PROVE AgentInv'
  <2>1. Agent!Up(a)
    BY <1>13, Zenon DEF Agent!ReleaseWakes, Agent!Call, AgentInv, AgentJobs
  <2>2. QED BY <1>10, <1>13, <2>1, Zenon DEF Agent!ReleaseWakes
<1>14. ASSUME NEW a \in Agents, Agent!Drain(a) PROVE AgentInv'
  BY <1>11, <1>14, Zenon DEF Agent!Drain, Agent!Served
<1>15. CASE Agent!DetectDead
  BY <1>11, <1>15, Zenon DEF Agent!DetectDead
<1>16. ASSUME NEW j \in jobs, Agent!JobGet(j) PROVE AgentInv'
  <2>1. jobs' \subseteq jobs \cup {[j EXCEPT !.pc = "set", !.snap = rec]}
    BY <1>16, Zenon DEF Agent!JobGet
  <2>2. j.op # "register" /\ j \in Agent!Job
    BY <1>16 DEF AgentInv, AgentJobs, Agent!JobGet, Agent!Call, Agent!TypeOK
  <2>3. /\ [j EXCEPT !.pc = "set", !.snap = rec] \in Agent!Job
        /\ [j EXCEPT !.pc = "set", !.snap = rec].a = j.a
        /\ [j EXCEPT !.pc = "set", !.snap = rec].op = j.op
        /\ [j EXCEPT !.pc = "set", !.snap = rec].snap \in Agent!Record
    BY <2>2, Zenon DEF AgentInv, Agent!TypeOK, Agent!Job
  <2>4. UNCHANGED <<st, cluster, hb, fails, owner, ttl, ray, rec, clean>>
    BY <1>16, Zenon DEF Agent!JobGet
  <2>5. Agent!TypeOK' /\ AgentBeats' /\ AgentRay'
    BY <2>1, <2>3, <2>4, Zenon
       DEF AgentInv, Agent!TypeOK, AgentBeats, AgentRay, Agent!RayFollowsAgent, Agent!Up
  <2>6. AgentJobs'
    BY <2>1, <2>2, <2>3, <2>4, Zenon DEF AgentInv, AgentJobs, Agent!Up
  <2>7. QED BY <2>5, <2>6, Zenon DEF AgentInv
<1>17. ASSUME NEW j \in jobs, Agent!JobSet(j) PROVE AgentInv'
  <2>1. Agent!Written(j) \in Agent!Record
    BY <1>17
       DEF AgentInv, AgentJobs, Agent!TypeOK, Agent!Job, Agent!Ops, Agent!JobSet,
           Agent!Written,
       Agent!Registered, Agent!Record, Agent!NodeState
  <2>2. Agent!TypeOK'
    BY <1>17, <2>1, Zenon DEF AgentInv, AgentJobs, Agent!TypeOK, Agent!JobSet
  <2>3. AgentJobs'
    BY <1>17, Zenon DEF AgentInv, AgentJobs, Agent!TypeOK, Agent!JobSet, Agent!Up
  <2>4. AgentBeats' /\ AgentRay'
    BY <1>17
       DEF AgentInv, AgentJobs, AgentBeats, AgentRay, Agent!RayFollowsAgent,
           Agent!TypeOK, Agent!JobSet, Agent!Up
  <2>5. QED BY <2>2, <2>3, <2>4, Zenon DEF AgentInv
<1>18. ASSUME NEW j \in jobs, Agent!JobError(j) PROVE AgentInv'
  <2>1. CASE j.op = "register"
    BY <1>18, <2>1, AgentAbandons, Zenon DEF Agent!JobError, AgentInv, AgentJobs
  <2>2. CASE j.op # "register"
    BY <1>18, <2>2
       DEF Agent!JobError, AgentInv, Agent!TypeOK, AgentJobs, AgentBeats, AgentRay,
       Agent!RayFollowsAgent, Agent!Up
  <2>3. QED BY <2>1, <2>2, Zenon
<1>19. CASE Agent!Reserve
  BY <1>19, ZenonT(60)
     DEF Agent!Reserve, AgentInv, Agent!TypeOK, Agent!Record, Agent!NodeState, AgentJobs,
         AgentBeats,
     AgentRay, Agent!RayFollowsAgent, Agent!Up
<1>20. CASE UNCHANGED Agent!vars
  BY <1>20, Zenon
     DEF Agent!vars, AgentInv, Agent!TypeOK, AgentJobs, AgentBeats, AgentRay,
         Agent!RayFollowsAgent, Agent!Up
<1>21. QED
  BY <1>1, <1>2, <1>3, <1>5, <1>6, <1>7, <1>8, <1>9, <1>12, <1>13, <1>14, <1>15, <1>16, <1>17,
     <1>18, <1>19, <1>20, Zenon DEF Agent!Next, Agent!Beat

\* No step takes the node from a running agent that holds it, except the expiry.
LEMMA AgentKeepsNode ==
    AgentInv /\ [Agent!Next]_(Agent!vars) =>
        [\A a \in Agents : (owner = a /\ owner' # a) => (ttl = 1 /\ Agent!Tick) \/ ~Agent!Up(a)']_(Agent!vars)
<1> SUFFICES ASSUME AgentInv, Agent!Next, NEW a \in Agents, owner = a, owner' # a
             PROVE  (ttl = 1 /\ Agent!Tick) \/ ~Agent!Up(a)'
  OBVIOUS
<1> USE AgentAssumption
<1>1. ASSUME NEW b \in Agents, Agent!Start(b) \/ Agent!BeatAcquire(b) PROVE FALSE
  BY <1>1, Zenon DEF Agent!Start, Agent!BeatAcquire, Agent!TakeIfFree
<1>2. ASSUME NEW b \in Agents, Agent!Gone(b), Agent!DropOwnership(b) \/ Agent!Abandoned(b)
      PROVE  ~Agent!Up(a)'
  BY <1>2, Zenon
     DEF Agent!Gone, Agent!DropOwnership, Agent!Abandoned, Agent!Up, AgentInv, Agent!TypeOK
<1>3. ASSUME NEW b \in Agents, Agent!Shutdown(b) \/ Agent!Crash(b) PROVE ~Agent!Up(a)'
  BY <1>2, <1>3, Zenon DEF Agent!Shutdown, Agent!Crash
<1>4. ASSUME NEW j \in jobs, Agent!JobError(j) PROVE ~Agent!Up(a)'
  BY <1>2, <1>4, Zenon DEF Agent!JobError, AgentInv, AgentJobs
<1>5. CASE Agent!Tick
  BY <1>5, Zenon DEF Agent!Tick
<1>6. ASSUME NEW b \in Agents,
             \/ Agent!BeatRenew(b) \/ Agent!Wake(b) \/ Agent!BeatError(b) \/ Agent!Release(b)
             \/ Agent!ReleaseWakes(b) \/ Agent!Drain(b) \/ \E c \in Clusters : Agent!Invite(b, c)
      PROVE  FALSE
  BY <1>6, Zenon
     DEF Agent!BeatRenew, Agent!Renew, Agent!Wake, Agent!BeatError, Agent!Release,
         Agent!ReleaseWakes,
     Agent!DoRelease, Agent!Drain, Agent!Invite, Agent!Accept
<1>7. ASSUME NEW j \in jobs, Agent!JobGet(j) \/ Agent!JobSet(j) PROVE FALSE
  BY <1>7, Zenon DEF Agent!JobGet, Agent!JobSet
<1>8. CASE Agent!Reserve \/ Agent!DetectDead
  BY <1>8, Zenon DEF Agent!Reserve, Agent!DetectDead
<1>9. QED
  BY <1>1, <1>3, <1>4, <1>5, <1>6, <1>7, <1>8, Zenon DEF Agent!Next, Agent!Beat

----
Sched == INSTANCE SchedulerActor WITH
    Callers <- Calls, MaxEvents <- SchedEvents, events <- sevents

ASSUME SchedAssumption == None \notin Releases

\* SchedulerActor. A caller whose cluster kept one live active release since it
\* read the key has that release in its hands, and never comes to the requested one.
SchedLookups ==
    /\ lookup \in [Calls -> [pc : {"idle", "requested", "active", "create", "done", "failed"},
                             want : Releases \cup {None}, got : Releases \cup {None}]]
    /\ steady \in [Calls -> BOOLEAN]
    /\ \A c \in Calls : lookup[c].pc \in {"active", "requested", "create"} => lookup[c].want \in Releases
    /\ \A c \in Calls : lookup[c].pc # "idle" /\ steady[c] =>
          /\ active \in alive /\ lookup[c].got = active
          /\ lookup[c].pc \in {"active", "done"}

SchedInv == Sched!TypeOK /\ SchedLookups /\ sevents \in Nat

LEMMA SchedInit == Sched!Init => SchedInv
  BY DEF Sched!Init, SchedInv, Sched!TypeOK, SchedLookups

LEMMA SchedNext == SchedInv /\ [Sched!Next]_(Sched!vars) => SchedInv'
<1> SUFFICES ASSUME SchedInv, [Sched!Next]_(Sched!vars) PROVE SchedInv'
  OBVIOUS
<1> USE SchedAssumption DEF SchedInv
<1>1. ASSUME NEW c \in Calls, NEW r \in Releases, Sched!ReadActive(c, r) PROVE SchedInv'
  <2>1. Sched!TypeOK' /\ sevents' \in Nat
    BY <1>1, Zenon DEF Sched!TypeOK, Sched!ReadActive, Sched!poolVars
  <2>2. steady' = [steady EXCEPT ![c] = active \in alive]
    BY <1>1, Zenon DEF Sched!ReadActive
  <2>3. steady' \in [Calls -> BOOLEAN]
    BY <2>2 DEF SchedLookups
  <2>4. PICK f : /\ f = [pc |-> IF active = None THEN "requested" ELSE "active", want |-> r, got |-> active]
                 /\ lookup' = [lookup EXCEPT ![c] = f]
    BY <1>1, Zenon DEF Sched!ReadActive, Sched!Goes
  <2>5. steady'[c] => active \in alive
    BY <2>2, Zenon DEF SchedLookups
  <2>6. \A d \in Calls : d # c => lookup'[d] = lookup[d] /\ steady'[d] = steady[d]
    BY <2>2, <2>4, Zenon DEF SchedLookups
  <2>7. active' = active /\ alive' = alive /\ lookup'[c] = f
    BY <1>1, <2>4, Zenon DEF Sched!ReadActive, SchedLookups
  <2>8. SchedLookups'
    BY <2>3, <2>4, <2>5, <2>6, <2>7 DEF SchedLookups, Sched!TypeOK
  <2>9. QED BY <2>1, <2>8, Zenon
<1>2. ASSUME NEW c \in Calls, NEW r \in Releases, Sched!ReadFails(c, r) PROVE SchedInv'
  BY <1>2, SMTT(30)
     DEF Sched!TypeOK, SchedLookups, Sched!ReadFails, Sched!Goes, Sched!Event,
         Sched!poolVars
<1>3. ASSUME NEW c \in Calls, Sched!TryActive(c) PROVE SchedInv'
  <2>1. Sched!TypeOK' /\ sevents' \in Nat
    BY <1>3, Zenon DEF Sched!TypeOK, Sched!TryActive, Sched!poolVars
  <2>2. PICK q : /\ q = (IF lookup[c].got \in alive THEN "done" ELSE "requested")
                 /\ lookup' = [lookup EXCEPT ![c] = [lookup[c] EXCEPT !.pc = q]]
    BY <1>3, Zenon DEF Sched!TryActive, Sched!Goes
  <2>3. lookup[c].pc = "active" /\ active' = active /\ alive' = alive /\ steady' = steady
    BY <1>3, Zenon DEF Sched!TryActive
  <2>4. steady[c] => q = "done"
    BY <2>2, <2>3, Zenon DEF SchedLookups
  <2>5. lookup[c].want \in Releases
    BY <2>3, Zenon DEF SchedLookups
  <2>6. SchedLookups'
    BY <2>2, <2>3, <2>4, <2>5 DEF SchedLookups
  <2>7. QED BY <2>1, <2>6, Zenon
<1>4. ASSUME NEW c \in Calls, Sched!TryRequested(c) PROVE SchedInv'
  <2>1. lookup[c].pc \in {"requested", "create"} /\ lookup[c].want \in Releases /\ ~steady[c]
    BY <1>4, Zenon DEF SchedLookups, Sched!TryRequested
  <2>2. PICK f : /\ f \in {[lookup[c] EXCEPT !.pc = "create"], [lookup[c] EXCEPT !.pc = "failed"],
                          [lookup[c] EXCEPT !.pc = "done", !.got = lookup[c].want]}
                 /\ lookup' = [lookup EXCEPT ![c] = f]
    BY <1>4, Zenon DEF Sched!TryRequested, Sched!Goes
  <2>3. f \in [pc : {"create", "failed", "done"}, want : Releases, got : Releases \cup {None}]
    BY <2>1, <2>2, Zenon DEF SchedLookups
  <2>4. steady' = steady /\ active' = active /\ alive \subseteq alive' /\ alive' \subseteq Releases
    BY <1>4, <2>1, Zenon DEF Sched!TryRequested, Sched!TypeOK
  <2>5. SchedLookups'
    BY <2>1, <2>2, <2>3, <2>4, Zenon DEF SchedLookups
  <2>6. Sched!TypeOK' /\ sevents' \in Nat
    BY <1>4, <2>4, Zenon DEF Sched!TypeOK, Sched!TryRequested, Sched!poolVars
  <2>7. QED BY <2>5, <2>6, Zenon
<1>5. ASSUME NEW c \in Calls, Sched!CreateActor(c) PROVE SchedInv'
  <2>1. lookup[c].pc \in {"requested", "create"} /\ lookup[c].want \in Releases /\ ~steady[c]
    BY <1>5, Zenon DEF SchedLookups, Sched!CreateActor
  <2>2. PICK f : /\ f \in {[lookup[c] EXCEPT !.pc = "create"], [lookup[c] EXCEPT !.pc = "failed"],
                          [lookup[c] EXCEPT !.pc = "done", !.got = lookup[c].want]}
                 /\ lookup' = [lookup EXCEPT ![c] = f]
    BY <1>5, Zenon DEF Sched!CreateActor, Sched!Goes
  <2>3. f \in [pc : {"create", "failed", "done"}, want : Releases, got : Releases \cup {None}]
    BY <2>1, <2>2, Zenon DEF SchedLookups
  <2>4. steady' = steady /\ active' = active /\ alive \subseteq alive' /\ alive' \subseteq Releases
    BY <1>5, <2>1, Zenon DEF Sched!CreateActor, Sched!TypeOK
  <2>5. SchedLookups'
    BY <2>1, <2>2, <2>3, <2>4, Zenon DEF SchedLookups
  <2>6. Sched!TypeOK' /\ sevents' \in Nat
    BY <1>5, <2>4, Zenon DEF Sched!TypeOK, Sched!CreateActor, Sched!poolVars
  <2>7. QED BY <2>5, <2>6, Zenon
<1>6. ASSUME NEW r \in Releases, Sched!Switch(r) PROVE SchedInv'
  BY <1>6 DEF Sched!TypeOK, SchedLookups, Sched!Switch, Sched!Event, Sched!poolVars
<1>7. ASSUME NEW r \in Releases, Sched!ActorDies(r) PROVE SchedInv'
  <2>1. Sched!TypeOK' /\ sevents' \in Nat
    BY <1>7 DEF Sched!TypeOK, Sched!ActorDies, Sched!Event, Sched!poolVars
  <2>2. /\ steady' \in [Calls -> BOOLEAN] /\ alive' = alive \ {r}
        /\ active' = active /\ lookup' = lookup
        /\ \A c \in Calls : steady'[c] => steady[c] /\ active # r
    BY <1>7, Zenon DEF SchedLookups, Sched!ActorDies
  <2>3. SchedLookups'
    BY <2>2, Zenon DEF SchedLookups
  <2>4. QED BY <2>1, <2>3, Zenon
<1>8. ASSUME NEW k \in Caps,
             \/ Sched!RegisterPool(k) \/ Sched!RegisterStored(k)
             \/ Sched!RecoverOne(k) \/ Sched!DropEntry(k)
      PROVE SchedInv'
  BY <1>8, Zenon DEF Sched!TypeOK, SchedLookups, Sched!RegisterPool, Sched!RegisterStored,
     Sched!RecoverOne, Sched!DropEntry, Sched!lookupVars
<1>9. CASE Sched!Recover \/ Sched!Restart
  BY <1>9 DEF Sched!TypeOK, SchedLookups, Sched!Recover, Sched!Restart, Sched!Event,
     Sched!lookupVars
<1>10. CASE UNCHANGED Sched!vars
  BY <1>10, Zenon DEF Sched!TypeOK, SchedLookups, Sched!vars
<1>11. QED
  BY <1>1, <1>2, <1>3, <1>4, <1>5, <1>6, <1>7, <1>8, <1>9, <1>10, Zenon DEF Sched!Next

\* A step of recovery changes no pool that is registered.
LEMMA SchedRegisteredKept ==
    SchedInv /\ [Sched!Next]_(Sched!vars) =>
        [\A k \in Caps : pools[k] = "local" => pools'[k] = "local" \/ sevents' # sevents]_(Sched!vars)
<1> SUFFICES ASSUME SchedInv, Sched!Next, NEW k \in Caps, pools[k] = "local", sevents' = sevents
             PROVE  pools'[k] = "local"
  OBVIOUS
<1>1. CASE pools' = pools
  BY <1>1, Zenon
<1>2. ASSUME NEW j \in Caps, Sched!RegisterPool(j) PROVE pools'[k] = "local"
  BY <1>2, Zenon DEF Sched!RegisterPool, SchedInv, Sched!TypeOK
<1>3. ASSUME NEW j \in Caps, Sched!RecoverOne(j) PROVE pools'[k] = "local"
  BY <1>3, Zenon DEF Sched!RecoverOne, SchedInv, Sched!TypeOK
<1>4. CASE Sched!Restart
  BY <1>4 DEF Sched!Restart, Sched!Event, SchedInv
<1>5. QED
  BY <1>1, <1>2, <1>3, <1>4, Zenon
     DEF Sched!Next, Sched!ReadActive, Sched!ReadFails, Sched!TryActive, Sched!TryRequested,
         Sched!CreateActor, Sched!Switch, Sched!ActorDies, Sched!RegisterStored,
         Sched!DropEntry, Sched!Recover, Sched!poolVars

----
\* NodeAgent: Ray is attached to the cluster the agent says it joined, through
\* invitations, releases, drains and restarts, and no other process takes a live
\* agent's ownership. SchedulerActor: a steady active release serves every lookup,
\* and recovery leaves registered pools alone.
NodesSound ==
    /\ [](Agent!RayFollowsAgent /\ Sched!ActiveServes)
    /\ Agent!OwnershipNotStolen /\ Sched!RegisteredKept

\* The types of the three parts.
NodesTypeOK == Agent!TypeOK /\ HA!TypeOK /\ Sched!TypeOK

\* NodeAgent: the node's Ray is attached to the cluster its agent says it joined
\* (invite, release, drain), and no process takes a running agent's ownership
\* (_LUA_RENEW, _LUA_RELEASE, acquire_ownership). SchedulerActor: a steady active
\* release serves every lookup, and recovery leaves a registered pool alone.
THEOREM NodesCorrect == Agent!Spec /\ Sched!Spec => NodesSound
<1>1. AgentInv => Agent!RayFollowsAgent
  BY Zenon DEF AgentInv, AgentRay
<1>2. SchedInv => Sched!ActiveServes
  BY Zenon DEF SchedInv, SchedLookups, Sched!ActiveServes
<1>3. QED
  BY AgentInit, AgentNext, AgentKeepsNode, SchedInit, SchedNext, SchedRegisteredKept, <1>1, <1>2, PTL
     DEF Agent!Spec, Sched!Spec, NodesSound, Agent!OwnershipNotStolen, Sched!RegisteredKept

\* The types of the three parts hold in every state.
THEOREM NodesTypeCorrect == Agent!Spec /\ HA!Spec /\ Sched!Spec => []NodesTypeOK
<1>1. AgentInv /\ HAInv /\ SchedInv => NodesTypeOK
  BY Zenon DEF AgentInv, HAInv, SchedInv, NodesTypeOK
<1>2. QED
  BY AgentInit, AgentNext, HAInit, HANext, SchedInit, SchedNext, <1>1, PTL
     DEF Agent!Spec, HA!Spec, Sched!Spec
====
