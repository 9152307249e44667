----------------------------- MODULE QueueStats -----------------------------
(***************************************************************************)
(* src/platform/queue_manager.py: the statistics of the queues.  A process *)
(* caches the counters of every capability for _stats_cache_ttl seconds;   *)
(* its coroutines refresh the cache, and its enqueues invalidate it, with  *)
(* an await between any two Redis calls.                                   *)
(*                                                                         *)
(*   total     total_enqueued of {queue:<cap>}:stats, by capability        *)
(*   known     queue:capabilities:registry                                 *)
(*   cache     _stats_cache, a counter for each of cache.caps              *)
(*   stamp     _stats_cache_time, Never after an invalidation              *)
(*   call      the call each coroutine is in, with what it has read        *)
(*   answer    the last answer of each coroutine                           *)
(*                                                                         *)
(* History: `at` is when counters were read from Redis, floor the counters *)
(* of the last invalidation that met no refresh in flight, need the floor  *)
(* at the start of a call.                                                 *)
(***************************************************************************)
EXTENDS Integers

CONSTANTS
    Caps, Callers,
    Stripped,   \* the name that the SCAN fallback makes of a capability
    Ttl,        \* _STATS_REFRESH_INTERVAL (10 s)
    Latency,    \* bound: ticks between the read of a refresh and its end
    MaxTotal,   \* bound: enqueues of a capability
    Horizon     \* bound: the clock

VARIABLES total, known, cache, stamp, call, answer, floor, now

vars == <<total, known, cache, stamp, call, answer, floor, now>>

Never == 0 - Ttl - 1

Names == Caps \cup {Stripped[q] : q \in Caps}

Zero == [q \in Names |-> 0]

Idle == [pc |-> "idle", caps |-> {}, counts |-> Zero, at |-> 0, need |-> Zero]

TypeOK ==
    /\ total \in [Names -> 0..MaxTotal]
    /\ known \subseteq Names
    /\ cache.caps \subseteq Names
    /\ stamp \in {Never} \cup 0..now
    /\ \A c \in Callers :
        call[c].pc \in {"idle", "discover", "scan", "register", "count", "store", "sadd", "invalidate"}
    /\ now \in 0..Horizon

Init ==
    /\ total = Zero
    /\ known = {}
    /\ cache = [caps |-> {}, counts |-> Zero, at |-> 0]
    /\ stamp = Never
    /\ call = [c \in Callers |-> Idle]
    /\ answer = [c \in Callers |-> [counts |-> Zero, need |-> Zero, age |-> 0]]
    /\ floor = Zero
    /\ now = 0

FreshForever == cache.caps # {}

Fresh == cache.caps # {} /\ now - stamp <= Ttl

\* what a call answers from a cache: zeros for a capability not in it
Answer(c, from) ==
    answer' = [answer EXCEPT ![c] =
        [counts |-> [q \in Names |-> IF q \in from.caps THEN from.counts[q] ELSE 0],
         need |-> call'[c].need, age |-> IF from.caps = {} THEN 0 ELSE now - from.at]]

\* get_queue_stats and get_all_queue_stats
Get(c) ==
    /\ call[c].pc = "idle"
    /\ call' = [call EXCEPT ![c] = [Idle EXCEPT !.pc = IF Fresh THEN "idle" ELSE "discover",
                                                !.need = floor]]
    /\ IF Fresh THEN Answer(c, cache) ELSE UNCHANGED answer
    /\ UNCHANGED <<total, known, cache, stamp, floor, now>>

\* discover_queue_capabilities: the registry, or a SCAN if it is empty
Discover(c) ==
    /\ call[c].pc = "discover"
    /\ call' = [call EXCEPT ![c].caps = known, ![c].pc = IF known = {} THEN "scan" ELSE "count"]
    /\ UNCHANGED <<total, known, cache, stamp, answer, floor, now>>

\* the names cut out of the keys that end in :pending; with none, the
\* refresh empties the cache and the call answers zeros
Scan(c) ==
    LET found == {Stripped[q] : q \in {p \in Caps : total[p] > 0}} IN
    /\ call[c].pc = "scan"
    /\ IF found = {}
       THEN /\ call' = [call EXCEPT ![c].pc = "idle"]
            /\ cache' = [caps |-> {}, counts |-> Zero, at |-> 0]
            /\ Answer(c, cache')
       ELSE /\ call' = [call EXCEPT ![c].pc = "register", ![c].caps = found]
            /\ UNCHANGED <<cache, answer>>
    /\ UNCHANGED <<total, known, stamp, floor, now>>

Register(c) ==
    /\ call[c].pc = "register"
    /\ known' = known \cup call[c].caps
    /\ call' = [call EXCEPT ![c].pc = "count"]
    /\ UNCHANGED <<total, cache, stamp, answer, floor, now>>

\* _refresh_stats_cache: one transaction reads the counters of all
Count(c) ==
    /\ call[c].pc = "count"
    /\ call' = [call EXCEPT ![c].pc = "store", ![c].counts = total, ![c].at = now]
    /\ UNCHANGED <<total, known, cache, stamp, answer, floor, now>>

\* the cache is replaced, stamped with the present time, and answered from
Store(c) ==
    /\ call[c].pc = "store"
    /\ cache' = [caps |-> call[c].caps, counts |-> call[c].counts, at |-> call[c].at]
    /\ stamp' = now
    /\ call' = [call EXCEPT ![c].pc = "idle"]
    /\ Answer(c, cache')
    /\ UNCHANGED <<total, known, floor, now>>

\* enqueue: the script counts the task, then the capability is registered,
\* then the cache of this process is invalidated
Enqueue(c, q) ==
    /\ call[c].pc = "idle"
    /\ total[q] < MaxTotal
    /\ total' = [total EXCEPT ![q] = @ + 1]
    /\ call' = [call EXCEPT ![c] = [Idle EXCEPT !.pc = "sadd", !.caps = {q}]]
    /\ UNCHANGED <<known, cache, stamp, answer, floor, now>>

Sadd(c) ==
    /\ call[c].pc = "sadd"
    /\ known' = known \cup call[c].caps
    /\ call' = [call EXCEPT ![c].pc = "invalidate"]
    /\ UNCHANGED <<total, cache, stamp, answer, floor, now>>

\* SADD fails: enqueue raises, the task is in the queue
SaddFails(c) ==
    /\ call[c].pc = "sadd"
    /\ call' = [call EXCEPT ![c].pc = "idle"]
    /\ UNCHANGED <<total, known, cache, stamp, answer, floor, now>>

\* a refresh has read the registry, or more, and not yet stored
InFlight == \E c \in Callers : call[c].pc \in {"scan", "register", "count", "store"}

Counted == [q \in Names |-> IF q \in known THEN total[q] ELSE 0]

InvalidateNothing(c) ==
    /\ call[c].pc = "invalidate"
    /\ call' = [call EXCEPT ![c].pc = "idle"]
    /\ floor' = IF InFlight THEN floor ELSE Counted
    /\ UNCHANGED <<total, known, cache, stamp, answer, now>>

\* invalidate_stats_cache; a refresh in flight will stamp the cache again
Invalidate(c) ==
    /\ call[c].pc = "invalidate"
    /\ call' = [call EXCEPT ![c].pc = "idle"]
    /\ stamp' = Never
    /\ floor' = IF InFlight THEN floor ELSE Counted
    /\ UNCHANGED <<total, known, cache, answer, now>>

\* another process enqueues and registers; it has a cache of its own
OtherEnqueue(q) ==
    /\ total[q] < MaxTotal
    /\ total' = [total EXCEPT ![q] = @ + 1]
    /\ known' = known \cup {q}
    /\ UNCHANGED <<cache, stamp, call, answer, floor, now>>

Tick ==
    /\ now < Horizon
    /\ \A c \in Callers : call[c].pc = "store" => now - call[c].at < Latency
    /\ now' = now + 1
    /\ UNCHANGED <<total, known, cache, stamp, call, answer, floor>>

Next ==
    \/ \E c \in Callers :
        \/ Get(c) \/ Discover(c) \/ Scan(c) \/ Register(c) \/ Count(c) \/ Store(c)
        \/ Sadd(c) \/ SaddFails(c) \/ Invalidate(c)
        \/ \E q \in Caps : Enqueue(c, q)
    \/ \E q \in Caps : OtherEnqueue(q)
    \/ Tick

Spec == Init /\ [][Next]_vars

(***************************************************************************)
(* Properties                                                              *)
(***************************************************************************)

\* get_queue_stats, "Returns cached data if available and not stale": two
\* refreshes may store in the wrong order and the stamp is taken after the
\* read, but no answer is older than the TTL plus the time of one refresh.
AnswersAreRecent ==
    \A c \in Callers : answer[c].age <= Ttl + Latency

\* enqueue, invalidate_stats_cache: a call that starts after an enqueue of
\* this process has returned counts that task, unless a refresh was in flight
\* when the enqueue invalidated the cache.
AnswersCountOwnEnqueues ==
    \A c \in Callers : \A q \in Names : answer[c].counts[q] >= answer[c].need[q]
=============================================================================
