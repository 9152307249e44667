---- MODULE Registries ----
\* The schedules of one tenant in a BaseRedisRegistry (src/platform/base_registry.py,
\* schedule_registry.py) under concurrent requests of ScheduleService
\* (src/services/resource_application.py). A record is the set of the writes merged into
\* it and its enabled flag; the bodies written here leave the flag alone. The hash from
\* schedule to tenant is left out: without an entry update_next_fire finds the tenant by
\* a scan. The cluster and DAG services are the same code without toggle.
EXTENDS Integers, FiniteSets

CONSTANTS
    Items, Procs,
    MaxOps,      \* bound: requests
    MaxFaults,   \* bound: failing Redis calls
    None

VARIABLES
    rec,       \* per item: the JSON under its key, or None
    idx,       \* <prefix>:index:<tenant>
    proc,      \* per request: its operation, place and what it read
    ops, faults,
    adrift,    \* history: items an overlapping delete or a failure left out of the index
    owed,      \* history, per item: the writes that nothing since has replaced
    switch     \* history, per item: the flag the last registration or toggle set

vars == <<rec, idx, proc, ops, faults, adrift, owed, switch>>

Idle == [pc |-> "idle", item |-> None, tag |-> 0, read |-> None,
         ids |-> {}, found |-> {}, steady |-> {}, answer |-> None]
Value(tags, on) == [tags |-> tags, enabled |-> on]

Init ==
    /\ rec = [i \in Items |-> None] /\ idx = {}
    /\ proc = [p \in Procs |-> Idle]
    /\ ops = 0 /\ faults = 0
    /\ adrift = {}
    /\ owed = [i \in Items |-> {}] /\ switch = [i \in Items |-> None]

At(p, pc) == proc[p].pc = pc
Ends(p, a) == [proc EXCEPT ![p] = [Idle EXCEPT !.answer = a]]
\* A write of item i disturbs the listings under way
Disturb(ps, i) == [q \in Procs |-> [ps[q] EXCEPT !.steady = @ \ {i}]]

Begin(p, i, pc) ==
    /\ At(p, "idle") /\ ops < MaxOps
    /\ ops' = ops + 1
    /\ proc' = [proc EXCEPT ![p] = [Idle EXCEPT !.pc = pc, !.item = i, !.tag = ops + 1]]
    /\ UNCHANGED <<rec, idx, faults, adrift, owed, switch>>
\* list_schedules: the index first
BeginList(p) ==
    /\ At(p, "idle") /\ ops < MaxOps
    /\ ops' = ops + 1
    /\ proc' = [proc EXCEPT ![p] = [Idle EXCEPT !.pc = "list", !.ids = idx,
                                                !.steady = {i \in idx : rec[i] # None}]]
    /\ UNCHANGED <<rec, idx, faults, adrift, owed, switch>>

\* get: GET, a 404 when there is nothing
Read(p) ==
    /\ At(p, "read")
    /\ proc' = IF rec[proc[p].item] = None THEN Ends(p, "404")
               ELSE [proc EXCEPT ![p].pc = "write", ![p].read = rec[proc[p].item]]
    /\ UNCHANGED <<rec, idx, ops, faults, adrift, owed, switch>>

\* set: SETEX, then the index. create_schedule writes a new record, update_schedule the
\* one it read with the body over it
Created(p) == Value({proc[p].tag}, TRUE)
MergedOn(p) == Value(proc[p].read.tags \cup {proc[p].tag}, TRUE)
MergedLossy(p) == Value({proc[p].tag}, proc[p].read.enabled)
Merged(p) == Value(proc[p].read.tags \cup {proc[p].tag}, proc[p].read.enabled)
Write(p) ==
    LET i == proc[p].item
        new == IF proc[p].read = None THEN Created(p) ELSE Merged(p)
        stale == proc[p].read # None /\ proc[p].read # rec[i]
    IN /\ At(p, "write")
       /\ rec' = [rec EXCEPT ![i] = new]
       /\ owed' = [owed EXCEPT ![i] = IF proc[p].read = None \/ stale THEN {proc[p].tag}
                                      ELSE @ \cup {proc[p].tag}]
       /\ switch' = [switch EXCEPT ![i] = IF proc[p].read = None THEN TRUE ELSE IF stale THEN None ELSE @]
       /\ proc' = Disturb([proc EXCEPT ![p].pc = "index"], i)
       /\ UNCHANGED <<idx, ops, faults, adrift>>
SkipIndex(p) ==
    /\ At(p, "index")
    /\ adrift' = adrift \ {proc[p].item}
    /\ proc' = Ends(p, "ok")
    /\ UNCHANGED <<rec, idx, ops, faults, owed, switch>>
Index(p) ==
    /\ At(p, "index")
    /\ idx' = idx \cup {proc[p].item}
    /\ adrift' = adrift \ {proc[p].item}
    /\ proc' = Ends(p, "ok")
    /\ UNCHANGED <<rec, ops, faults, owed, switch>>

\* toggle: one Lua script
Toggle(p) ==
    LET i == proc[p].item
    IN /\ At(p, "toggle")
       /\ \E on \in BOOLEAN :
             IF rec[i] = None
             THEN proc' = Ends(p, "404") /\ UNCHANGED <<rec, switch>>
             ELSE /\ rec' = [rec EXCEPT ![i].enabled = on]
                  /\ switch' = [switch EXCEPT ![i] = on]
                  /\ proc' = Disturb(Ends(p, "ok"), i)
       /\ UNCHANGED <<idx, ops, faults, adrift, owed>>

\* delete: DEL, and SREM when something was deleted
Delete(p) ==
    LET i == proc[p].item
    IN /\ At(p, "delete")
       /\ rec' = [rec EXCEPT ![i] = None]
       /\ proc' = Disturb(IF rec[i] = None THEN Ends(p, "ok") ELSE [proc EXCEPT ![p].pc = "unindex"], i)
       /\ owed' = [owed EXCEPT ![i] = {}]
       /\ switch' = [switch EXCEPT ![i] = None]
       /\ UNCHANGED <<idx, ops, faults, adrift>>
Unindex(p) ==
    LET i == proc[p].item
    IN /\ At(p, "unindex")
       /\ idx' = idx \ {i}
       /\ adrift' = IF rec[i] # None THEN adrift \cup {i} ELSE adrift
       /\ proc' = Disturb(Ends(p, "ok"), i)
       /\ UNCHANGED <<rec, ops, faults, owed, switch>>

\* The GETs of a listing, one by one; an id without a record is skipped
WantedFirst(p) == IF proc[p].found = {} THEN proc[p].ids ELSE {}
Wanted(p) == proc[p].ids
ListNext(p) ==
    /\ At(p, "list")
    /\ IF Wanted(p) = {} THEN proc' = [proc EXCEPT ![p].pc = "listed"]
       ELSE \E i \in Wanted(p) :
              proc' = [proc EXCEPT ![p].ids = @ \ {i},
                                   ![p].found = IF rec[i] = None THEN @ ELSE @ \cup {i}]
    /\ UNCHANGED <<rec, idx, ops, faults, adrift, owed, switch>>
Listed(p) ==
    /\ At(p, "listed")
    /\ proc' = Ends(p, "ok")
    /\ UNCHANGED <<rec, idx, ops, faults, adrift, owed, switch>>

\* log_errors: a failing read counts as nothing there, a failing write an error that
\* leaves what was done, a failing delete reports that nothing was deleted
Fault(p) ==
    /\ ~At(p, "idle") /\ ~At(p, "listed")
    /\ faults < MaxFaults
    /\ faults' = faults + 1
    /\ IF At(p, "list") /\ proc[p].ids # {}
       THEN \E i \in proc[p].ids : proc' = [proc EXCEPT ![p].ids = @ \ {i}, ![p].steady = {}]
       ELSE proc' = Ends(p, CASE At(p, "read") -> "404" [] proc[p].pc \in {"delete", "unindex"} -> "ok" [] OTHER -> "error")
    /\ adrift' = IF At(p, "index") THEN adrift \cup {proc[p].item} ELSE adrift
    /\ UNCHANGED <<rec, idx, ops, owed, switch>>

\* The one-year TTL of a record
Expire(i) ==
    /\ rec[i] # None /\ ops < MaxOps
    /\ rec' = [rec EXCEPT ![i] = None]
    /\ ops' = ops + 1
    /\ owed' = [owed EXCEPT ![i] = {}] /\ switch' = [switch EXCEPT ![i] = None]
    /\ proc' = Disturb(proc, i)
    /\ UNCHANGED <<idx, faults, adrift>>

\* The registry's operations, as the two API services have them too
Save(p) == Write(p) \/ Index(p)
Remove(p) == Delete(p) \/ Unindex(p)
Store(p) == Read(p) \/ Save(p) \/ Remove(p)
Listing(p) == BeginList(p) \/ ListNext(p) \/ Listed(p)
Stores == \E p \in Procs : Store(p)
Request(p) == \E i \in Items, pc \in {"write", "read", "toggle", "delete"} : Begin(p, i, pc)
Next ==
    \/ \E p \in Procs : Request(p) \/ Listing(p) \/ Toggle(p) \/ Fault(p)
    \/ Stores
    \/ \E i \in Items : Expire(i)

----
TypeOK ==
    /\ idx \subseteq Items
    /\ \A i \in Items : rec[i] # None => rec[i].tags \subseteq 1..ops /\ rec[i].enabled \in BOOLEAN

\* A stored record is in the index, so that listings and the cron scan see it, unless
\* its set is still under way or failed half way, or the SREM of an overlapping delete
\* came after the SADD of the new registration.
IndexComplete ==
    \A i \in Items : rec[i] # None /\ i \notin adrift =>
       i \in idx \/ \E p \in Procs : At(p, "index") /\ proc[p].item = i

\* An acknowledged write is in the record until a registration, a deletion, the expiry
\* or an update that read the record before the write replaces it.
WritesKept == \A i \in Items : rec[i] # None => owed[i] \subseteq rec[i].tags

\* A toggle holds until the next toggle or registration, unless an update that read
\* the record before it writes the old flag back.
ToggleHolds == \A i \in Items : rec[i] # None /\ switch[i] # None => rec[i].enabled = switch[i]

\* A listing holds every item that was stored and indexed when it began and that no
\* request or failure touched while it ran.
ListComplete == \A p \in Procs : At(p, "listed") => proc[p].steady \subseteq proc[p].found
====
