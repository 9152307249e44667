---- MODULE CronScheduler ----
\* Cron firing (src/platform/cron_scheduler.py) by several instances that elect a
\* leader in Redis, over one schedule record (schedule_registry.py) that the API
\* edits at the same time (services/resource_application.py, ScheduleService). The
\* task is made by TaskCreator.create_task with an id derived from the idempotency
\* key, in its two modes: with MySQL a second insert of the id raises, without it
\* the same id is enqueued again. The row's own idempotency_key column stays empty,
\* so the lookup in create_task finds nothing.
EXTENDS Integers, FiniteSets

CONSTANTS
    Instances,
    Minute, Period,     \* ticks in a minute, ticks between two occurrences
    PollInterval,       \* poll_interval in ticks
    LeaderTTL,          \* _LEADER_TTL in ticks
    Horizon,            \* the clock stops here, leases and sleeps do not
    MaxEvents,          \* failing calls, stops, deaths and API edits in one behaviour
    None

VARIABLES
    now,
    leader, lease,  \* cron_leader and its remaining TTL
    inst,           \* per instance: where its loop is
    sched,          \* the schedule record, None when there is none
    edit,           \* the API's read copy of it, None when no update is open
    db,             \* create_task writes MySQL first
    tasks,          \* minutes whose task id exists
    fires,          \* history: tasks made, by occurrence and minute
    clean,          \* history: no fault, edit or second leader met a firing
    events

vars == <<now, leader, lease, inst, sched, edit, db, tasks, fires, clean, events>>

Asleep == [pc |-> "sleep", wait |-> PollInterval, seen |-> 0, due |-> 0, age |-> 0]
Loop(pc) == [Asleep EXCEPT !.pc = pc, !.wait = 0]
At(i, pc) == inst[i].pc = pc
Goes(i, r) == inst' = [inst EXCEPT ![i] = r]

Init ==
    /\ now = 0
    /\ leader = None /\ lease = 0
    /\ inst = [i \in Instances |-> Loop("elect")]
    /\ sched \in {None, [enabled |-> TRUE, next |-> 0]}
    /\ edit = None
    /\ db \in BOOLEAN
    /\ tasks = {} /\ fires = {}
    /\ clean = TRUE
    /\ events = 0

Event == events < MaxEvents /\ events' = events + 1
Firing(i) == inst[i].pc \in {"list", "create", "advance"}

----
\* _try_become_leader: SET NX, then GET, then EXPIRE of whatever is there
Elect(i) ==
    /\ At(i, "elect")
    /\ IF leader = None
       THEN leader' = i /\ lease' = LeaderTTL /\ Goes(i, Loop("list"))
       ELSE UNCHANGED <<leader, lease>> /\ Goes(i, Loop("get"))
    /\ clean' = (clean /\ ~\E j \in Instances \ {i} : leader = None /\ Firing(j))
    /\ UNCHANGED <<now, sched, edit, db, tasks, fires, events>>

IsLeaderAny(i) == leader # None
IsLeader(i) == leader = i
Get(i) ==
    /\ At(i, "get")
    /\ Goes(i, IF IsLeader(i) THEN Loop("expire") ELSE Asleep)
    /\ UNCHANGED <<now, leader, lease, sched, edit, db, tasks, fires, clean, events>>

Expire(i) ==
    /\ At(i, "expire")
    /\ Goes(i, [inst[i] EXCEPT !.pc = "list"])
    /\ lease' = IF leader = None THEN 0 ELSE LeaderTTL
    /\ clean' = (clean /\ ~\E j \in Instances \ {i} : Firing(j))
    /\ UNCHANGED <<now, leader, sched, edit, db, tasks, fires, events>>

----
\* list_due as of now: enabled, with a next_fire_at that is reached
Due(n) == sched # None /\ sched.enabled /\ sched.next # None /\ sched.next <= n
ListDue(i) ==
    /\ At(i, "list")
    /\ Goes(i, IF Due(now)
               THEN [inst[i] EXCEPT !.pc = "create", !.seen = now, !.due = sched.next]
               ELSE Asleep)
    /\ UNCHANGED <<now, leader, lease, sched, edit, db, tasks, fires, clean, events>>

\* _fire_one: the idempotency key is the minute in which the poll began
Window(i) == inst[i].seen \div Minute
Made(i) == tasks' = tasks \cup {Window(i)} /\ fires' = fires \cup {<<inst[i].due, Window(i)>>}

CreateTask(i) ==
    /\ At(i, "create")
    /\ IF Window(i) \notin tasks
       THEN Made(i) /\ Goes(i, [inst[i] EXCEPT !.pc = "advance"])
       ELSE /\ Goes(i, IF db THEN Asleep ELSE [inst[i] EXCEPT !.pc = "advance"])
            /\ UNCHANGED <<tasks, fires>>
    /\ UNCHANGED <<now, leader, lease, sched, edit, db, clean, events>>

\* create_task raises, before anything is written or when the row or record is
\* there and the enqueue fails: the firing is given up without an advance
CreateFails(i) ==
    /\ At(i, "create")
    /\ Event
    /\ Goes(i, Asleep)
    /\ \/ UNCHANGED <<tasks, fires, clean>>
       \/ Window(i) \notin tasks /\ Made(i) /\ clean' = FALSE
    /\ UNCHANGED <<now, leader, lease, sched, edit, db>>

\* croniter.get_next: the first occurrence after the instant of the poll;
\* update_next_fire finds no record when the schedule was deleted
NextFireFrom(n) == ((n + Period - 1) \div Period) * Period
NextFire(n) == (n \div Period + 1) * Period
Advance(i) ==
    /\ At(i, "advance")
    /\ sched' = IF sched = None THEN None ELSE [sched EXCEPT !.next = NextFire(inst[i].seen)]
    /\ Goes(i, Asleep)
    /\ UNCHANGED <<now, leader, lease, edit, db, tasks, fires, clean, events>>

Wake(i) ==
    /\ At(i, "sleep") /\ inst[i].wait = 0
    /\ Goes(i, Loop("elect"))
    /\ UNCHANGED <<now, leader, lease, sched, edit, db, tasks, fires, clean, events>>

\* An exception out of the loop is swallowed by log_errors: the loop is over while
\* _running stays True. stop cancels it at the await it is at; so does a death.
LoopEnds(i) ==
    /\ inst[i].pc \notin {"sleep", "ended"}
    /\ Event
    /\ Goes(i, Loop("ended"))
    /\ clean' = (clean /\ ~At(i, "advance"))
    /\ UNCHANGED <<now, leader, lease, sched, edit, db, tasks, fires>>
Start(i) ==
    /\ At(i, "ended")
    /\ Goes(i, Loop("elect"))
    /\ UNCHANGED <<now, leader, lease, sched, edit, db, tasks, fires, clean, events>>

----
\* ScheduleService: create writes no next_fire_at, update merges into the record it
\* read before, toggle is a script, delete removes the record
Rewrites == clean' = (clean /\ fires = {} /\ ~\E i \in Instances : Firing(i))

CreateSchedule ==
    /\ sched = None /\ Event
    /\ sched' = [enabled |-> TRUE, next |-> None]
    /\ UNCHANGED <<now, leader, lease, inst, edit, db, tasks, fires, clean>>
UpdateRead ==
    /\ sched # None /\ edit = None /\ Event
    /\ edit' = sched
    /\ UNCHANGED <<now, leader, lease, inst, sched, db, tasks, fires, clean>>
UpdateWrite ==
    /\ edit # None
    /\ sched' \in {edit, [edit EXCEPT !.next = now]}
    /\ edit' = None
    /\ Rewrites
    /\ UNCHANGED <<now, leader, lease, inst, db, tasks, fires, events>>
Toggle ==
    /\ sched # None /\ Event
    /\ \E b \in BOOLEAN : sched' = [sched EXCEPT !.enabled = b]
    /\ UNCHANGED <<now, leader, lease, inst, edit, db, tasks, fires, clean>>
DeleteSchedule ==
    /\ sched # None /\ Event
    /\ sched' = None
    /\ UNCHANGED <<now, leader, lease, inst, edit, db, tasks, fires, clean>>

ExpiredNever(n) == n
Expired(n) == IF n > 0 THEN n - 1 ELSE 0
Tick ==
    /\ now' = IF now < Horizon THEN now + 1 ELSE now
    /\ lease' = Expired(lease)
    /\ leader' = IF lease' = 0 THEN None ELSE leader
    /\ inst' = [i \in Instances |-> CASE At(i, "sleep") -> [inst[i] EXCEPT !.wait = Expired(@)]
                                      [] At(i, "ended") -> inst[i]
                                      [] OTHER -> [inst[i] EXCEPT !.age = 1]]
    /\ UNCHANGED <<sched, edit, db, tasks, fires, clean, events>>

Polls(i) == ListDue(i) \/ Advance(i)
LoopStep(i) == Elect(i) \/ Get(i) \/ Expire(i) \/ Polls(i) \/ CreateTask(i) \/ Wake(i)
Edits == CreateSchedule \/ UpdateRead \/ UpdateWrite \/ Toggle \/ DeleteSchedule
Next ==
    \/ \E i \in Instances : LoopStep(i) \/ CreateFails(i) \/ LoopEnds(i) \/ Start(i)
    \/ Edits
    \/ Tick

Spec == Init /\ [][Next]_vars

----
TypeOK ==
    /\ leader \in Instances \cup {None} /\ lease \in 0..LeaderTTL
    /\ (leader = None) = (lease = 0)
    /\ \A i \in Instances : inst[i].wait \in 0..PollInterval /\ inst[i].seen \in 0..now
    /\ tasks \subseteq 0..(Horizon \div Minute)

\* Two instances are past the election at the same time only when the round of one
\* of them has outlived a tick of the clock since it read the key: SET NX, GET and
\* EXPIRE are three calls, and nothing is re-checked before the firing.
LeadersOverlapOnlyWhenSlow ==
    \A i, j \in Instances : i # j /\ Firing(i) /\ Firing(j) => inst[i].age + inst[j].age > 0

\* One occurrence of the schedule makes one task, as long as no failing call, stop,
\* second leader or rewritten record came between the task and the advance.
OneTaskPerOccurrence == clean => \A f, g \in fires : f[1] = g[1] => f = g

\* A due schedule is fired, disabled or deleted as long as one loop lives, whoever
\* died while leading. (When the clock has stopped, a minute that is already spent
\* cannot be used again.)
DueIsFired ==
    Due(now) ~> \/ ~Due(now)
                \/ \A i \in Instances : At(i, "ended")
                \/ now = Horizon /\ now \div Minute \in tasks
====
