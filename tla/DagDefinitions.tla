---- MODULE DagDefinitions ----
\* One DAG definition in the DagLoader (src/platform/dag_loader.py): the Redis copy, the
\* YAML file and the MySQL row it falls back to, and the DAG service's requests
\* (src/services/resource_application.py). A definition is the set of its edits,
\* of which FromFile and FromTable are the first.
EXTENDS Integers, FiniteSets

CONSTANTS
    Procs,
    MaxOps,   \* bound: requests, expiries and failures
    None

VARIABLES
    cache,    \* dag_def:<tenant>:<dag>, or None
    file,     \* config/dags/<dag>.yaml, or None (never written)
    row,      \* the MySQL row, or None (never written by this code)
    proc,
    owed,     \* history: the edits no deletion, expiry or stale write has taken back
    ops

vars == <<cache, file, row, proc, owed, ops>>

FromFile == 0
FromTable == -1
Idle == [pc |-> "idle", edit |-> 0, got |-> None, seen |-> {}, answer |-> None]

Init ==
    /\ cache = None
    /\ file \in {None, {FromFile}} /\ row \in {None, {FromTable}}
    /\ proc = [p \in Procs |-> Idle]
    /\ owed = {} /\ ops = 0

At(p, pc) == proc[p].pc = pc
Ends(p, a) == proc' = [proc EXCEPT ![p] = [Idle EXCEPT !.answer = a]]
Op == ops < MaxOps /\ ops' = ops + 1

\* get_dag and update_dag both load first
Load(p, e) ==
    /\ At(p, "idle") /\ Op
    /\ proc' = [proc EXCEPT ![p] = [Idle EXCEPT !.pc = "redis", !.edit = IF e THEN ops + 1 ELSE 0,
                                                !.seen = owed]]
    /\ UNCHANGED <<cache, file, row, owed>>
Loaded(p, d) ==
    IF proc[p].edit = 0
    THEN proc' = [proc EXCEPT ![p].pc = "idle", ![p].got = d, ![p].answer = "found"]
    ELSE proc' = [proc EXCEPT ![p].pc = "write", ![p].got = d]
FoundFileFirst == IF file # None THEN file ELSE cache
Found == cache
LoadRedis(p) ==
    /\ At(p, "redis")
    /\ CASE Found # None -> Loaded(p, Found)
         [] Found = None /\ file # None -> proc' = [proc EXCEPT ![p].pc = "warm", ![p].got = file]
         [] OTHER -> proc' = [proc EXCEPT ![p].pc = "mysql"]
    /\ UNCHANGED <<cache, file, row, owed, ops>>
\* A failing query reads as no row
LoadMysql(p) ==
    /\ At(p, "mysql")
    /\ \E found \in {row, None} :
          IF found = None THEN Ends(p, "404")
          ELSE proc' = [proc EXCEPT ![p].pc = "warm", ![p].got = found]
    /\ UNCHANGED <<cache, file, row, owed, ops>>
\* The write-back; a definition registered since the miss is overwritten
Warm(p) ==
    /\ At(p, "warm")
    /\ cache' = proc[p].got
    /\ owed' = IF cache = None THEN owed ELSE {}
    /\ Loaded(p, proc[p].got)
    /\ UNCHANGED <<file, row, ops>>

\* register, and the register at the end of update_dag
Register(p) ==
    /\ At(p, "idle") /\ Op
    /\ cache' = {ops + 1} /\ owed' = {ops + 1}
    /\ Ends(p, "ok")
    /\ UNCHANGED <<file, row>>
MergedLossy(p) == {proc[p].edit}
Merged(p) == proc[p].got \cup {proc[p].edit}
UpdateWrite(p) ==
    /\ At(p, "write")
    /\ cache' = Merged(p)
    /\ owed' = (IF cache \in {None, proc[p].got} THEN owed ELSE {}) \cup {proc[p].edit}
    /\ Ends(p, "ok")
    /\ UNCHANGED <<file, row, ops>>
Delete(p) ==
    /\ At(p, "idle") /\ Op
    /\ cache' = None /\ owed' = {}
    /\ Ends(p, "ok")
    /\ UNCHANGED <<file, row>>

\* The three-day expiry of every write; a Redis call that raises
Expire ==
    /\ cache # None /\ Op
    /\ cache' = None /\ owed' = {}
    /\ UNCHANGED <<file, row, proc>>
Fails(p) ==
    /\ proc[p].pc \in {"redis", "warm", "write"} /\ Op
    /\ Ends(p, "500")
    /\ UNCHANGED <<cache, file, row, owed>>

\* The routes of the API, and of the operations service (src/scheduler_ops_api)
Loads(p) ==
    \/ \E e \in BOOLEAN : Load(p, e)
    \/ LoadRedis(p) \/ LoadMysql(p) \/ Warm(p)
Routes(p) ==
    \/ Loads(p)
    \/ Register(p) \/ UpdateWrite(p) \/ Delete(p)
Definitions == \E p \in Procs : Routes(p)
Next ==
    \/ Definitions
    \/ \E p \in Procs : Fails(p)
    \/ Expire

----
TypeOK ==
    /\ owed \subseteq 1..ops
    /\ \A p \in Procs : proc[p].got # None => proc[p].got \subseteq -1..ops

\* A registered or updated definition, with every edit it was merged from, stays in
\* Redis until it is deleted or expires, except when a load that missed before the
\* registration writes the file's or the table's definition back over it, or an update
\* that read before another's write drops that edit.
EditsKept == cache # None => owed \subseteq cache

\* A load answers with every edit that was acknowledged before it began and that
\* nothing has taken back since.
LoadsCurrent == \A p \in Procs : proc[p].answer = "found" => proc[p].seen \cap owed \subseteq proc[p].got
====
