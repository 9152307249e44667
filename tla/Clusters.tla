---- MODULE Clusters ----
\* The ClusterRegistry (src/platform/cluster_registry.py): registration, updates by the
\* Lua script, and select_cluster, which reads the clusters one by one. A record's
\* top-level fields are not the resources that selection reads (src/models/cluster.py).
EXTENDS Integers, FiniteSets

CONSTANTS
    Clusters,
    MaxGpus,     \* bound: available_gpus
    MaxOps,      \* bound: registry calls
    None

VARIABLES
    rec,      \* per cluster: its record, or None
    all,      \* clusters:all
    half,     \* register and unregister: the index write that is still due
    sel,      \* the select_cluster under way or last finished
    ops

vars == <<rec, all, half, sel, ops>>

Record(n) == [status |-> "active", gpus |-> n, top |-> None]
NoSel == [pc |-> "idle", need |-> 0, ids |-> {}, read |-> <<>>, dirty |-> {}, choice |-> None]

Init ==
    /\ rec = [c \in Clusters |-> None] /\ all = {} /\ half = None
    /\ sel = NoSel /\ ops = 0

Op == ops < MaxOps /\ ops' = ops + 1
\* What the registry changes during a selection
Dirty(c) == sel' = [sel EXCEPT !.dirty = IF sel.pc = "read" THEN @ \cup {c} ELSE @]

\* register and unregister: the key, then clusters:all; delete swallows its failure
Register(c, n) ==
    /\ half = None /\ Op
    /\ rec' = [rec EXCEPT ![c] = Record(n)]
    /\ half' = [id |-> c, in |-> TRUE]
    /\ Dirty(c)
    /\ UNCHANGED all
Unregister(c) ==
    /\ half = None /\ Op
    /\ rec' \in {rec, [rec EXCEPT ![c] = None]}
    /\ half' = [id |-> c, in |-> FALSE]
    /\ Dirty(c)
    /\ UNCHANGED all
Indexed ==
    /\ half # None
    /\ all' = IF half.in THEN all \cup {half.id} ELSE all \ {half.id}
    /\ half' = None
    /\ Dirty(half.id)
    /\ UNCHANGED <<rec, ops>>
IndexFails ==
    /\ half # None /\ Op
    /\ half' = None
    /\ UNCHANGED <<rec, all, sel>>

\* _LUA_UPDATE_CLUSTER: an error when the record is gone, the field set otherwise
Updated(c, field, v) == IF rec[c] = None THEN rec ELSE [rec EXCEPT ![c][field] = v]
UpdateStatus(c, s) ==
    /\ Op
    /\ rec' = Updated(c, "status", s)
    /\ Dirty(c)
    /\ UNCHANGED <<all, half>>
UpdateResources(c, n) ==
    /\ Op
    /\ rec' = Updated(c, "top", n)
    /\ UNCHANGED <<all, half, sel>>

\* select_cluster: list_all, then filter and sort what was read
Select(n) ==
    /\ sel.pc # "read" /\ Op
    /\ sel' = [NoSel EXCEPT !.pc = "read", !.need = n, !.ids = all]
    /\ UNCHANGED <<rec, all, half>>
\* The SMEMBERS fails: log_errors turns list_all and the selection into None
SelectFails ==
    /\ sel.pc # "read" /\ Op
    /\ sel' = [NoSel EXCEPT !.pc = "failed"]
    /\ UNCHANGED <<rec, all, half>>
With(f, c, r) == [d \in DOMAIN f \cup {c} |-> IF d = c THEN r ELSE f[d]]
ReadOne(c) ==
    /\ sel.pc = "read" /\ c \in sel.ids
    /\ sel' = [sel EXCEPT !.ids = @ \ {c}, !.read = IF rec[c] = None THEN @ ELSE With(@, c, rec[c])]
    /\ UNCHANGED <<rec, all, half, ops>>
\* get_cluster swallows a failing GET
ReadFails(c) ==
    /\ sel.pc = "read" /\ c \in sel.ids /\ Op
    /\ sel' = [sel EXCEPT !.ids = @ \ {c}, !.dirty = @ \cup {c}]
    /\ UNCHANGED <<rec, all, half>>
Fits(r, n) == r.status = "active" /\ (n > 0 => r.gpus >= n)
FirstOfWeak(f, cs) == {c \in cs : \A d \in cs : f[c].gpus <= f[d].gpus}
FirstOf(f, cs) == {c \in cs : \A d \in cs : f[c].gpus >= f[d].gpus}
Choose ==
    /\ sel.pc = "read" /\ sel.ids = {}
    /\ LET cs == {c \in DOMAIN sel.read : Fits(sel.read[c], sel.need)}
       IN \E c \in IF cs = {} THEN {None} ELSE FirstOf(sel.read, cs) :
             sel' = [sel EXCEPT !.pc = "done", !.choice = c]
    /\ UNCHANGED <<rec, all, half, ops>>

Next ==
    \/ \E c \in Clusters, n \in 0..MaxGpus : Register(c, n) \/ UpdateResources(c, n)
    \/ \E c \in Clusters, s \in {"active", "draining"} : UpdateStatus(c, s)
    \/ \E c \in Clusters : Unregister(c) \/ ReadOne(c) \/ ReadFails(c)
    \/ Indexed \/ IndexFails \/ SelectFails
    \/ \E n \in 0..MaxGpus : Select(n)
    \/ Choose

----
TypeOK ==
    /\ all \subseteq Clusters
    /\ \A c \in Clusters : rec[c] # None => rec[c].gpus \in 0..MaxGpus

Untouched == {c \in all : rec[c] # None /\ c \notin sel.dirty}

\* A selection is the best of the clusters that did not change while it read them: no
\* untouched, fitting cluster has more GPUs than the chosen one had when it was read.
SelectsBest ==
    [][sel.pc = "read" /\ sel'.pc = "done" =>
         \A c \in Untouched : Fits(rec[c], sel.need) =>
            sel'.choice # None /\ sel.read[sel'.choice].gpus >= rec[c].gpus]_vars
====
