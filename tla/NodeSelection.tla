---- MODULE NodeSelection ----
\* Choosing nodes by GPU count and reserving them: register, list_all,
\* select_nodes and reserve_node of src/platform/node_registry.py, with the
\* effective GPU count of src/models/node.py.
\*
\* The nodes here are registered with at least one entry in gpu_list. Such a
\* record comes back from the Lua script's cjson as the model accepts it, get()
\* returns a NodeInfo, and heartbeat and the mark_* operations, which assign to
\* its items, raise TypeError: only register and reserve_node change it. (Nodes
\* without a GPU, which is all that agent/server.py reports, are in NodeAgent.)
EXTENDS Integers, FiniteSets
LOCAL INSTANCE FiniteSetsExt

CONSTANTS
    Nodes,
    Callers,        \* clusters that look for nodes
    Resources,      \* what a registration may report, [total, ray]
    Needs,          \* required_gpus the callers pass
    None,
    MaxRegistrations

VARIABLES
    rec,      \* node:_global_:<node>, None when absent
    index,    \* nodes:all
    joining,  \* registrations between the SET and the SADD
    call,     \* per caller: step, need, ids and records read, nodes chosen
    granted,  \* history: the callers that got the node since it was last registered
    regs      \* registrations so far

vars == <<rec, index, joining, call, granted, regs>>

\* total_gpus, and the GPU entry of ray_resources_total (-1: not synced or absent)
EffectiveGpus(r) == IF r.ray # -1 THEN r.ray ELSE r.total

IdleCall == [pc |-> "idle", need |-> 0, ids |-> {}, seen |-> <<>>, chosen |-> {}]

Init ==
    /\ rec = [n \in Nodes |-> None]
    /\ index = {} /\ joining = {}
    /\ call = [c \in Callers |-> IdleCall]
    /\ granted = [n \in Nodes |-> {}]
    /\ regs = 0

\* register: the record, with the state "idle" of a fresh NodeInfo, then the index,
\* which is never written when the SADD fails
Register(n) ==
    /\ regs < MaxRegistrations
    /\ regs' = regs + 1
    /\ \E r \in Resources : rec' = [rec EXCEPT ![n] = [state |-> "idle", gpus |-> EffectiveGpus(r)]]
    /\ granted' = [granted EXCEPT ![n] = {}]
    /\ joining' = joining \cup {n}
    /\ UNCHANGED <<index, call>>
RegisterIndexed(n) ==
    /\ n \in joining
    /\ joining' = joining \ {n}
    /\ index' = index \cup {n}
    /\ UNCHANGED <<rec, call, granted, regs>>

\* list_all: the ids, then all their records in one pipeline
ListIds(c, need) ==
    /\ call[c].pc = "idle"
    /\ call' = [call EXCEPT ![c] = [IdleCall EXCEPT !.pc = "fetch", !.need = need, !.ids = index]]
    /\ UNCHANGED <<rec, index, joining, granted, regs>>

ListRecords(c) ==
    /\ call[c].pc = "fetch"
    /\ call' = [call EXCEPT ![c].pc = "select",
                            ![c].seen = [n \in {m \in call[c].ids : rec[m] # None} |-> rec[n]]]
    /\ UNCHANGED <<rec, index, joining, granted, regs>>

\* select_nodes: idle nodes with a GPU, most GPUs first (ties in the order of
\* SMEMBERS), taken while the total before them is short of the need
Idle(seen) == {n \in DOMAIN seen : seen[n].state = "idle" /\ seen[n].gpus > 0}
Orders(seen) == {o \in [1..Cardinality(Idle(seen)) -> Idle(seen)] :
                   \A i, j \in DOMAIN o :
                      i < j => o[i] # o[j] /\ seen[o[i]].gpus >= seen[o[j]].gpus}
Gpus(seen, S) == MapThenSumSet(LAMBDA n : seen[n].gpus, S)
TotalBefore(seen, o, i) == Gpus(seen, {o[j] : j \in 1..i - 1})
SelectedLate(seen, o, need) == {o[i] : i \in {i \in DOMAIN o : TotalBefore(seen, o, i) <= need}}
Selected(seen, o, need) == {o[i] : i \in {i \in DOMAIN o : TotalBefore(seen, o, i) < need}}

SelectNodes(c) ==
    /\ call[c].pc = "select"
    /\ \E o \in Orders(call[c].seen) :
          call' = [call EXCEPT ![c].pc = "selected",
                               ![c].chosen = Selected(call[c].seen, o, call[c].need)]
    /\ UNCHANGED <<rec, index, joining, granted, regs>>

\* reserve_node: the compare-and-set of _LUA_RESERVE, on a choice that may be old;
\* a node that is no longer idle is refused with an error
ReservableAny(n) == rec[n] # None
Reservable(n) == rec[n] # None /\ rec[n].state = "idle"
ReserveNode(c, n) ==
    /\ call[c].pc \in {"selected", "reserve"} /\ n \in call[c].chosen
    /\ call' = [call EXCEPT ![c] = [IdleCall EXCEPT !.pc = "reserve", !.chosen = call[c].chosen \ {n}]]
    /\ IF Reservable(n)
       THEN /\ rec' = [rec EXCEPT ![n].state = "reserved"]
            /\ granted' = [granted EXCEPT ![n] = @ \cup {c}]
       ELSE UNCHANGED <<rec, granted>>
    /\ UNCHANGED <<index, joining, regs>>

Next ==
    \/ \E n \in Nodes : Register(n) \/ RegisterIndexed(n)
    \/ \E c \in Callers : \/ \E need \in Needs : ListIds(c, need)
                          \/ ListRecords(c) \/ SelectNodes(c)
                          \/ \E n \in Nodes : ReserveNode(c, n)

Spec == Init /\ [][Next]_vars

TypeOK ==
    /\ \A n \in Nodes : rec[n] # None => rec[n].state \in {"idle", "reserved"} /\ rec[n].gpus \in Nat
    /\ index \subseteq Nodes /\ joining \subseteq Nodes
    /\ \A c \in Callers : /\ call[c].pc \in {"idle", "fetch", "select", "selected", "reserve"}
                          /\ call[c].ids \subseteq index /\ call[c].chosen \subseteq index
    /\ granted \in [Nodes -> SUBSET Callers] /\ regs \in 0..MaxRegistrations

\* select_nodes: the choice reaches required_gpus with as few of the idle nodes it
\* was shown as any choice could, or takes all of them because even together they
\* are short of it.
SelectionSmallest ==
    \A c \in Callers : call[c].pc = "selected" =>
        LET seen == call[c].seen
            Enough == {S \in SUBSET Idle(seen) : Gpus(seen, S) >= call[c].need}
        IN  IF Enough = {} THEN call[c].chosen = Idle(seen)
            ELSE /\ call[c].chosen \in Enough
                 /\ \A S \in Enough : Cardinality(call[c].chosen) <= Cardinality(S)

\* reserve_node: however many clusters chose the same node from old listings, one
\* of them gets it until the node registers again.
GrantedOnce == \A n \in Nodes : \A c, d \in granted[n] : c = d
====
