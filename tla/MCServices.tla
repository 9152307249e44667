----------------------------- MODULE MCServices -----------------------------
(***************************************************************************)
(* The registries, the API and the control-plane process for TLC, with the *)
(* step-level slots.  They share no state here: a behaviour moves one of   *)
(* them, its focus, and leaves the others where they start.                *)
(***************************************************************************)
EXTENDS ConcurrencySlots, ServicesProofs, TLC

CONSTANTS a, b, c, k, l

VARIABLES focus,
    item, itemIdx, proc, ops, itemFaults, adrift, owed, switch,
    record, health, listed, writer, looks, recent, split, capOps,
    cluster, all, half, sel, clusterOps,
    dagCache, file, row, loader, dagOwed, dagOps,
    post, received, history, added, inquiry, silences, expiry, cut, alertNow, alertFaults,
    enabled, pc, at, loop, open, started, signal

StrippedDef == [q \in {"embed"} |-> "mbed"]
ResourcesDef == {[total |-> 1, ray |-> -1], [total |-> 2, ray |-> -1], [total |-> 1, ray |-> 0]}

Reg == INSTANCE Registries WITH
    Items <- {a, b}, Procs <- {k, l}, MaxOps <- 4, MaxFaults <- 1,
    rec <- item, idx <- itemIdx, faults <- itemFaults
Cap == INSTANCE Capabilities WITH
    UnhealthyThreshold <- 3, HealthyThreshold <- 2, MaxOps <- 6, ops <- capOps
Clus == INSTANCE Clusters WITH
    Clusters <- {a, b}, MaxGpus <- 1, MaxOps <- 5, rec <- cluster, ops <- clusterOps
Dags == INSTANCE DagDefinitions WITH
    Procs <- {a, b}, MaxOps <- 4,
    cache <- dagCache, proc <- loader, owed <- dagOwed, ops <- dagOps
Alert == INSTANCE Alerts WITH
    Posts <- {a, b}, Silences <- {k, l}, MaxLen <- 2, Durations <- 1..3, Grace <- 1,
    Horizon <- 3, MaxFaults <- 1, now <- alertNow, faults <- alertFaults
Plane == INSTANCE ControlPlane

rate == <<clock, seconds, hit, overlap, faults>>
keys == <<hash, index, tenant, auth, edit, removal, gone, raced, events>>
reg == <<item, itemIdx, proc, ops, itemFaults, adrift, owed, switch>>
caps == <<record, health, listed, writer, looks, recent, split, capOps>>
clus == <<cluster, all, half, sel, clusterOps>>
dags == <<dagCache, file, row, loader, dagOwed, dagOps>>
oper == <<opNow, lease, status, runs, audit, timeline, req, evictions, crowd, opEvents>>
api == <<rows, walk, wait, apiOps>>
alert == <<post, received, history, added, inquiry, silences, expiry, cut, alertNow, alertFaults>>
stats == <<total, known, cache, stamp, call, answer, floor, statNow>>
plane == <<enabled, pc, at, loop, open, started, signal>>
select == <<node, nodeIdx, joining, look, granted, regs>>
allVars == <<focus, slotVars, rate, keys, reg, caps, clus, dags, oper, api, alert, stats, plane, select>>

ServicesInit ==
    /\ focus \in {"slots", "rate", "keys", "reg", "caps", "clus", "dags", "oper", "api",
                  "webhook", "silence", "stats", "plane", "select"}
    /\ SlotsInit /\ Rate!Init /\ Reg!Init /\ Cap!Init /\ Clus!Init /\ Oper!Init
    /\ Alert!Init /\ Stats!Init /\ Select!Init
    /\ Key!Init /\ (focus # "keys" => \A t \in {a, b} : tenant[t] = None)
    /\ Dags!Init /\ (focus # "dags" => file = None /\ row = None)
    /\ Api!Init /\ (focus # "api" => \A i \in 1..3 : rows[i] = None)
    /\ Plane!Init /\ (focus # "plane" => enabled = {"compensation"})

SlotStep == focus = "slots" /\ SlotsNext
    /\ UNCHANGED <<focus, rate, keys, reg, caps, clus, dags, oper, api, alert, stats, plane, select>>
RateStep == focus = "rate" /\ Rate!Next
    /\ UNCHANGED <<focus, slotVars, keys, reg, caps, clus, dags, oper, api, alert, stats, plane, select>>
KeysStep == focus = "keys" /\ Key!Next
    /\ UNCHANGED <<focus, slotVars, rate, reg, caps, clus, dags, oper, api, alert, stats, plane, select>>
RegStep == focus = "reg" /\ Reg!Next
    /\ UNCHANGED <<focus, slotVars, rate, keys, caps, clus, dags, oper, api, alert, stats, plane, select>>
CapsStep == focus = "caps" /\ Cap!Next
    /\ UNCHANGED <<focus, slotVars, rate, keys, reg, clus, dags, oper, api, alert, stats, plane, select>>
ClusStep == focus = "clus" /\ Clus!Next
    /\ UNCHANGED <<focus, slotVars, rate, keys, reg, caps, dags, oper, api, alert, stats, plane, select>>
DagsStep == focus = "dags" /\ Dags!Next
    /\ UNCHANGED <<focus, slotVars, rate, keys, reg, caps, clus, oper, api, alert, stats, plane, select>>
OperStep == focus = "oper" /\ Oper!Next
    /\ UNCHANGED <<focus, slotVars, rate, keys, reg, caps, clus, dags, api, alert, stats, plane, select>>
ApiStep == focus = "api" /\ Api!Next
    /\ UNCHANGED <<focus, slotVars, rate, keys, reg, caps, clus, dags, oper, alert, stats, plane, select>>
\* the webhook and the silences share nothing but Redis
AlertStep == ((focus = "webhook" /\ Alert!Webhook) \/ (focus = "silence" /\ Alert!Silencing))
    /\ UNCHANGED <<focus, slotVars, rate, keys, reg, caps, clus, dags, oper, api, stats, plane, select>>
StatsStep == focus = "stats" /\ Stats!Next
    /\ UNCHANGED <<focus, slotVars, rate, keys, reg, caps, clus, dags, oper, api, alert, plane, select>>
PlaneStep == focus = "plane" /\ Plane!Next
    /\ UNCHANGED <<focus, slotVars, rate, keys, reg, caps, clus, dags, oper, api, alert, stats, select>>
SelectStep == focus = "select" /\ Select!Next
    /\ UNCHANGED <<focus, slotVars, rate, keys, reg, caps, clus, dags, oper, api, alert, stats, plane>>

ServicesNext ==
    \/ SlotStep \/ RateStep \/ KeysStep \/ RegStep \/ CapsStep \/ ClusStep \/ DagsStep
    \/ OperStep \/ ApiStep \/ AlertStep \/ StatsStep \/ PlaneStep
    \/ SelectStep

ServicesSpec == ServicesInit /\ [][ServicesNext]_allVars

\* No part tells a from b
Symmetry == Permutations({a, b})

-----------------------------------------------------------------------------

\* The types of the slots and of the part that has the focus.
TypesOK ==
    /\ SlotsTypeOK
    /\ focus = "rate" => Rate!TypeOK
    /\ focus = "keys" => Key!TypeOK
    /\ focus = "reg" => Reg!TypeOK
    /\ focus = "caps" => Cap!TypeOK
    /\ focus = "clus" => Clus!TypeOK
    /\ focus = "dags" => Dags!TypeOK
    /\ focus = "oper" => Oper!TypeOK
    /\ focus = "api" => Api!TypeOK
    /\ focus \in {"webhook", "silence"} => Alert!TypeOK
    /\ focus = "stats" => Stats!TypeOK
    /\ focus = "plane" => Plane!TypeOK
    /\ focus = "select" => Select!TypeOK

\* Registries, Capabilities and DagDefinitions, with two processes between their
\* reads and writes: stored items are indexed and listed, updates, switches and
\* edits hold until they are replaced and are seen by later loads, and the health
\* record follows from the reports and worsens only after two failures in a row.
RegistriesSound ==
    /\ [](/\ Reg!IndexComplete /\ Reg!ListComplete
          /\ Reg!WritesKept /\ Reg!ToggleHolds
          /\ Cap!HealthAgrees /\ Cap!Debounced
          /\ Dags!EditsKept /\ Dags!LoadsCurrent)
    /\ Cap!WorsensOnRepeat

\* Clusters and NodeSelection: a selected cluster is the best of those that fit, a
\* choice of nodes is the smallest of the idle ones seen that reaches the need, and
\* a node goes to one cluster until it registers again, however old the listings.
SelectionSound ==
    /\ [](Select!SelectionSmallest /\ Select!GrantedOnce)
    /\ Clus!SelectsBest

\* Alerts: the history is the newest part of what was added, an urgent alert has
\* reached a channel, the last alert of a status is as new as any it counted, and a
\* silence is not dropped before its end.
AlertsSound ==
    /\ [](Alert!HistoryIsNewest /\ Alert!UrgentAlertsSent /\ Alert!StatusNamesNewest)
    /\ Alert!SilencesLast

\* ControlPlane: the process serves with all services started, a closed process has
\* no loop left, and the processors stop before the scheduler.
PlaneSound ==
    /\ [](Plane!ServesWithAllStarted /\ Plane!ClosedIsQuiet)
    /\ Plane!ProcessorsStopFirst

=============================================================================
