--------------------------- MODULE ServicesProofs ---------------------------
(***************************************************************************)
(* The services beside the scheduler: the properties of theirs that hold   *)
(* for every instance, and the proofs.  Each component comes with its      *)
(* constants, what is assumed of them, its variables, its inductive        *)
(* invariant and the proof that every action keeps it.                     *)
(***************************************************************************)
EXTENDS Integers, FiniteSets, TLAPS

-----------------------------------------------------------------------------
(* Finite sets                                                             *)

\* What the proofs use of finite sets and of the naturals. It is a hypothesis of the
\* lemmas that count; the library's theorems discharge it in FiniteLawsHold.
CardinalityLaw == \A S : IsFiniteSet(S) => Cardinality(S) \in Nat
EmptyLaw ==
    /\ IsFiniteSet({}) /\ Cardinality({}) = 0
    /\ \A S : IsFiniteSet(S) => (Cardinality(S) = 0 <=> S = {})
SubsetLaw ==
    \A S : IsFiniteSet(S) => \A T \in SUBSET S : IsFiniteSet(T) /\ Cardinality(T) <= Cardinality(S)
AddLaw ==
    \A S, x : IsFiniteSet(S) =>
        /\ IsFiniteSet(S \cup {x})
        /\ Cardinality(S \cup {x}) = IF x \in S THEN Cardinality(S) ELSE Cardinality(S) + 1
RemoveLaw ==
    \A S, x : IsFiniteSet(S) =>
        /\ IsFiniteSet(S \ {x})
        /\ Cardinality(S \ {x}) = IF x \in S THEN Cardinality(S) - 1 ELSE Cardinality(S)
IntervalLaw == \A m, n \in Int : IsFiniteSet(m .. n)
LeastLaw == \A S \in SUBSET Nat : S # {} => \E x \in S : \A y \in S : x <= y
FiniteLaws ==
    /\ CardinalityLaw /\ EmptyLaw /\ SubsetLaw /\ AddLaw /\ RemoveLaw
    /\ IntervalLaw /\ LeastLaw

-----------------------------------------------------------------------------
(* OperatorActions                                                         *)

CONSTANTS None, Operators, MaxReplays, ReplayWindow, OperHorizon, OperEvents

ASSUME OperAssumption ==
    /\ IsFiniteSet(Operators) /\ MaxReplays \in Nat /\ ReplayWindow \in Nat
    /\ None # "replay_or_repair"

VARIABLES opNow, lease, status, runs, audit, timeline, req, evictions, crowd, opEvents

Oper == INSTANCE OperatorActions WITH
    Requests <- Operators, Window <- ReplayWindow, Horizon <- OperHorizon,
    MaxEvents <- OperEvents, now <- opNow, events <- opEvents

\* OperatorActions: no more replays in a window than allowed, a replay that ran and
\* a forced eviction have their audit, and advice rests on a state the task was in.
OperatorsSound ==
    /\ Oper!ReplaysLimited /\ Oper!ReplayAudited
    /\ Oper!EvictionAudited /\ Oper!AdviceFounded

Statuses == {"queued", "running", "completed"}
Asks == [pc : {"new", "lease", "count", "run", "audit", "event", "emit", "evict", "lock", "row",
               "denied", "done", "explained", "failed"},
         role : {None, "operator", "admin"}, reason : BOOLEAN, allowed : BOOLEAN,
         locked : BOOLEAN, was : SUBSET (BOOLEAN \X Statuses),
         advice : {None, "replay_or_repair", "inspect", "inspect_or_replay_callback"}]
OperTypes ==
    /\ opNow \in Nat /\ crowd \in Nat /\ lease \in BOOLEAN /\ status \in Statuses
    /\ runs \subseteq Operators /\ evictions \subseteq Operators
    /\ IsFiniteSet(audit)
    /\ audit \subseteq [kind : {"replay", "evict"}, at : Nat, by : Operators]
    /\ timeline \subseteq [event : {"operator", "replay"}, by : Operators]
    /\ req \in [Operators -> Asks]

\* A replay between its count and its audit row leaves room for itself.
Replaying == {r \in Operators : req[r].pc = "run" \/ (req[r].pc = "audit" /\ r \in runs)}
RoomInv ==
    /\ Cardinality(Oper!Recent) <= MaxReplays + crowd
    /\ Replaying # {} => Cardinality(Oper!Recent) < MaxReplays + crowd

\* The tables follow the place of the request.
Audited(r, kind) == \E x \in audit : x.by = r /\ x.kind = kind
Told(r, event) == \E x \in timeline : x.by = r /\ x.event = event
TrailOK(r, p) ==
    /\ p \in {"new", "lease", "count", "run", "evict", "lock", "row", "denied", "explained"}
          => r \notin runs
    /\ p = "emit" => r \in runs
    /\ r \in runs /\ p \in {"event", "emit", "done"} => Audited(r, "replay")
    /\ r \in runs /\ p \in {"emit", "done"} => Told(r, "operator")
    /\ r \in runs /\ p = "done" => Told(r, "replay")
    /\ r \notin runs /\ p \in {"event", "evict"} => Audited(r, "evict")
    /\ r \in evictions => Audited(r, "evict")
TrailInv == \A r \in Operators : TrailOK(r, req[r].pc)

\* An explanation has seen every condition of the task since it began.
Founded(W) ==
    \/ <<FALSE, "running">> \in W
    \/ {<<TRUE, "queued">>, <<TRUE, "running">>, <<FALSE, "queued">>} \subseteq W
AdviceOK(a) ==
    /\ a.pc \in {"lock", "row"} => <<lease, status>> \in a.was
    /\ a.pc = "row" /\ ~a.locked =>
          \/ <<FALSE, "running">> \in a.was
          \/ status = "completed"
          \/ /\ <<FALSE, "queued">> \in a.was
             /\ status = "running" => Founded(a.was)
    /\ a.pc = "new" => a.advice # "replay_or_repair"
    /\ a.advice = "replay_or_repair" => Founded(a.was)
AdviceInv == \A r \in Operators : AdviceOK(req[r])

OperInv == OperTypes /\ RoomInv /\ TrailInv /\ AdviceInv

LEMMA OperCardinality == \A S : Oper!Cardinality(S) = Cardinality(S)
  BY Zenon DEF Oper!Cardinality, Cardinality

LEMMA RecentFinite ==
    ASSUME FiniteLaws, OperTypes
    PROVE  IsFiniteSet(Oper!Recent) /\ Cardinality(Oper!Recent) \in Nat
  <1>1. Oper!Recent \subseteq audit /\ IsFiniteSet(audit)
    BY Zenon DEF OperTypes, Oper!Recent
  <1> QED
    BY <1>1, Zenon DEF FiniteLaws, SubsetLaw, CardinalityLaw

\* A request that ends forgets what it held.
LEMMA AskEnds ==
    ASSUME NEW p \in {"denied", "done", "failed"}
    PROVE  /\ [Oper!New EXCEPT !.pc = p] \in Asks /\ AdviceOK([Oper!New EXCEPT !.pc = p])
           /\ [Oper!New EXCEPT !.pc = p].pc = p
  <1>1. Oper!New \in Asks /\ Oper!New.advice = None
    BY DEF Oper!New, Asks
  <1>2. \A n \in Asks : [n EXCEPT !.pc = p] \in Asks /\ [n EXCEPT !.pc = p].pc = p
                        /\ [n EXCEPT !.pc = p].advice = n.advice
    BY DEF Asks
  <1>3. PICK a : a = [Oper!New EXCEPT !.pc = p]
    OBVIOUS
  <1>4. a \in Asks /\ a.pc = p /\ a.advice = None
    BY <1>1, <1>2, <1>3, Zenon
  <1>5. AdviceOK(a)
    BY <1>4, OperAssumption DEF AdviceOK
  <1> QED
    BY <1>3, <1>4, <1>5, Zenon

\* A step of one request that leaves the lease, the status and the audit alone.
LEMMA OperMoves ==
    ASSUME OperInv, NEW r \in Operators, NEW a \in Asks, AdviceOK(a),
           req' = [req EXCEPT ![r] = a],
           UNCHANGED <<opNow, lease, status, audit, evictions, crowd>>,
           runs \subseteq runs', runs' \subseteq runs \cup {r},
           timeline \subseteq timeline',
           timeline' \subseteq [event : {"operator", "replay"}, by : Operators],
           TrailOK(r, a.pc)',
           a.pc = "run" \/ (a.pc = "audit" /\ r \in runs')
              => Replaying # {} \/ Cardinality(Oper!Recent) < MaxReplays + crowd
    PROVE  OperInv'
  <1>1. /\ req' \in [Operators -> Asks] /\ req'[r] = a
        /\ \A q \in Operators \ {r} : req'[q] = req[q]
    BY Zenon DEF OperInv, OperTypes
  <1>2. OperTypes'
    BY <1>1, Zenon DEF OperInv, OperTypes
  <1>3. AdviceInv'
    <2> SUFFICES ASSUME NEW q \in Operators PROVE AdviceOK(req[q])'
      BY Zenon DEF AdviceInv
    <2>1. AdviceOK(req'[q])
      BY <1>1, Zenon DEF OperInv, AdviceInv
    <2> QED
      BY <2>1, Zenon DEF AdviceOK
  <1>4. TrailInv'
    <2> SUFFICES ASSUME NEW q \in Operators, q # r PROVE TrailOK(q, req[q].pc)'
      BY <1>1, Zenon DEF TrailInv
    <2>1. TrailOK(q, req[q].pc) /\ req'[q] = req[q] /\ (q \in runs' <=> q \in runs)
      BY <1>1, Zenon DEF OperInv, TrailInv
    <2> QED
      BY <2>1, Zenon DEF TrailOK, Audited, Told
  <1>5. Oper!Recent' = Oper!Recent
    BY Zenon DEF Oper!Recent
  <1>6. Replaying' # {} => Replaying # {} \/ Cardinality(Oper!Recent) < MaxReplays + crowd
    <2> SUFFICES ASSUME NEW q \in Replaying' PROVE Replaying # {} \/ Cardinality(Oper!Recent) < MaxReplays + crowd
      BY Zenon
    <2>1. q \in Operators /\ (req'[q].pc = "run" \/ (req'[q].pc = "audit" /\ q \in runs'))
      BY Zenon DEF Replaying
    <2>2. CASE q = r
      BY <1>1, <2>1, <2>2, Zenon
    <2>3. CASE q # r
      <3>1. q \in Replaying
        BY <1>1, <2>1, <2>3, Zenon DEF Replaying
      <3> QED
        BY <3>1, Zenon
    <2> QED
      BY <2>2, <2>3, Zenon
  <1>7. RoomInv'
    BY <1>5, <1>6, Zenon DEF OperInv, RoomInv
  <1> QED
    BY <1>2, <1>3, <1>4, <1>7, Zenon DEF OperInv

\* check_task_replay_allowed, up to the count.
LEMMA OperAsk ==
    ASSUME OperInv, NEW r \in Operators, NEW role \in {"operator", "admin"}, NEW reason \in BOOLEAN,
           Oper!Ask(r, role, reason)
    PROVE  OperInv'
  <1>1. PICK a : a = [Oper!New EXCEPT !.pc = "lease", !.role = role, !.reason = reason, !.allowed = reason]
    OBVIOUS
  <1>2. a = [pc |-> "lease", role |-> role, reason |-> reason, allowed |-> reason, locked |-> FALSE,
             was |-> {}, advice |-> None]
    BY <1>1, Zenon DEF Oper!New
  <1>3. role \in {None, "operator", "admin"}
    OBVIOUS
  <1>4. a \in Asks /\ a.pc = "lease" /\ a.advice = None
    BY <1>2, <1>3, Zenon DEF Asks
  <1>5. AdviceOK(a)
    BY <1>4, OperAssumption DEF AdviceOK
  <1>6. /\ req' = [req EXCEPT ![r] = a] /\ req[r].pc = "new"
        /\ UNCHANGED <<opNow, lease, status, runs, audit, timeline, evictions, crowd>>
    BY <1>1, Zenon DEF Oper!Ask, Oper!At, Oper!tables
  <1>7. TrailOK(r, a.pc)'
    BY <1>4, <1>6, Zenon DEF OperInv, TrailInv, TrailOK, Audited, Told
  <1> QED
    BY <1>4, <1>5, <1>6, <1>7, OperMoves DEF OperInv, OperTypes

LEMMA OperLease ==
    ASSUME OperInv, NEW r \in Operators, Oper!CheckLease(r)
    PROVE  OperInv'
  <1>0. req[r] \in Asks /\ AdviceOK(req[r]) /\ req[r].pc = "lease" /\ TrailOK(r, "lease")
    BY Zenon DEF OperInv, OperTypes, AdviceInv, TrailInv, Oper!CheckLease, Oper!At
  <1>1. PICK b \in BOOLEAN : req' = [req EXCEPT ![r].pc = "count", ![r].allowed = b]
    <2>1. (IF lease THEN req[r].role = "admin" ELSE req[r].allowed) \in BOOLEAN
      BY <1>0 DEF Asks
    <2>2. req' = [req EXCEPT ![r].pc = "count",
                             ![r].allowed = IF lease THEN req[r].role = "admin" ELSE req[r].allowed]
      BY <1>0 DEF Oper!CheckLease, OperInv, OperTypes, Asks
    <2> QED
      BY <2>1, <2>2, Zenon
  <1>2. PICK a : a = [req[r] EXCEPT !.pc = "count", !.allowed = b]
    OBVIOUS
  <1>3. a \in Asks /\ a.pc = "count" /\ a.advice = req[r].advice /\ a.was = req[r].was
    BY <1>0, <1>2 DEF Asks
  <1>4. AdviceOK(a)
    BY <1>0, <1>3, Zenon DEF AdviceOK
  <1>5. req' = [req EXCEPT ![r] = a]
    BY <1>1, <1>2 DEF OperInv, OperTypes
  <1>6. UNCHANGED <<opNow, lease, status, runs, audit, timeline, evictions, crowd>>
    BY Zenon DEF Oper!CheckLease, Oper!tables
  <1>7. TrailOK(r, a.pc)'
    BY <1>0, <1>3, <1>6, Zenon DEF TrailOK, Audited, Told
  <1> QED
    BY <1>3, <1>4, <1>5, <1>6, <1>7, OperMoves DEF OperInv, OperTypes

LEMMA AskGoes ==
    ASSUME OperInv, NEW r \in Operators, NEW p \in {"run", "audit", "event", "emit", "evict"},
           req' = [req EXCEPT ![r].pc = p]
    PROVE  \E a \in Asks : a.pc = p /\ AdviceOK(a) /\ req' = [req EXCEPT ![r] = a]
  <1>0. req[r] \in Asks /\ AdviceOK(req[r])
    BY Zenon DEF OperInv, OperTypes, AdviceInv
  <1>1. PICK a : a = [req[r] EXCEPT !.pc = p]
    OBVIOUS
  <1>2. a \in Asks /\ a.pc = p /\ a.advice = req[r].advice /\ a.was = req[r].was
    BY <1>0, <1>1 DEF Asks
  <1>3. p \notin {"lock", "row", "new"}
    OBVIOUS
  <1>4. AdviceOK(a)
    BY <1>0, <1>2, <1>3, Zenon DEF AdviceOK
  <1>5. req' = [req EXCEPT ![r] = a]
    BY <1>1 DEF OperInv, OperTypes
  <1> QED
    BY <1>2, <1>4, <1>5, Zenon

\* The other requests' places and an ended request
LEMMA OperEnds ==
    ASSUME OperInv, NEW r \in Operators, NEW p \in {"denied", "failed"}, Oper!Ends(r, p),
           UNCHANGED <<opNow, lease, status, runs, audit, timeline, evictions, crowd>>,
           p = "denied" => r \notin runs
    PROVE  OperInv'
  <1>1. PICK a \in Asks : a.pc = p /\ AdviceOK(a) /\ req' = [req EXCEPT ![r] = a]
    BY AskEnds, Zenon DEF Oper!Ends
  <1>2. TrailOK(r, req[r].pc) /\ p \notin {"event", "emit", "done", "run", "audit", "evict"}
    BY Zenon DEF OperInv, TrailInv
  <1>3. TrailOK(r, a.pc)'
    <2>1. p \in {"new", "lease", "count", "run", "evict", "lock", "row", "denied", "explained"}
             => r \notin runs
      BY Zenon
    <2> QED
      BY <1>1, <1>2, <2>1, Zenon DEF TrailOK, Audited, Told
  <1> QED
    BY <1>1, <1>2, <1>3, OperMoves DEF OperInv, OperTypes

\* The count finds room, or the replay is denied.
LEMMA OperCount ==
    ASSUME FiniteLaws, OperInv, NEW r \in Operators, Oper!CountRecent(r)
    PROVE  OperInv'
  <1>1. /\ UNCHANGED <<opNow, lease, status, runs, audit, timeline, evictions, crowd>>
        /\ req[r].pc = "count" /\ TrailOK(r, "count")
    BY Zenon DEF Oper!CountRecent, Oper!At, Oper!tables, OperInv, TrailInv
  <1>2. CASE Oper!Spent \/ ~req[r].allowed
    BY <1>1, <1>2, OperEnds, Zenon DEF Oper!CountRecent, TrailOK
  <1>3. CASE ~Oper!Spent /\ req[r].allowed
    <2>1. req' = [req EXCEPT ![r].pc = "run"]
      BY <1>3, Zenon DEF Oper!CountRecent, Oper!Goes
    <2>2. PICK a \in Asks : a.pc = "run" /\ AdviceOK(a) /\ req' = [req EXCEPT ![r] = a]
      BY <2>1, AskGoes, Zenon
    <2>3. TrailOK(r, a.pc)'
      BY <1>1, <2>2, Zenon DEF TrailOK, Audited, Told
    <2>4. Cardinality(Oper!Recent) < MaxReplays + crowd
      <3>1. ~(Cardinality(Oper!Recent) >= MaxReplays)
        BY <1>3, OperCardinality, Zenon DEF Oper!Spent
      <3>2. Cardinality(Oper!Recent) \in Nat /\ crowd \in Nat /\ MaxReplays \in Nat
        BY RecentFinite, OperAssumption, Zenon DEF OperInv, OperTypes
      <3> QED
        BY <3>1, <3>2
    <2> QED
      BY <1>1, <2>2, <2>3, <2>4, OperMoves DEF OperInv, OperTypes
  <1> QED
    BY <1>2, <1>3, Zenon

LEMMA OperRun ==
    ASSUME OperInv, NEW r \in Operators, Oper!CreateRun(r)
    PROVE  OperInv'
  <1>1. /\ UNCHANGED <<opNow, lease, status, audit, timeline, evictions, crowd>>
        /\ runs' = runs \cup {r} /\ req[r].pc = "run" /\ TrailOK(r, "run")
        /\ req' = [req EXCEPT ![r].pc = "audit"]
    BY Zenon DEF Oper!CreateRun, Oper!Goes, Oper!At, OperInv, TrailInv
  <1>2. PICK a \in Asks : a.pc = "audit" /\ AdviceOK(a) /\ req' = [req EXCEPT ![r] = a]
    BY <1>1, AskGoes, Zenon
  <1>3. TrailOK(r, a.pc)'
    BY <1>1, <1>2 DEF TrailOK, Audited, Told
  <1>4. r \in Replaying
    BY <1>1, Zenon DEF Replaying
  <1> QED
    BY <1>1, <1>2, <1>3, <1>4, OperMoves DEF OperInv, OperTypes

\* An event of the timeline.
LEMMA Tells ==
    ASSUME OperInv, NEW r \in Operators, NEW e \in {"operator", "replay"},
           timeline' = timeline \cup {[event |-> e, by |-> r]}
    PROVE  /\ timeline \subseteq timeline' /\ Told(r, e)'
           /\ timeline' \subseteq [event : {"operator", "replay"}, by : Operators]
  <1>1. PICK x : x = [event |-> e, by |-> r]
    OBVIOUS
  <1>2. x.by = r /\ x.event = e /\ x \in [event : {"operator", "replay"}, by : Operators]
    BY <1>1
  <1>3. timeline' = timeline \cup {x}
    BY <1>1, Zenon
  <1>4. Told(r, e)'
    BY <1>2, <1>3, Zenon DEF Told
  <1> QED
    BY <1>2, <1>3, <1>4, Zenon DEF OperInv, OperTypes

LEMMA OperEmitAudit ==
    ASSUME OperInv, NEW r \in Operators, Oper!EmitAudit(r)
    PROVE  OperInv'
  <1>1. /\ UNCHANGED <<opNow, lease, status, runs, audit, evictions, crowd>>
        /\ timeline' = timeline \cup {[event |-> "operator", by |-> r]}
        /\ req[r].pc = "event" /\ TrailOK(r, "event")
    BY Zenon DEF Oper!EmitAudit, Oper!At, OperInv, TrailInv
  <1>2. PICK p \in {"emit", "evict"} : /\ req' = [req EXCEPT ![r].pc = p]
                                       /\ r \in runs => p = "emit"
                                       /\ r \notin runs => p = "evict"
    BY Zenon DEF Oper!EmitAudit, Oper!Goes
  <1>3. PICK a \in Asks : a.pc = p /\ AdviceOK(a) /\ req' = [req EXCEPT ![r] = a]
    <2>1. p \in {"run", "audit", "event", "emit", "evict"}
      OBVIOUS
    <2> QED
      BY <1>2, <2>1, AskGoes, Zenon
  <1>4. /\ timeline \subseteq timeline' /\ Told(r, "operator")'
        /\ timeline' \subseteq [event : {"operator", "replay"}, by : Operators]
    BY <1>1, Tells, Zenon
  <1>5. TrailOK(r, a.pc)'
    BY <1>1, <1>2, <1>3, <1>4 DEF TrailOK, Audited
  <1> QED
    BY <1>1, <1>2, <1>3, <1>4, <1>5, OperMoves DEF OperInv, OperTypes

LEMMA OperEmitReplay ==
    ASSUME OperInv, NEW r \in Operators, Oper!EmitReplay(r)
    PROVE  OperInv'
  <1>1. /\ UNCHANGED <<opNow, lease, status, runs, audit, evictions, crowd>>
        /\ timeline' = timeline \cup {[event |-> "replay", by |-> r]}
        /\ req[r].pc = "emit" /\ TrailOK(r, "emit")
    BY Zenon DEF Oper!EmitReplay, Oper!At, OperInv, TrailInv
  <1>2. PICK a \in Asks : a.pc = "done" /\ AdviceOK(a) /\ req' = [req EXCEPT ![r] = a]
    BY AskEnds, Zenon DEF Oper!EmitReplay, Oper!Ends
  <1>3. /\ timeline \subseteq timeline' /\ Told(r, "replay")'
        /\ timeline' \subseteq [event : {"operator", "replay"}, by : Operators]
    BY <1>1, Tells, Zenon
  <1>4. Told(r, "operator")'
    BY <1>1, <1>3, Zenon DEF TrailOK, Told
  <1>5. TrailOK(r, a.pc)'
    BY <1>1, <1>2, <1>3, <1>4 DEF TrailOK, Audited
  <1> QED
    BY <1>1, <1>2, <1>3, <1>5, OperMoves DEF OperInv, OperTypes

LEMMA OperEvict ==
    ASSUME OperInv, NEW r \in Operators, NEW role, NEW reason, Oper!Evict(r, role, reason)
    PROVE  OperInv'
  <1>1. /\ UNCHANGED <<opNow, lease, status, runs, audit, timeline, evictions, crowd>>
        /\ req[r].pc = "new" /\ TrailOK(r, "new") /\ r \notin runs
    BY Zenon DEF Oper!Evict, Oper!At, Oper!tables, OperInv, TrailInv, TrailOK
  <1>2. req' = [req EXCEPT ![r].pc = "audit"] \/ Oper!Ends(r, "denied")
    BY Zenon DEF Oper!Evict, Oper!Goes, Oper!EvictWhen
  <1>3. CASE req' = [req EXCEPT ![r].pc = "audit"]
    <2>1. PICK a \in Asks : a.pc = "audit" /\ AdviceOK(a) /\ req' = [req EXCEPT ![r] = a]
      BY <1>3, AskGoes, Zenon
    <2>2. TrailOK(r, a.pc)'
      BY <1>1, <2>1, Zenon DEF TrailOK, Audited, Told
    <2> QED
      BY <1>1, <2>1, <2>2, OperMoves DEF OperInv, OperTypes
  <1>4. CASE Oper!Ends(r, "denied")
    BY <1>1, <1>4, OperEnds, Zenon
  <1> QED
    BY <1>2, <1>3, <1>4, Zenon

LEMMA OperFails ==
    ASSUME OperInv, NEW r \in Operators, Oper!Fails(r)
    PROVE  OperInv'
  BY OperEnds, Zenon DEF Oper!Fails, Oper!tables

\* The explanation: the condition when it begins, the lock, the row.
LEMMA OperExplain ==
    ASSUME OperInv, NEW r \in Operators, Oper!Explain(r)
    PROVE  OperInv'
  <1>0. /\ req[r] \in Asks /\ AdviceOK(req[r]) /\ req[r].pc = "new" /\ TrailOK(r, "new")
        /\ <<lease, status>> \in BOOLEAN \X Statuses
        /\ UNCHANGED <<opNow, lease, status, runs, audit, timeline, evictions, crowd>>
    BY Zenon DEF OperInv, OperTypes, AdviceInv, TrailInv, Oper!Explain, Oper!At, Oper!tables
  <1>1. PICK a : a = [req[r] EXCEPT !.pc = "lock", !.was = {<<lease, status>>}]
    OBVIOUS
  <1>2. \A w \in SUBSET (BOOLEAN \X Statuses) :
           LET m == [req[r] EXCEPT !.pc = "lock", !.was = w]
           IN m \in Asks /\ m.pc = "lock" /\ m.advice = req[r].advice /\ m.was = w
    BY <1>0 DEF Asks
  <1>3. a \in Asks /\ a.pc = "lock" /\ a.advice = req[r].advice /\ a.was = {<<lease, status>>}
    BY <1>0, <1>1, <1>2, Zenon
  <1>4. AdviceOK(a)
    BY <1>0, <1>3, Zenon DEF AdviceOK
  <1>5. req' = [req EXCEPT ![r] = a]
    BY <1>1 DEF Oper!Explain, OperInv, OperTypes
  <1>6. TrailOK(r, a.pc)'
    BY <1>0, <1>3, Zenon DEF TrailOK, Audited, Told
  <1> QED
    BY <1>0, <1>3, <1>4, <1>5, <1>6, OperMoves DEF OperInv, OperTypes

LEMMA OperReadLock ==
    ASSUME OperInv, NEW r \in Operators, Oper!ReadLock(r)
    PROVE  OperInv'
  <1>0. /\ req[r] \in Asks /\ AdviceOK(req[r]) /\ req[r].pc = "lock" /\ TrailOK(r, "lock")
        /\ UNCHANGED <<opNow, lease, status, runs, audit, timeline, evictions, crowd>>
        /\ lease \in BOOLEAN /\ status \in Statuses
    BY Zenon DEF OperInv, OperTypes, AdviceInv, TrailInv, Oper!ReadLock, Oper!At, Oper!tables
  <1>1. PICK a : a = [req[r] EXCEPT !.pc = "row", !.locked = lease]
    OBVIOUS
  <1>2. /\ a \in Asks /\ a.pc = "row" /\ a.advice = req[r].advice /\ a.was = req[r].was
        /\ a.locked = lease
    BY <1>0, <1>1 DEF Asks
  <1>3. AdviceOK(a)
    BY <1>0, <1>2 DEF AdviceOK, Statuses
  <1>4. req' = [req EXCEPT ![r] = a]
    BY <1>1 DEF Oper!ReadLock, OperInv, OperTypes
  <1>5. TrailOK(r, a.pc)'
    BY <1>0, <1>2, Zenon DEF TrailOK, Audited, Told
  <1> QED
    BY <1>0, <1>2, <1>3, <1>4, <1>5, OperMoves DEF OperInv, OperTypes

LEMMA OperReadRow ==
    ASSUME OperInv, NEW r \in Operators, Oper!ReadRow(r)
    PROVE  OperInv'
  <1>0. /\ req[r] \in Asks /\ AdviceOK(req[r]) /\ req[r].pc = "row" /\ TrailOK(r, "row")
        /\ UNCHANGED <<opNow, lease, status, runs, audit, timeline, evictions, crowd>>
        /\ lease \in BOOLEAN /\ status \in Statuses
    BY Zenon DEF OperInv, OperTypes, AdviceInv, TrailInv, Oper!ReadRow, Oper!At, Oper!tables
  <1>1. PICK x \in {"replay_or_repair", "inspect", "inspect_or_replay_callback"} :
           /\ req' = [req EXCEPT ![r].pc = "explained", ![r].advice = x]
           /\ x = "replay_or_repair" => status = "running" /\ ~req[r].locked
    <2>1. PICK x \in {Oper!Advice(r), "inspect"} :
             req' = [req EXCEPT ![r].pc = "explained", ![r].advice = x]
      BY Zenon DEF Oper!ReadRow
    <2>2. /\ Oper!Advice(r) \in {"replay_or_repair", "inspect", "inspect_or_replay_callback"}
          /\ Oper!Advice(r) = "replay_or_repair" => status = "running" /\ ~req[r].locked
      BY <1>0 DEF Oper!Advice, Statuses
    <2> QED
      BY <2>1, <2>2
  <1>2. PICK a : a = [req[r] EXCEPT !.pc = "explained", !.advice = x]
    OBVIOUS
  <1>3. a \in Asks /\ a.pc = "explained" /\ a.advice = x /\ a.was = req[r].was
    BY <1>0, <1>2 DEF Asks
  <1>4. x = "replay_or_repair" => Founded(req[r].was)
    BY <1>0, <1>1 DEF AdviceOK, Founded
  <1>5. AdviceOK(a)
    BY <1>3, <1>4, Zenon DEF AdviceOK
  <1>6. req' = [req EXCEPT ![r] = a]
    BY <1>1, <1>2 DEF OperInv, OperTypes
  <1>7. TrailOK(r, a.pc)'
    BY <1>0, <1>3, Zenon DEF TrailOK, Audited, Told
  <1> QED
    BY <1>0, <1>3, <1>5, <1>6, <1>7, OperMoves DEF OperInv, OperTypes

\* An audit row: what it leaves alone, and the row itself.
LEMMA OperRecordTrail ==
    ASSUME FiniteLaws, OperInv, NEW r \in Operators, NEW k \in {"replay", "evict"}, Oper!Record(r, k)
    PROVE  /\ OperTypes' /\ TrailInv' /\ AdviceInv'
           /\ req[r].pc = "audit" /\ req'[r].pc = "event" /\ runs' = runs /\ opNow' = opNow
           /\ \A q \in Operators \ {r} : req'[q] = req[q]
           /\ audit' = audit \cup {[kind |-> k, at |-> opNow, by |-> r]}
  <1>1. /\ audit' = audit \cup {[kind |-> k, at |-> opNow, by |-> r]}
        /\ UNCHANGED <<opNow, lease, status, runs, timeline, evictions>>
        /\ req[r].pc = "audit" /\ req' = [req EXCEPT ![r].pc = "event"]
        /\ r \in runs => k = "replay"
        /\ r \notin runs => k = "evict"
    BY Zenon DEF Oper!Record, Oper!At, Oper!Goes
  <1>2. PICK a \in Asks : a.pc = "event" /\ AdviceOK(a) /\ req' = [req EXCEPT ![r] = a]
    BY <1>1, AskGoes, Zenon
  <1>3. /\ req' \in [Operators -> Asks] /\ req'[r] = a
        /\ \A q \in Operators \ {r} : req'[q] = req[q]
    BY <1>2, Zenon DEF OperInv, OperTypes
  <1>4. PICK x : x = [kind |-> k, at |-> opNow, by |-> r]
    OBVIOUS
  <1>5. /\ x \in [kind : {"replay", "evict"}, at : Nat, by : Operators]
        /\ x.by = r /\ x.kind = k /\ audit' = audit \cup {x}
    BY <1>1, <1>4 DEF OperInv, OperTypes
  <1>6. IsFiniteSet(audit')
    BY <1>5, Zenon DEF FiniteLaws, AddLaw, OperInv, OperTypes
  <1>7. crowd' \in Nat
    <2>1. \A S : Cardinality(Operators \cap S) \in Nat
      BY OperAssumption, Zenon DEF FiniteLaws, SubsetLaw, CardinalityLaw
    <2>2. PICK S : S = {q \in Operators \ {r} : Oper!At(q, "run") \/ (Oper!At(q, "audit") /\ q \in runs)}
      OBVIOUS
    <2>3. S = Operators \cap S
      BY <2>2, Zenon
    <2>4. crowd' = crowd + Cardinality(S) \/ crowd' = crowd
      BY <2>2, OperCardinality, Zenon DEF Oper!Record
    <2>5. Cardinality(S) \in Nat
      BY <2>1, <2>3, Zenon
    <2> QED
      BY <2>4, <2>5 DEF OperInv, OperTypes
  <1>8. OperTypes'
    BY <1>1, <1>3, <1>5, <1>6, <1>7, Zenon DEF OperInv, OperTypes
  <1>9. AdviceInv'
    <2> SUFFICES ASSUME NEW q \in Operators PROVE AdviceOK(req[q])'
      BY Zenon DEF AdviceInv
    <2>1. AdviceOK(req'[q])
      BY <1>2, <1>3, Zenon DEF OperInv, AdviceInv
    <2> QED
      BY <1>1, <2>1, Zenon DEF AdviceOK
  <1>10. Audited(r, k)' /\ \A q, m : Audited(q, m) => Audited(q, m)'
    BY <1>5, Zenon DEF Audited
  <1>11. TrailInv'
    <2> SUFFICES ASSUME NEW q \in Operators PROVE TrailOK(q, req[q].pc)'
      BY Zenon DEF TrailInv
    <2>1. TrailOK(q, req[q].pc)
      BY Zenon DEF OperInv, TrailInv
    <2>2. CASE q = r
      <3>1. (r \in runs => Audited(r, "replay")') /\ (r \notin runs => Audited(r, "evict")')
        BY <1>1, <1>10, Zenon
      <3>2. req'[q].pc = "event" /\ runs' = runs /\ evictions' = evictions
        BY <1>1, <1>2, <1>3, <2>2, Zenon
      <3>3. r \in evictions => Audited(r, "evict")'
        BY <1>10, <2>1, <2>2, Zenon DEF TrailOK
      <3> QED
        BY <2>2, <3>1, <3>2, <3>3, Zenon DEF TrailOK
    <2>3. CASE q # r
      <3>1. req'[q] = req[q]
        BY <1>3, <2>3, Zenon
      <3> QED
        BY <1>1, <1>10, <2>1, <3>1, Zenon DEF TrailOK, Told
    <2> QED
      BY <2>2, <2>3, Zenon
  <1> QED
    BY <1>1, <1>2, <1>3, <1>8, <1>9, <1>11, Zenon

\* The row of a replay takes the room the request had, and leaves room to the others
\* by what it adds to crowd; the row of an eviction does not count.
LEMMA OperRecord ==
    ASSUME FiniteLaws, OperInv, NEW r \in Operators, NEW k \in {"replay", "evict"}, Oper!Record(r, k)
    PROVE  OperInv'
  <1>1. /\ OperTypes' /\ TrailInv' /\ AdviceInv'
        /\ req[r].pc = "audit" /\ req'[r].pc = "event" /\ runs' = runs /\ opNow' = opNow
        /\ \A q \in Operators \ {r} : req'[q] = req[q]
        /\ audit' = audit \cup {[kind |-> k, at |-> opNow, by |-> r]}
    BY OperRecordTrail, Zenon
  <1>2. PICK others : others = {q \in Operators \ {r} : req[q].pc = "run" \/ (req[q].pc = "audit" /\ q \in runs)}
    OBVIOUS
  <1>3. Replaying' = others
    BY <1>1, <1>2 DEF Replaying
  <1>4. PICK x : x = [kind |-> k, at |-> opNow, by |-> r]
    OBVIOUS
  <1>5. x.kind = k /\ audit' = audit \cup {x}
    BY <1>1, <1>4
  <1>6. CASE k = "replay"
    <2>1. crowd' = crowd + Cardinality(others) /\ r \in runs
      BY <1>2, <1>6, OperCardinality, Zenon DEF Oper!Record, Oper!At
    <2>2. Cardinality(others) \in Nat /\ (others # {} => Cardinality(others) # 0)
      <3>1. IsFiniteSet(others)
        BY <1>2, OperAssumption, Zenon DEF FiniteLaws, SubsetLaw
      <3> QED
        BY <3>1, Zenon DEF FiniteLaws, CardinalityLaw, EmptyLaw
    <2>3. Cardinality(Oper!Recent) < MaxReplays + crowd
      <3>1. r \in Replaying
        BY <1>1, <2>1, Zenon DEF Replaying
      <3> QED
        BY <3>1, Zenon DEF OperInv, RoomInv
    <2>4. Cardinality(Oper!Recent) \in Nat /\ IsFiniteSet(Oper!Recent)
      BY RecentFinite, Zenon DEF OperInv
    <2>5. Cardinality(Oper!Recent') \in Nat /\ Cardinality(Oper!Recent') <= Cardinality(Oper!Recent) + 1
      <3>1. Oper!Recent' \subseteq Oper!Recent \cup {x}
        BY <1>1, <1>5, Zenon DEF Oper!Recent
      <3>2. /\ IsFiniteSet(Oper!Recent \cup {x})
            /\ \/ Cardinality(Oper!Recent \cup {x}) = Cardinality(Oper!Recent)
               \/ Cardinality(Oper!Recent \cup {x}) = Cardinality(Oper!Recent) + 1
        BY <2>4, Zenon DEF FiniteLaws, AddLaw
      <3>3. /\ IsFiniteSet(Oper!Recent')
            /\ Cardinality(Oper!Recent') <= Cardinality(Oper!Recent \cup {x})
        BY <3>1, <3>2, Zenon DEF FiniteLaws, SubsetLaw
      <3>4. Cardinality(Oper!Recent') \in Nat
        BY <3>3, Zenon DEF FiniteLaws, CardinalityLaw
      <3> QED
        BY <2>4, <3>2, <3>3, <3>4
    <2>6. crowd \in Nat /\ MaxReplays \in Nat
      BY OperAssumption, Zenon DEF OperInv, OperTypes
    <2>7. Cardinality(Oper!Recent') <= MaxReplays + crowd'
      BY <2>1, <2>2, <2>3, <2>4, <2>5, <2>6
    <2>8. others # {} => Cardinality(Oper!Recent') < MaxReplays + crowd'
      BY <2>1, <2>2, <2>3, <2>4, <2>5, <2>6
    <2> QED
      BY <1>1, <1>3, <2>7, <2>8, Zenon DEF OperInv, RoomInv
  <1>7. CASE k = "evict"
    <2>1. crowd' = crowd
      BY <1>7 DEF Oper!Record
    <2>2. Oper!Recent' = Oper!Recent
      BY <1>1, <1>5, <1>7 DEF Oper!Recent
    <2>3. others \subseteq Replaying
      BY <1>2, Zenon DEF Replaying
    <2> QED
      BY <1>1, <1>3, <2>1, <2>2, <2>3, Zenon DEF OperInv, RoomInv
  <1> QED
    BY <1>6, <1>7, Zenon

\* The condition the explanations under way see.
LEMMA SeenFacts ==
    ASSUME NEW rs \in [Operators -> Asks], NEW l \in BOOLEAN, NEW s \in Statuses,
           NEW q \in Operators
    PROVE  /\ Oper!Seen(rs, l, s) \in [Operators -> Asks]
           /\ Oper!Seen(rs, l, s)[q].pc = rs[q].pc
           /\ Oper!Seen(rs, l, s)[q].locked = rs[q].locked
           /\ Oper!Seen(rs, l, s)[q].advice = rs[q].advice
           /\ rs[q].was \subseteq Oper!Seen(rs, l, s)[q].was
           /\ rs[q].pc \in {"lock", "row"} => <<l, s>> \in Oper!Seen(rs, l, s)[q].was
  <1>1. <<l, s>> \in BOOLEAN \X Statuses
    OBVIOUS
  <1>3. ASSUME NEW p \in Operators
        PROVE  /\ Oper!Seen(rs, l, s)[p] \in Asks
               /\ Oper!Seen(rs, l, s)[p].pc = rs[p].pc
               /\ Oper!Seen(rs, l, s)[p].locked = rs[p].locked
               /\ Oper!Seen(rs, l, s)[p].advice = rs[p].advice
               /\ rs[p].was \subseteq Oper!Seen(rs, l, s)[p].was
               /\ rs[p].pc \in {"lock", "row"} => <<l, s>> \in Oper!Seen(rs, l, s)[p].was
    <2>1. PICK a : a = rs[p]
      OBVIOUS
    <2>2. PICK b : b = Oper!Seen(rs, l, s)[p]
      OBVIOUS
    <2>3. PICK c : c = <<l, s>>
      OBVIOUS
    <2>4. \/ a.pc \in {"lock", "row"} /\ b = [a EXCEPT !.was = @ \cup {c}]
          \/ a.pc \notin {"lock", "row"} /\ b = a
      BY <2>1, <2>2, <2>3 DEF Oper!Seen
    <2>5. a \in Asks /\ c \in BOOLEAN \X Statuses
      BY <1>1, <2>1, <2>3, Zenon
    <2>6. /\ b \in Asks /\ b.pc = a.pc /\ b.locked = a.locked /\ b.advice = a.advice
          /\ a.was \subseteq b.was /\ (a.pc \in {"lock", "row"} => c \in b.was)
      <3>1. CASE a.pc \in {"lock", "row"} /\ b = [a EXCEPT !.was = @ \cup {c}]
        BY <2>5, <3>1 DEF Asks
      <3>2. CASE a.pc \notin {"lock", "row"} /\ b = a
        BY <2>5, <3>2, Zenon
      <3> QED
        BY <2>4, <3>1, <3>2, Zenon
    <2> QED
      BY <2>1, <2>2, <2>3, <2>6, Zenon
  <1>4. Oper!Seen(rs, l, s) = [p \in Operators |-> Oper!Seen(rs, l, s)[p]]
    BY Zenon DEF Oper!Seen
  <1> QED
    BY <1>3, <1>4, Zenon

\* What an explanation has seen still supports its advice after a step of the worker or
\* an eviction.
LEMMA AdviceSeen ==
    ASSUME NEW a \in Asks, NEW b \in Asks, AdviceOK(a), lease \in BOOLEAN, status \in Statuses,
           b.pc = a.pc, b.locked = a.locked, b.advice = a.advice, a.was \subseteq b.was,
           b.pc \in {"lock", "row"} => <<lease', status'>> \in b.was,
           \/ status' = status \/ status' = "completed"
           \/ lease /\ lease' /\ status = "queued" /\ status' = "running"
    PROVE  AdviceOK(b)'
  <1>1. Founded(a.was) => Founded(b.was)
    BY Zenon DEF Founded
  <1>2. ASSUME b.pc = "row", ~b.locked
        PROVE  \/ <<FALSE, "running">> \in b.was
               \/ status' = "completed"
               \/ /\ <<FALSE, "queued">> \in b.was
                  /\ status' = "running" => Founded(b.was)
    <2>1. /\ \/ <<FALSE, "running">> \in a.was
             \/ status = "completed"
             \/ /\ <<FALSE, "queued">> \in a.was
                /\ status = "running" => Founded(a.was)
          /\ <<lease, status>> \in a.was /\ <<lease', status'>> \in b.was
      BY <1>2, Zenon DEF AdviceOK
    <2>2. CASE status' = status
      <3>1. status' = "running" => status = "running"
        BY <2>2, Zenon
      <3>2. status = "completed" => status' = "completed"
        BY <2>2, Zenon
      <3> QED
        BY <1>1, <2>1, <3>1, <3>2, Zenon
    <2>3. CASE lease /\ lease' /\ status = "queued" /\ status' = "running"
      <3>1. lease = TRUE
        BY <2>3
      <3>2. status # "completed"
        BY <2>3
      <3>3. <<TRUE, "queued">> \in b.was
        BY <2>1, <2>3, <3>1, Zenon
      <3>4. <<lease', "running">> \in b.was
        BY <2>1, <2>3, Zenon
      <3> QED
        BY <2>1, <2>3, <3>2, <3>3, <3>4 DEF Founded
    <2>4. CASE status' = "completed"
      BY <2>4, Zenon
    <2> QED
      BY <2>2, <2>3, <2>4, Zenon
  <1> QED
    BY <1>1, <1>2, Zenon DEF AdviceOK

\* A step that only lets the explanations see a condition.
LEMMA SeenInv ==
    ASSUME OperInv, NEW rs \in [Operators -> Asks], req' = Oper!Seen(rs, lease', status'),
           lease' \in BOOLEAN, status' \in Statuses,
           \/ status' = status \/ status' = "completed"
           \/ lease /\ lease' /\ status = "queued" /\ status' = "running",
           \A q \in Operators : AdviceOK(rs[q]),
           \A q \in Operators : TrailOK(q, rs[q].pc)',
           \A q \in Operators : rs[q].pc \in {"run", "audit"} => rs[q] = req[q],
           UNCHANGED <<opNow, runs, audit, timeline, crowd>>, evictions' \subseteq Operators
    PROVE  OperInv'
  <1>1. ASSUME NEW q \in Operators
        PROVE  /\ req' \in [Operators -> Asks]
               /\ req'[q].pc = rs[q].pc /\ req'[q].locked = rs[q].locked
               /\ req'[q].advice = rs[q].advice /\ rs[q].was \subseteq req'[q].was
               /\ rs[q].pc \in {"lock", "row"} => <<lease', status'>> \in req'[q].was
    BY SeenFacts, Zenon
  <1>2. req' \in [Operators -> Asks]
    <2>1. req' = [p \in Operators |-> req'[p]]
      BY Zenon DEF Oper!Seen
    <2>2. \A p \in Operators : req'[p] \in Asks
      BY <1>1, Zenon
    <2> QED
      BY <2>1, <2>2, Zenon
  <1>3. OperTypes'
    BY <1>2, Zenon DEF OperInv, OperTypes
  <1>4. TrailInv'
    BY <1>1, Zenon DEF TrailInv
  <1>5. AdviceInv'
    <2> SUFFICES ASSUME NEW q \in Operators PROVE AdviceOK(req[q])'
      BY Zenon DEF AdviceInv
    <2>1. PICK b \in Asks : b = req'[q]
      BY <1>2, Zenon
    <2>2. AdviceOK(b)'
      BY <1>1, <2>1, AdviceSeen, Zenon DEF OperInv, OperTypes
    <2> QED
      BY <2>1, <2>2, Zenon DEF AdviceOK
  <1>6. Replaying' \subseteq Replaying
    BY <1>1, Zenon DEF Replaying
  <1>7. Oper!Recent' = Oper!Recent
    BY Zenon DEF Oper!Recent
  <1>8. RoomInv'
    BY <1>6, <1>7, Zenon DEF OperInv, RoomInv
  <1> QED
    BY <1>3, <1>4, <1>5, <1>8, Zenon DEF OperInv

\* DEL of the lease: the request has its audit row.
LEMMA OperDelete ==
    ASSUME OperInv, NEW r \in Operators, Oper!DeleteLease(r)
    PROVE  OperInv'
  <1>1. PICK e \in Asks : e.pc = "done" /\ AdviceOK(e) /\ e = [Oper!New EXCEPT !.pc = "done"]
    BY AskEnds, Zenon
  <1>2. PICK rs : rs = [req EXCEPT ![r] = e]
    OBVIOUS
  <1>3. /\ rs \in [Operators -> Asks] /\ rs[r] = e
        /\ \A q \in Operators \ {r} : rs[q] = req[q]
    BY <1>2, Zenon DEF OperInv, OperTypes
  <1>4. /\ req[r].pc = "evict" /\ TrailOK(r, "evict")
        /\ lease' = FALSE /\ UNCHANGED <<opNow, status, runs, audit, timeline, crowd>>
        /\ evictions \subseteq evictions' /\ evictions' \subseteq evictions \cup {r}
    BY Zenon DEF Oper!DeleteLease, Oper!At, Oper!tables, OperInv, TrailInv
  <1>5. req' = Oper!Seen(rs, lease', status')
    BY <1>1, <1>2, <1>4, Zenon DEF Oper!DeleteLease
  <1>6. \A q \in Operators : AdviceOK(rs[q])
    BY <1>1, <1>3, Zenon DEF OperInv, AdviceInv
  <1>7. ASSUME NEW q \in Operators PROVE TrailOK(q, rs[q].pc)'
    <2>1. CASE q = r
      <3>1. r \notin runs /\ Audited(r, "evict")
        BY <1>4, Zenon DEF TrailOK
      <3>2. rs[q].pc = "done"
        BY <1>1, <1>3, <2>1, Zenon
      <3> QED
        BY <1>4, <2>1, <3>1, <3>2 DEF TrailOK, Audited
    <2>2. CASE q # r
      <3>1. rs[q] = req[q] /\ (q \in evictions' <=> q \in evictions) /\ TrailOK(q, req[q].pc)
        BY <1>3, <1>4, <2>2, Zenon DEF OperInv, TrailInv
      <3> QED
        BY <1>4, <3>1, Zenon DEF TrailOK, Audited, Told
    <2> QED
      BY <2>1, <2>2, Zenon
  <1>8. \A q \in Operators : rs[q].pc \in {"run", "audit"} => rs[q] = req[q]
    BY <1>1, <1>3
  <1>9. /\ lease' \in BOOLEAN /\ status' \in Statuses /\ status' = status
        /\ evictions' \subseteq Operators
    BY <1>4, Zenon DEF OperInv, OperTypes
  <1> QED
    BY <1>3, <1>4, <1>5, <1>6, <1>7, <1>8, <1>9, SeenInv, Zenon

LEMMA OperWorker ==
    ASSUME OperInv, NEW l \in BOOLEAN, NEW s \in Statuses, Oper!Worker(l, s)
    PROVE  OperInv'
  <1>1. /\ lease' = l /\ status' = s /\ req' = Oper!Seen(req, l, s)
        /\ UNCHANGED <<opNow, runs, audit, timeline, evictions, crowd>>
    BY Zenon DEF Oper!Worker, Oper!tables
  <1>2. \/ status' = status \/ status' = "completed"
        \/ lease /\ lease' /\ status = "queued" /\ status' = "running"
    BY DEF Oper!Worker
  <1>3. \A q \in Operators : TrailOK(q, req[q].pc)
    BY Zenon DEF OperInv, TrailInv
  <1>4. ASSUME NEW rs, rs = req PROVE \A q \in Operators : TrailOK(q, rs[q].pc)'
    BY <1>1, <1>3, <1>4, Zenon DEF TrailOK, Audited, Told
  <1>5. PICK rs : rs = req
    OBVIOUS
  <1>6. /\ rs \in [Operators -> Asks] /\ \A q \in Operators : AdviceOK(rs[q])
        /\ \A q \in Operators : rs[q].pc \in {"run", "audit"} => rs[q] = req[q]
        /\ evictions' \subseteq Operators /\ req' = Oper!Seen(rs, lease', status')
        /\ lease' \in BOOLEAN /\ status' \in Statuses
    BY <1>1, <1>5, Zenon DEF OperInv, OperTypes, AdviceInv
  <1>7. \A q \in Operators : TrailOK(q, rs[q].pc)'
    BY <1>4, <1>5, Zenon
  <1> QED
    BY <1>1, <1>2, <1>6, <1>7, SeenInv, Zenon

\* Time takes replays out of the window, never into it.
LEMMA OperTick ==
    ASSUME FiniteLaws, OperInv, Oper!Tick
    PROVE  OperInv'
  <1>1. /\ UNCHANGED <<lease, status, runs, audit, timeline, req, evictions, crowd>>
        /\ opNow' = opNow + 1
    BY Zenon DEF Oper!Tick, Oper!tables
  <1>2. OperTypes'
    <2>1. opNow' \in Nat
      BY <1>1 DEF OperInv, OperTypes
    <2> QED
      BY <1>1, <2>1, Zenon DEF OperInv, OperTypes
  <1>3. TrailInv' /\ AdviceInv'
    BY <1>1, Zenon DEF OperInv, TrailInv, AdviceInv, TrailOK, AdviceOK, Audited, Told
  <1>4. Oper!Recent' \subseteq Oper!Recent
    <2> SUFFICES ASSUME NEW x \in Oper!Recent' PROVE x \in Oper!Recent
      BY Zenon
    <2>1. x \in audit /\ x.kind = "replay" /\ x.at >= opNow' - ReplayWindow
      BY <1>1, Zenon DEF Oper!Recent
    <2>2. x.at \in Nat /\ opNow \in Nat
      BY <2>1 DEF OperInv, OperTypes
    <2>3. x.at >= opNow - ReplayWindow
      BY <1>1, <2>1, <2>2, OperAssumption
    <2> QED
      BY <2>1, <2>3, Zenon DEF Oper!Recent
  <1>5. /\ Cardinality(Oper!Recent) \in Nat /\ IsFiniteSet(Oper!Recent)
        /\ Cardinality(Oper!Recent') \in Nat
        /\ Cardinality(Oper!Recent') <= Cardinality(Oper!Recent)
    <2>1. IsFiniteSet(Oper!Recent)
      BY RecentFinite, Zenon DEF OperInv
    <2>2. IsFiniteSet(Oper!Recent') /\ Cardinality(Oper!Recent') <= Cardinality(Oper!Recent)
      BY <1>4, <2>1, Zenon DEF FiniteLaws, SubsetLaw
    <2> QED
      BY <2>1, <2>2, Zenon DEF FiniteLaws, CardinalityLaw
  <1>6. Replaying' = Replaying
    BY <1>1, Zenon DEF Replaying
  <1>7. crowd \in Nat /\ MaxReplays \in Nat
    BY OperAssumption, Zenon DEF OperInv, OperTypes
  <1>8. /\ Cardinality(Oper!Recent') <= MaxReplays + crowd
        /\ Replaying # {} => Cardinality(Oper!Recent') < MaxReplays + crowd
    BY <1>5, <1>7 DEF OperInv, RoomInv
  <1>9. RoomInv'
    BY <1>1, <1>6, <1>8, Zenon DEF RoomInv
  <1> QED
    BY <1>2, <1>3, <1>9, Zenon DEF OperInv

LEMMA OperInit ==
    ASSUME FiniteLaws, Oper!Init
    PROVE  OperInv
  <1>1. Oper!New \in Asks /\ Oper!New.pc = "new" /\ Oper!New.advice = None
    BY DEF Oper!New, Asks
  <1>2. /\ \A r \in Operators : req[r] = Oper!New
        /\ req \in [Operators -> Asks]
    BY <1>1, Zenon DEF Oper!Init
  <1>3. AdviceInv
    BY <1>1, <1>2, OperAssumption DEF AdviceInv, AdviceOK
  <1>4. TrailInv
    <2>1. runs = {} /\ evictions = {} /\ \A r \in Operators : req[r].pc = "new"
      BY <1>1, <1>2, Zenon DEF Oper!Init
    <2> QED
      BY <2>1 DEF TrailInv, TrailOK
  <1>5. RoomInv
    <2>1. Oper!Recent = {} /\ crowd = 0
      BY Zenon DEF Oper!Init, Oper!Recent
    <2>2. Cardinality(Oper!Recent) = 0
      BY <2>1, Zenon DEF FiniteLaws, EmptyLaw
    <2>3. Replaying = {}
      BY <1>1, <1>2 DEF Replaying
    <2> QED
      BY <2>1, <2>2, <2>3, OperAssumption DEF RoomInv
  <1>6. OperTypes
    BY <1>2 DEF FiniteLaws, EmptyLaw, Oper!Init, OperTypes, Statuses
  <1> QED
    BY <1>3, <1>4, <1>5, <1>6, Zenon DEF OperInv

LEMMA OperNext ==
    ASSUME FiniteLaws, OperInv, [Oper!Next]_(Oper!vars)
    PROVE  OperInv'
  <1>1. CASE UNCHANGED Oper!vars
    BY <1>1, Zenon DEF Oper!vars, OperInv, OperTypes, RoomInv, TrailInv, AdviceInv, TrailOK, AdviceOK,
       Audited, Told, Replaying, Oper!Recent
  <1>2. CASE Oper!ForceRoutes
    BY <1>2, OperEvict, OperRecord, OperDelete, Zenon DEF Oper!ForceRoutes, Oper!Eviction
  <1>3. ASSUME NEW r \in Operators, Oper!Replay(r) PROVE OperInv'
    BY <1>3, OperAsk, OperLease, OperCount, OperRun, OperRecord, OperEmitReplay, Zenon DEF Oper!Replay
  <1>4. ASSUME NEW r \in Operators, Oper!Explanation(r) PROVE OperInv'
    BY <1>4, OperExplain, OperReadLock, OperReadRow, Zenon DEF Oper!Explanation
  <1> QED
    BY <1>1, <1>2, <1>3, <1>4, OperEmitAudit, OperFails, OperWorker, OperTick, Zenon
    DEF Oper!Next, Statuses

-----------------------------------------------------------------------------
(* QueueStats                                                              *)

CONSTANTS Caps, StatCallers, Stripped, StatsTtl, StatsLatency, MaxTotal, StatsHorizon

ASSUME StatsAssumption == StatsTtl \in Nat /\ StatsLatency \in Nat

VARIABLES total, known, cache, stamp, call, answer, floor, statNow

Stats == INSTANCE QueueStats WITH
    Callers <- StatCallers, Ttl <- StatsTtl, Latency <- StatsLatency,
    Horizon <- StatsHorizon, now <- statNow

Names == Stats!Names
Counters == [Names -> Nat]
Calls == [pc : {"idle", "discover", "scan", "register", "count", "store", "sadd", "invalidate"},
          caps : SUBSET Names, counts : Counters, at : Nat, need : Counters]
Replies == [counts : Counters, need : Counters, age : Int]
StatsTypes ==
    /\ total \in Counters /\ floor \in Counters /\ known \subseteq Names
    /\ cache \in [caps : SUBSET Names, counts : Counters, at : Nat]
    /\ statNow \in Nat /\ stamp \in {Stats!Never} \cup Nat
    /\ call \in [StatCallers -> Calls] /\ answer \in [StatCallers -> Replies]

\* What the floor counts is registered and no more than what there is.
FloorInv == \A q \in Names : floor[q] > 0 => q \in known /\ floor[q] <= total[q]

\* A cache that may be answered from has the floor, and was read no longer than a
\* refresh before its stamp.
CacheInv ==
    stamp # Stats!Never /\ cache.caps # {} =>
       /\ stamp - cache.at <= StatsLatency
       /\ \A q \in Names : floor[q] > 0 => q \in cache.caps /\ floor[q] <= cache.counts[q]

\* A refresh in flight will have the floor.
CallOK(b) ==
    /\ \A q \in Names : b.need[q] <= floor[q]
    /\ b.pc \in {"scan", "register"} => \A q \in Names : floor[q] = 0
    /\ b.pc \in {"count", "store"} => \A q \in Names : floor[q] > 0 => q \in b.caps
    /\ b.pc = "store" => /\ statNow - b.at <= StatsLatency
                         /\ \A q \in Names : floor[q] <= b.counts[q]
ReplyOK(a) ==
    /\ \A q \in Names : a.counts[q] >= a.need[q]
    /\ a.age <= StatsTtl + StatsLatency

StatsInv ==
    /\ StatsTypes /\ FloorInv /\ CacheInv
    /\ \A x \in StatCallers : CallOK(call[x]) /\ ReplyOK(answer[x])

\* A step of one call that leaves the counters, the floor and the clock alone.
LEMMA CallMoves ==
    ASSUME StatsInv, NEW c \in StatCallers, NEW b \in Calls, CallOK(b),
           call' = [call EXCEPT ![c] = b], UNCHANGED <<floor, statNow>>
    PROVE  /\ call' \in [StatCallers -> Calls]
           /\ \A x \in StatCallers : CallOK(call[x])'
  <1>1. /\ call' \in [StatCallers -> Calls] /\ call'[c] = b
        /\ \A x \in StatCallers \ {c} : call'[x] = call[x]
    BY Zenon DEF StatsInv, StatsTypes
  <1>2. ASSUME NEW x \in StatCallers PROVE CallOK(call[x])'
    <2>1. CallOK(call'[x])
      BY <1>1, Zenon DEF StatsInv
    <2> QED
      BY <2>1, Zenon DEF CallOK
  <1> QED
    BY <1>1, <1>2, Zenon

\* An answer from a cache that has the floor and is recent enough.
LEMMA AnswerGiven ==
    ASSUME StatsInv, NEW c \in StatCallers,
           NEW from \in [caps : SUBSET Names, counts : Counters, at : Nat],
           Stats!Answer(c, from), call'[c].need \in Counters,
           \A q \in Names : call'[c].need[q] <= floor[q],
           \A q \in Names : floor[q] > 0 => q \in from.caps /\ floor[q] <= from.counts[q],
           from.caps # {} => statNow - from.at <= StatsTtl + StatsLatency
    PROVE  /\ answer' \in [StatCallers -> Replies]
           /\ \A x \in StatCallers : ReplyOK(answer'[x])
  <1>1. PICK n : n = [q \in Names |-> IF q \in from.caps THEN from.counts[q] ELSE 0]
    OBVIOUS
  <1>2. PICK g : g = IF from.caps = {} THEN 0 ELSE statNow - from.at
    OBVIOUS
  <1>3. PICK m : m = call'[c].need
    OBVIOUS
  <1>4. PICK a : a = [counts |-> n, need |-> m, age |-> g]
    OBVIOUS
  <1>5. answer' = [answer EXCEPT ![c] = a]
    BY <1>1, <1>2, <1>3, <1>4, Zenon DEF Stats!Answer, Names
  <1>6. n \in Counters /\ m \in Counters
    BY <1>1, <1>3 DEF Counters
  <1>7. g \in Int /\ g <= StatsTtl + StatsLatency
    BY <1>2, StatsAssumption DEF StatsInv, StatsTypes
  <1>8. \A q \in Names : n[q] >= m[q]
    <2> SUFFICES ASSUME NEW q \in Names PROVE n[q] >= m[q]
      OBVIOUS
    <2>1. m[q] <= floor[q] /\ m[q] \in Nat /\ floor[q] \in Nat /\ n[q] \in Nat
      BY <1>3, <1>6 DEF Counters, StatsInv, StatsTypes
    <2>2. CASE floor[q] > 0
      <3>1. n[q] = from.counts[q] /\ floor[q] <= from.counts[q]
        BY <1>1, <2>2, Zenon
      <3> QED
        BY <2>1, <3>1
    <2>3. CASE ~(floor[q] > 0)
      BY <2>1, <2>3
    <2> QED
      BY <2>2, <2>3, Zenon
  <1>9. a \in Replies /\ a.counts = n /\ a.need = m /\ a.age = g
    BY <1>4, <1>6, <1>7 DEF Replies
  <1>10. ReplyOK(a)
    BY <1>7, <1>8, <1>9, Zenon DEF ReplyOK
  <1>11. /\ answer' \in [StatCallers -> Replies] /\ answer'[c] = a
         /\ \A x \in StatCallers \ {c} : answer'[x] = answer[x]
    BY <1>5, <1>9, Zenon DEF StatsInv, StatsTypes
  <1> QED
    BY <1>10, <1>11, Zenon DEF StatsInv

LEMMA StatsIdle ==
    /\ Stats!Zero \in Counters /\ \A q \in Names : Stats!Zero[q] = 0
    /\ Stats!Idle \in Calls /\ Stats!Idle.pc = "idle" /\ Stats!Idle.need = Stats!Zero
  <1>1. Stats!Zero \in Counters /\ \A q \in Names : Stats!Zero[q] = 0
    BY DEF Stats!Zero, Counters, Names
  <1> HIDE DEF Stats!Zero
  <1>2. Stats!Idle \in Calls /\ Stats!Idle.pc = "idle" /\ Stats!Idle.need = Stats!Zero
    BY <1>1 DEF Stats!Idle, Calls
  <1> QED
    BY <1>1, <1>2, Zenon

LEMMA StatsGet ==
    ASSUME StatsInv, NEW c \in StatCallers, Stats!Get(c)
    PROVE  StatsInv'
  <1>0. UNCHANGED <<total, known, cache, stamp, floor, statNow>>
    BY Zenon DEF Stats!Get
  <1>1. PICK p \in {"idle", "discover"} :
           call' = [call EXCEPT ![c] = [Stats!Idle EXCEPT !.pc = p, !.need = floor]]
    BY Zenon DEF Stats!Get
  <1>2. PICK b : b = [Stats!Idle EXCEPT !.pc = p, !.need = floor]
    OBVIOUS
  <1>3. floor \in Counters /\ \A q \in Names : floor[q] <= floor[q]
    BY DEF StatsInv, StatsTypes, Counters
  <1>4. \A i \in Calls : LET m == [i EXCEPT !.pc = p, !.need = floor]
                         IN m \in Calls /\ m.pc = p /\ m.need = floor
    BY <1>3 DEF Calls
  <1>5. b \in Calls /\ b.pc = p /\ b.need = floor
    BY <1>2, <1>4, StatsIdle, Zenon
  <1>6. CallOK(b)
    BY <1>3, <1>5 DEF CallOK
  <1>7. /\ call' \in [StatCallers -> Calls] /\ \A x \in StatCallers : CallOK(call[x])'
        /\ call'[c] = b
    BY <1>0, <1>1, <1>2, <1>5, <1>6, CallMoves, Zenon DEF StatsInv, StatsTypes
  <1>8. CASE Stats!Fresh
    <2>1. Stats!Answer(c, cache)
      BY <1>8, Zenon DEF Stats!Get
    <2>2. cache.caps # {} /\ statNow - stamp <= StatsTtl
      BY <1>8, Zenon DEF Stats!Fresh
    <2>3. statNow \in Nat /\ cache.at \in Nat /\ stamp \in {Stats!Never} \cup Nat
      BY DEF StatsInv, StatsTypes
    <2>4. stamp # Stats!Never
      BY <2>2, <2>3, StatsAssumption DEF Stats!Never
    <2>5. /\ stamp - cache.at <= StatsLatency
          /\ \A q \in Names : floor[q] > 0 => q \in cache.caps /\ floor[q] <= cache.counts[q]
      BY <2>2, <2>4, Zenon DEF StatsInv, CacheInv
    <2>6. statNow - cache.at <= StatsTtl + StatsLatency
      BY <2>2, <2>3, <2>4, <2>5, StatsAssumption
    <2>7. /\ answer' \in [StatCallers -> Replies]
          /\ \A x \in StatCallers : ReplyOK(answer'[x])
      BY <1>3, <1>5, <1>7, <2>1, <2>5, <2>6, AnswerGiven, Zenon DEF StatsInv, StatsTypes
    <2> QED
      BY <1>0, <1>7, <2>7, Zenon DEF StatsInv, StatsTypes, FloorInv, CacheInv, ReplyOK
  <1>9. CASE ~Stats!Fresh
    <2>1. answer' = answer
      BY <1>9, Zenon DEF Stats!Get
    <2> QED
      BY <1>0, <1>7, <2>1, Zenon DEF StatsInv, StatsTypes, FloorInv, CacheInv, ReplyOK
  <1> QED
    BY <1>8, <1>9, Zenon

\* A step of a call that changes nothing but the call.
LEMMA CallOnly ==
    ASSUME StatsInv, NEW c \in StatCallers, NEW b \in Calls, CallOK(b),
           call' = [call EXCEPT ![c] = b],
           UNCHANGED <<total, cache, stamp, answer, floor, statNow>>,
           known \subseteq known', known' \subseteq Names
    PROVE  StatsInv'
  <1>1. call' \in [StatCallers -> Calls] /\ \A x \in StatCallers : CallOK(call[x])'
    BY CallMoves, Zenon
  <1> QED
    BY <1>1, Zenon DEF StatsInv, StatsTypes, FloorInv, CacheInv, ReplyOK

LEMMA StatsDiscover ==
    ASSUME StatsInv, NEW c \in StatCallers, Stats!Discover(c)
    PROVE  StatsInv'
  <1>1. PICK p \in {"scan", "count"} :
           /\ call' = [call EXCEPT ![c].caps = known, ![c].pc = p]
           /\ p = "scan" => known = {}
    BY Zenon DEF Stats!Discover
  <1>2. PICK b : b = [call[c] EXCEPT !.caps = known, !.pc = p]
    OBVIOUS
  <1>3. call[c] \in Calls /\ CallOK(call[c]) /\ known \in SUBSET Names /\ floor \in Counters
    BY Zenon DEF StatsInv, StatsTypes
  <1>4. b \in Calls /\ b.pc = p /\ b.caps = known /\ b.need = call[c].need
    BY <1>2, <1>3 DEF Calls
  <1>5. \A q \in Names : floor[q] > 0 => q \in known
    BY Zenon DEF StatsInv, FloorInv
  <1>6. p = "scan" => \A q \in Names : floor[q] = 0
    BY <1>1, <1>3, <1>5 DEF Counters
  <1>7. p \in {"scan", "register"} => p = "scan"
    BY <1>1
  <1>8. p # "store"
    BY <1>1
  <1>9. CallOK(b)
    BY <1>3, <1>4, <1>5, <1>6, <1>7, <1>8, Zenon DEF CallOK
  <1>10. call' = [call EXCEPT ![c] = b]
    BY <1>1, <1>2 DEF StatsInv, StatsTypes
  <1> QED
    BY <1>3, <1>4, <1>9, <1>10, CallOnly, Zenon DEF Stats!Discover

\* A call that comes to rest, or goes on to a place where it has read nothing.
LEMMA CallRests ==
    ASSUME StatsInv, NEW c \in StatCallers, NEW p \in {"idle", "invalidate"}
    PROVE  LET rest == [call[c] EXCEPT !.pc = p]
           IN  rest \in Calls /\ CallOK(rest) /\ rest.need = call[c].need
  <1>1. PICK rest : rest = [call[c] EXCEPT !.pc = p]
    OBVIOUS
  <1>2. call[c] \in Calls /\ CallOK(call[c])
    BY Zenon DEF StatsInv, StatsTypes
  <1>3. rest \in Calls /\ rest.pc = p /\ rest.need = call[c].need
    BY <1>1, <1>2 DEF Calls
  <1>4. p \notin {"scan", "register", "count", "store"}
    OBVIOUS
  <1>5. CallOK(rest)
    BY <1>2, <1>3, <1>4, Zenon DEF CallOK
  <1> QED
    BY <1>1, <1>3, <1>5, Zenon

LEMMA StatsScan ==
    ASSUME StatsInv, NEW c \in StatCallers, Stats!Scan(c)
    PROVE  StatsInv'
  <1>1. PICK found : found = {Stripped[q] : q \in {p \in Caps : total[p] > 0}}
    OBVIOUS
  <1>2. found \in SUBSET Names
    BY <1>1 DEF Names, Stats!Names
  <1>3. /\ call[c] \in Calls /\ CallOK(call[c]) /\ call[c].pc = "scan" /\ call[c].need \in Counters
        /\ call \in [StatCallers -> Calls]
    BY DEF StatsInv, StatsTypes, Stats!Scan, Calls
  <1>4. \A q \in Names : floor[q] = 0
    BY <1>3 DEF CallOK
  <1>5. CASE found = {}
    <2>1. /\ call' = [call EXCEPT ![c].pc = "idle"]
          /\ cache' = [caps |-> {}, counts |-> Stats!Zero, at |-> 0]
          /\ Stats!Answer(c, cache')
          /\ UNCHANGED <<total, known, stamp, floor, statNow>>
      BY <1>1, <1>5, Zenon DEF Stats!Scan
    <2>2. PICK b : b = [call[c] EXCEPT !.pc = "idle"]
      OBVIOUS
    <2>3. b \in Calls /\ CallOK(b) /\ b.need = call[c].need
      BY <2>2, CallRests, Zenon
    <2>4. call' = [call EXCEPT ![c] = b] /\ call'[c] = b
      BY <1>3, <2>1, <2>2
    <2>5. call' \in [StatCallers -> Calls] /\ \A x \in StatCallers : CallOK(call[x])'
      BY <2>1, <2>3, <2>4, CallMoves, Zenon
    <2>6. cache' \in [caps : SUBSET Names, counts : Counters, at : Nat] /\ cache'.caps = {}
      <3>1. Stats!Zero \in Counters
        BY StatsIdle, Zenon
      <3> HIDE DEF Stats!Zero
      <3> QED
        BY <2>1, <3>1
    <2>7. \A q \in Names : floor[q] > 0 => q \in cache'.caps /\ floor[q] <= cache'.counts[q]
      BY <1>4
    <2>8. /\ answer' \in [StatCallers -> Replies]
          /\ \A x \in StatCallers : ReplyOK(answer'[x])
      BY <1>3, <2>1, <2>3, <2>4, <2>6, <2>7, AnswerGiven, Zenon DEF CallOK
    <2>9. CacheInv'
      BY <2>6, Zenon DEF CacheInv
    <2> QED
      BY <2>1, <2>5, <2>6, <2>8, <2>9, Zenon DEF StatsInv, StatsTypes, FloorInv, ReplyOK
  <1>6. CASE found # {}
    <2>1. /\ call' = [call EXCEPT ![c].pc = "register", ![c].caps = found]
          /\ UNCHANGED <<total, known, cache, answer, stamp, floor, statNow>>
      BY <1>1, <1>6, Zenon DEF Stats!Scan
    <2>2. PICK b : b = [call[c] EXCEPT !.pc = "register", !.caps = found]
      OBVIOUS
    <2>3. b \in Calls /\ b.pc = "register" /\ b.need = call[c].need
      BY <1>2, <1>3, <2>2 DEF Calls
    <2>4. CallOK(b)
      BY <1>3, <1>4, <2>3 DEF CallOK
    <2>5. call' = [call EXCEPT ![c] = b]
      BY <1>3, <2>1, <2>2
    <2> QED
      BY <2>1, <2>3, <2>4, <2>5, CallOnly, Zenon DEF StatsInv, StatsTypes
  <1> QED
    BY <1>5, <1>6, Zenon

LEMMA StatsRegister ==
    ASSUME StatsInv, NEW c \in StatCallers, Stats!Register(c)
    PROVE  StatsInv'
  <1>1. /\ call[c] \in Calls /\ CallOK(call[c]) /\ call[c].caps \in SUBSET Names
        /\ call \in [StatCallers -> Calls] /\ call[c].pc = "register" /\ known \subseteq Names
    BY DEF StatsInv, StatsTypes, Stats!Register, Calls
  <1>2. PICK b : b = [call[c] EXCEPT !.pc = "count"]
    OBVIOUS
  <1>3. b \in Calls /\ b.pc = "count" /\ b.need = call[c].need
    BY <1>1, <1>2 DEF Calls
  <1>4. \A q \in Names : floor[q] = 0
    BY <1>1 DEF CallOK
  <1>5. CallOK(b)
    BY <1>1, <1>3, <1>4 DEF CallOK
  <1>6. call' = [call EXCEPT ![c] = b]
    BY <1>1, <1>2 DEF Stats!Register
  <1>7. known' = known \cup call[c].caps
    BY Zenon DEF Stats!Register
  <1>8. known \subseteq known' /\ known' \subseteq Names
    BY <1>1, <1>7
  <1> QED
    BY <1>3, <1>5, <1>6, <1>8, CallOnly, Zenon DEF Stats!Register

LEMMA StatsCount ==
    ASSUME StatsInv, NEW c \in StatCallers, Stats!Count(c)
    PROVE  StatsInv'
  <1>1. /\ call[c] \in Calls /\ CallOK(call[c]) /\ call \in [StatCallers -> Calls]
        /\ call[c].pc = "count" /\ total \in Counters /\ statNow \in Nat /\ floor \in Counters
    BY Zenon DEF StatsInv, StatsTypes, Stats!Count
  <1>2. PICK b : b = [call[c] EXCEPT !.pc = "store", !.counts = total, !.at = statNow]
    OBVIOUS
  <1>3. /\ b \in Calls /\ b.pc = "store" /\ b.need = call[c].need /\ b.counts = total
        /\ b.at = statNow /\ b.caps = call[c].caps
    BY <1>1, <1>2 DEF Calls
  <1>4. \A q \in Names : floor[q] <= total[q]
    BY <1>1 DEF StatsInv, FloorInv, Counters
  <1>5. CallOK(b)
    BY <1>1, <1>3, <1>4, StatsAssumption DEF CallOK
  <1>6. call' = [call EXCEPT ![c] = b]
    BY <1>1, <1>2 DEF Stats!Count
  <1> QED
    BY <1>3, <1>5, <1>6, CallOnly, Zenon DEF Stats!Count, StatsInv, StatsTypes

LEMMA StatsStore ==
    ASSUME StatsInv, NEW c \in StatCallers, Stats!Store(c)
    PROVE  StatsInv'
  <1>1. /\ call[c] \in Calls /\ CallOK(call[c]) /\ call \in [StatCallers -> Calls]
        /\ call[c].pc = "store" /\ statNow \in Nat /\ call[c].need \in Counters
    BY DEF StatsInv, StatsTypes, Stats!Store, Calls
  <1>2. /\ call' = [call EXCEPT ![c].pc = "idle"]
        /\ cache' = [caps |-> call[c].caps, counts |-> call[c].counts, at |-> call[c].at]
        /\ stamp' = statNow /\ Stats!Answer(c, cache')
        /\ UNCHANGED <<total, known, floor, statNow>>
    BY Zenon DEF Stats!Store
  <1>3. PICK b : b = [call[c] EXCEPT !.pc = "idle"]
    OBVIOUS
  <1>4. b \in Calls /\ CallOK(b) /\ b.need = call[c].need
    BY <1>3, CallRests, Zenon
  <1>5. call' = [call EXCEPT ![c] = b] /\ call'[c] = b
    BY <1>1, <1>2, <1>3
  <1>6. call' \in [StatCallers -> Calls] /\ \A x \in StatCallers : CallOK(call[x])'
    BY <1>2, <1>4, <1>5, CallMoves, Zenon
  <1>7. /\ cache' \in [caps : SUBSET Names, counts : Counters, at : Nat]
        /\ cache'.caps = call[c].caps /\ cache'.counts = call[c].counts /\ cache'.at = call[c].at
    BY <1>1, <1>2 DEF Calls
  <1>8. /\ statNow - cache'.at <= StatsLatency
        /\ \A q \in Names : floor[q] > 0 => q \in cache'.caps /\ floor[q] <= cache'.counts[q]
    BY <1>1, <1>7 DEF CallOK
  <1>9. statNow - cache'.at <= StatsTtl + StatsLatency
    BY <1>1, <1>7, <1>8, StatsAssumption
  <1>10. /\ answer' \in [StatCallers -> Replies]
         /\ \A x \in StatCallers : ReplyOK(answer'[x])
    BY <1>1, <1>2, <1>4, <1>5, <1>7, <1>8, <1>9, AnswerGiven, Zenon DEF CallOK
  <1>11. CacheInv'
    BY <1>2, <1>8, Zenon DEF CacheInv
  <1>12. stamp' \in {Stats!Never} \cup Nat /\ Stats!Never' = Stats!Never
    BY <1>1, <1>2 DEF Stats!Never
  <1> QED
    BY <1>2, <1>6, <1>7, <1>10, <1>11, <1>12, Zenon DEF StatsInv, StatsTypes, FloorInv, ReplyOK

LEMMA StatsSadd ==
    ASSUME StatsInv, NEW c \in StatCallers, Stats!Sadd(c) \/ Stats!SaddFails(c)
    PROVE  StatsInv'
  <1>1. /\ call[c] \in Calls /\ call[c].caps \in SUBSET Names
        /\ call \in [StatCallers -> Calls] /\ known \subseteq Names
    BY DEF StatsInv, StatsTypes, Calls
  <1>2. PICK p \in {"idle", "invalidate"} : call' = [call EXCEPT ![c].pc = p]
    BY Zenon DEF Stats!Sadd, Stats!SaddFails
  <1>3. PICK b : b = [call[c] EXCEPT !.pc = p]
    OBVIOUS
  <1>4. b \in Calls /\ CallOK(b)
    BY <1>3, CallRests, Zenon
  <1>5. call' = [call EXCEPT ![c] = b]
    BY <1>1, <1>2, <1>3
  <1>6. known' = known \cup call[c].caps \/ known' = known
    BY Zenon DEF Stats!Sadd, Stats!SaddFails
  <1>7. known \subseteq known' /\ known' \subseteq Names
    BY <1>1, <1>6
  <1>8. UNCHANGED <<total, cache, stamp, answer, floor, statNow>>
    BY Zenon DEF Stats!Sadd, Stats!SaddFails
  <1> QED
    BY <1>4, <1>5, <1>7, <1>8, CallOnly, Zenon

\* A task that is counted leaves the floor below the counters.
LEMMA StatsCounted ==
    ASSUME StatsInv, NEW q \in Caps, total' = [total EXCEPT ![q] = @ + 1],
           UNCHANGED floor, known \subseteq known'
    PROVE  total' \in Counters /\ FloorInv'
  <1>1. total \in Counters /\ floor \in Counters /\ q \in Names
    BY DEF StatsInv, StatsTypes, Names, Stats!Names
  <1>2. total' \in Counters /\ \A n \in Names : total[n] <= total'[n] /\ total[n] \in Nat /\ total'[n] \in Nat
    BY <1>1 DEF Counters
  <1>3. \A n \in Names : floor[n] > 0 => floor[n] <= total'[n]
    BY <1>1, <1>2 DEF StatsInv, FloorInv, Counters
  <1> QED
    BY <1>2, <1>3, Zenon DEF StatsInv, FloorInv

LEMMA StatsEnqueue ==
    ASSUME StatsInv, NEW c \in StatCallers, NEW q \in Caps, Stats!Enqueue(c, q)
    PROVE  StatsInv'
  <1>1. /\ total' = [total EXCEPT ![q] = @ + 1]
        /\ call' = [call EXCEPT ![c] = [Stats!Idle EXCEPT !.pc = "sadd", !.caps = {q}]]
        /\ UNCHANGED <<known, cache, stamp, answer, floor, statNow>>
    BY Zenon DEF Stats!Enqueue
  <1>2. total' \in Counters /\ FloorInv'
    BY <1>1, StatsCounted, Zenon
  <1>3. {q} \in SUBSET Names /\ floor \in Counters
    BY DEF StatsInv, StatsTypes, Names, Stats!Names
  <1>4. PICK b : b = [Stats!Idle EXCEPT !.pc = "sadd", !.caps = {q}]
    OBVIOUS
  <1>5. \A i \in Calls : LET m == [i EXCEPT !.pc = "sadd", !.caps = {q}]
                         IN m \in Calls /\ m.pc = "sadd" /\ m.need = i.need
    BY <1>3 DEF Calls
  <1>6. b \in Calls /\ b.pc = "sadd" /\ b.need = Stats!Zero
    BY <1>4, <1>5, StatsIdle, Zenon
  <1>7. \A n \in Names : b.need[n] <= floor[n]
    BY <1>3, <1>6, StatsIdle DEF Counters
  <1>8. CallOK(b)
    BY <1>6, <1>7 DEF CallOK
  <1>9. call' \in [StatCallers -> Calls] /\ \A x \in StatCallers : CallOK(call[x])'
    BY <1>1, <1>4, <1>6, <1>8, CallMoves, Zenon
  <1> QED
    BY <1>1, <1>2, <1>9, Zenon DEF StatsInv, StatsTypes, CacheInv, ReplyOK

LEMMA StatsOther ==
    ASSUME StatsInv, NEW q \in Caps, Stats!OtherEnqueue(q)
    PROVE  StatsInv'
  <1>1. /\ total' = [total EXCEPT ![q] = @ + 1] /\ known' = known \cup {q}
        /\ UNCHANGED <<cache, stamp, call, answer, floor, statNow>>
    BY Zenon DEF Stats!OtherEnqueue
  <1>2. known \subseteq known' /\ known' \subseteq Names
    BY <1>1 DEF StatsInv, StatsTypes, Names, Stats!Names
  <1>3. total' \in Counters /\ FloorInv'
    BY <1>1, <1>2, StatsCounted, Zenon
  <1> QED
    BY <1>1, <1>2, <1>3, Zenon DEF StatsInv, StatsTypes, CacheInv, CallOK, ReplyOK

\* With no refresh in flight the floor rises to what is counted: no call has read
\* anything that it could store below it, and the cache is no longer answered from.
LEMMA StatsInvalidate ==
    ASSUME StatsInv, NEW c \in StatCallers, Stats!Invalidate(c)
    PROVE  StatsInv'
  <1>1. /\ call' = [call EXCEPT ![c].pc = "idle"] /\ stamp' = Stats!Never
        /\ UNCHANGED <<total, known, cache, answer, statNow>>
        /\ floor' = IF Stats!InFlight THEN floor ELSE Stats!Counted
    BY Zenon DEF Stats!Invalidate
  <1>2. PICK b : b = [call[c] EXCEPT !.pc = "idle"]
    OBVIOUS
  <1>3. b \in Calls /\ CallOK(b) /\ b.pc = "idle" /\ b.need = call[c].need
    <2>1. b \in Calls /\ CallOK(b) /\ b.need = call[c].need
      BY <1>2, CallRests, Zenon
    <2>2. call[c] \in Calls
      BY Zenon DEF StatsInv, StatsTypes
    <2> QED
      BY <1>2, <2>1, <2>2 DEF Calls
  <1>4. call' = [call EXCEPT ![c] = b] /\ call \in [StatCallers -> Calls]
    BY <1>1, <1>2 DEF StatsInv, StatsTypes
  <1>5. /\ call' \in [StatCallers -> Calls] /\ call'[c] = b
        /\ \A x \in StatCallers \ {c} : call'[x] = call[x]
    BY <1>3, <1>4, Zenon
  <1>6. CacheInv'
    BY <1>1, Zenon DEF CacheInv, Stats!Never
  <1>7. stamp' \in {Stats!Never'} \cup Nat
    BY <1>1, Zenon DEF Stats!Never
  <1>8. CASE Stats!InFlight
    <2>1. floor' = floor
      BY <1>1, <1>8, Zenon
    <2>2. \A x \in StatCallers : CallOK(call'[x])
      BY <1>3, <1>5, Zenon DEF StatsInv
    <2>3. \A x \in StatCallers : CallOK(call[x])'
      BY <1>1, <2>1, <2>2, Zenon DEF CallOK
    <2> QED
      BY <1>1, <1>5, <1>6, <1>7, <2>1, <2>3, Zenon DEF StatsInv, StatsTypes, FloorInv, ReplyOK
  <1>9. CASE ~Stats!InFlight
    <2>0. floor \in Counters /\ total \in Counters
      BY Zenon DEF StatsInv, StatsTypes
    <2>1. floor' = [q \in Names |-> IF q \in known THEN total[q] ELSE 0]
      BY <1>1, <1>9, Zenon DEF Stats!Counted, Names
    <2>2. /\ floor' \in Counters
          /\ \A q \in Names : floor'[q] > 0 => q \in known /\ floor'[q] <= total[q]
      BY <2>0, <2>1 DEF Counters
    <2>3. FloorInv'
      BY <1>1, <2>2, Zenon DEF FloorInv
    <2>4. \A q \in Names : floor[q] <= floor'[q]
      BY <2>0, <2>1 DEF StatsInv, FloorInv, Counters
    <2>5. ASSUME NEW x \in StatCallers PROVE CallOK(call[x])'
      <3>1. /\ \A q \in Names : call'[x].need[q] <= floor[q]
            /\ call'[x].pc \notin {"scan", "register", "count", "store"}
            /\ call'[x] \in Calls
        <4>1. CASE x = c
          <5>1. \A q \in Names : b.need[q] <= floor[q]
            BY <1>3, Zenon DEF CallOK
          <5> QED
            BY <1>3, <1>5, <4>1, <5>1
        <4>2. CASE x # c
          <5>1. call'[x] = call[x] /\ CallOK(call[x]) /\ call[x] \in Calls
            BY <1>4, <1>5, <4>2, Zenon DEF StatsInv
          <5>2. call[x].pc \notin {"scan", "register", "count", "store"}
            BY <1>9, Zenon DEF Stats!InFlight
          <5> QED
            BY <5>1, <5>2, Zenon DEF CallOK
        <4> QED
          BY <4>1, <4>2, Zenon
      <3>2. \A q \in Names : call'[x].need[q] <= floor'[q]
        <4> SUFFICES ASSUME NEW q \in Names PROVE call'[x].need[q] <= floor'[q]
          OBVIOUS
        <4>1. call'[x].need \in Counters
          BY <3>1 DEF Calls
        <4>2. call'[x].need[q] \in Nat /\ floor[q] \in Nat /\ floor'[q] \in Nat
          BY <2>0, <2>2, <4>1 DEF Counters
        <4> QED
          BY <2>4, <3>1, <4>2
      <3> QED
        BY <3>1, <3>2, Zenon DEF CallOK
    <2> QED
      BY <1>1, <1>5, <1>6, <1>7, <2>2, <2>3, <2>5, Zenon DEF StatsInv, StatsTypes, ReplyOK
  <1> QED
    BY <1>8, <1>9, Zenon

LEMMA StatsTick ==
    ASSUME StatsInv, Stats!Tick
    PROVE  StatsInv'
  <1>1. /\ statNow' = statNow + 1 /\ UNCHANGED <<total, known, cache, stamp, call, answer, floor>>
        /\ \A x \in StatCallers : call[x].pc = "store" => statNow - call[x].at < StatsLatency
    BY Zenon DEF Stats!Tick
  <1>2. statNow \in Nat /\ statNow' \in Nat
    BY <1>1 DEF StatsInv, StatsTypes
  <1>3. ASSUME NEW x \in StatCallers PROVE CallOK(call[x])'
    <2>1. call[x] \in Calls /\ CallOK(call[x])
      BY Zenon DEF StatsInv, StatsTypes
    <2>2. call[x].at \in Nat
      BY <2>1 DEF Calls
    <2>3. call[x].pc = "store" => statNow' - call[x].at <= StatsLatency
      BY <1>1, <1>2, <2>2, StatsAssumption
    <2> QED
      BY <1>1, <2>1, <2>3, Zenon DEF CallOK
  <1> QED
    BY <1>1, <1>2, <1>3, Zenon DEF StatsInv, StatsTypes, FloorInv, CacheInv, ReplyOK

LEMMA StatsInvariant == Stats!Spec => []StatsInv
  <1>1. Stats!Init => StatsInv
    <2> SUFFICES ASSUME Stats!Init PROVE StatsInv
      OBVIOUS
    <2>1. /\ total = Stats!Zero /\ floor = Stats!Zero /\ known = {} /\ stamp = Stats!Never /\ statNow = 0
          /\ cache = [caps |-> {}, counts |-> Stats!Zero, at |-> 0]
          /\ call = [c \in StatCallers |-> Stats!Idle]
          /\ answer = [c \in StatCallers |-> [counts |-> Stats!Zero, need |-> Stats!Zero, age |-> 0]]
      BY Zenon DEF Stats!Init
    <2> HIDE DEF Stats!Zero, Stats!Idle
    <2>2. /\ cache \in [caps : SUBSET Names, counts : Counters, at : Nat] /\ statNow \in Nat
          /\ known \subseteq Names
      BY <2>1, StatsIdle
    <2>3. PICK a : a = [counts |-> Stats!Zero, need |-> Stats!Zero, age |-> 0]
      OBVIOUS
    <2>4. a \in Replies /\ a.counts = Stats!Zero /\ a.need = Stats!Zero /\ a.age = 0
      BY <2>3, StatsIdle DEF Replies
    <2>5. ReplyOK(a)
      BY <2>4, StatsIdle, StatsAssumption DEF ReplyOK
    <2>6. CallOK(Stats!Idle)
      BY <2>1, StatsIdle DEF CallOK
    <2>7. FloorInv
      BY <2>1, StatsIdle DEF FloorInv
    <2>8. CacheInv
      BY <2>1, Zenon DEF CacheInv
    <2>9. \A x \in StatCallers : call[x] = Stats!Idle /\ answer[x] = a
      BY <2>1, <2>3, Zenon
    <2>10. call \in [StatCallers -> Calls] /\ answer \in [StatCallers -> Replies]
      BY <2>1, <2>3, <2>4, StatsIdle, Zenon
    <2>11. StatsTypes
      BY <2>1, <2>2, <2>10, StatsIdle, Zenon DEF StatsTypes
    <2> QED
      BY <2>5, <2>6, <2>7, <2>8, <2>9, <2>11, Zenon DEF StatsInv
  <1>2. StatsInv /\ [Stats!Next]_Stats!vars => StatsInv'
    <2> SUFFICES ASSUME StatsInv, [Stats!Next]_Stats!vars PROVE StatsInv'
      OBVIOUS
    <2>1. CASE Stats!Next
      BY <2>1, StatsGet, StatsDiscover, StatsScan, StatsRegister, StatsCount, StatsStore,
         StatsSadd, StatsInvalidate, StatsEnqueue, StatsOther, StatsTick, Zenon DEF Stats!Next
    <2>2. CASE UNCHANGED Stats!vars
      BY <2>2, Zenon DEF Stats!vars, StatsInv, StatsTypes, FloorInv, CacheInv, CallOK, ReplyOK,
                         Stats!Never
    <2> QED
      BY <2>1, <2>2, Zenon
  <1> QED
    BY <1>1, <1>2, PTL DEF Stats!Spec

-----------------------------------------------------------------------------
(* TaskApi                                                                 *)

CONSTANTS LastId, PageSize, PollTimeout, ApiOps

VARIABLES rows, walk, wait, apiOps

Api == INSTANCE TaskApi WITH
    Ids <- 1..LastId, Limit <- PageSize, Timeout <- PollTimeout, MaxOps <- ApiOps,
    ops <- apiOps

Ids == 1..LastId
Row == [tenant : Api!Owners, status : Api!Live \cup Api!Terminal]

ASSUME ApiAssumption ==
    LastId \in Nat /\ PageSize \in Nat \ {0} /\ PollTimeout \in Nat /\ None \notin Row

\* Everything before the cursor that was steady has been listed once, and nothing after
\* it has.
Walks == [pc : {"idle", "page", "end"}, filter : {None, "queued"}, cursor : 0..LastId,
          counts : [Ids -> {0, 1}], steady : SUBSET Ids]
WalkInv ==
    /\ walk \in Walks
    /\ walk.pc = "page" =>
          /\ \A i \in Ids : walk.counts[i] = 1 => i <= walk.cursor
          /\ \A i \in walk.steady : /\ Api!Matches(i, walk.filter)
                                    /\ i <= walk.cursor => walk.counts[i] = 1
    /\ walk.pc = "end" => \A i \in walk.steady : walk.counts[i] = 1

\* A terminal status that a poll has seen is still the row's.
Waits == [pc : {"new", "poll", "asked", "result", "failed", "timeout", "error", "200", "409"},
          id : Ids \cup {None}, left : 0..PollTimeout, saw : {None} \cup Api!Live \cup Api!Terminal]
WaitInv ==
    /\ wait \in Waits
    /\ wait.pc \notin {"new", "error"} => wait.id \in Ids /\ rows[wait.id] \in Row
    /\ wait.pc = "asked" /\ wait.saw \in Api!Terminal => rows[wait.id].status = wait.saw
    /\ wait.pc = "result" => rows[wait.id].status = "completed"
    /\ wait.pc = "failed" => rows[wait.id].status \in Api!Terminal
    /\ wait.pc = "timeout" => wait.saw \notin Api!Terminal
    /\ wait.pc = "409" => rows[wait.id].status = "cancelled"

ApiInv == rows \in [Ids -> {None} \cup Row] /\ WalkInv /\ WaitInv

\* A nonempty set of ids has a greatest element, which Greatest chooses.
LEMMA GreatestOf ==
    ASSUME FiniteLaws, NEW S \in SUBSET Ids, S # {}
    PROVE  Api!Greatest(S) \in S /\ \A j \in S : j <= Api!Greatest(S)
  <1> DEFINE T == {n \in Nat : \E i \in S : n = LastId - i}
  <1>1. PICK i \in S : TRUE
    OBVIOUS
  <1>2. \A j \in S : j \in Nat /\ LastId - j \in Nat
    BY ApiAssumption DEF Ids
  <1>3. LastId - i \in T
    BY <1>2, Zenon
  <1>4. PICK x \in T : \A y \in T : x <= y
    BY <1>3, Zenon DEF FiniteLaws, LeastLaw
  <1>5. PICK m \in S : x = LastId - m
    BY <1>4, Zenon
  <1>6. ASSUME NEW j \in S PROVE j <= m
    <2>1. x <= LastId - j
      BY <1>2, <1>4, Zenon
    <2> QED
      BY <1>2, <1>5, <2>1, ApiAssumption
  <1>7. \E k \in S : \A j \in S : j <= k
    BY <1>6, Zenon
  <1> QED
    BY <1>7, Zenon DEF Api!Greatest

LEMMA ApiCardinality == \A S : Api!Cardinality(S) = Cardinality(S)
  BY Zenon DEF Api!Cardinality, Cardinality

\* The part of S before i.
LEMMA BelowFinite ==
    ASSUME FiniteLaws, NEW S \in SUBSET Ids, NEW i
    PROVE  /\ IsFiniteSet(S) /\ Cardinality(S) \in Nat
           /\ IsFiniteSet({j \in S : j < i}) /\ Cardinality({j \in S : j < i}) \in Nat
  <1>1. IsFiniteSet(Ids)
    BY ApiAssumption DEF FiniteLaws, IntervalLaw, Ids
  <1>2. IsFiniteSet(S)
    BY <1>1, Zenon DEF FiniteLaws, SubsetLaw
  <1>3. IsFiniteSet({j \in S : j < i})
    BY <1>2, Zenon DEF FiniteLaws, SubsetLaw
  <1> QED
    BY <1>2, <1>3, Zenon DEF FiniteLaws, CardinalityLaw

\* A page is a beginning of what was found, not empty if something was, and all of it
\* if no more was found than fits.
LEMMA PageFacts ==
    ASSUME FiniteLaws, NEW S \in SUBSET Ids, NEW P, P = Api!FirstOf(S, PageSize)
    PROVE  /\ P \subseteq S
           /\ \A i \in S, j \in P : i <= j => i \in P
           /\ S # {} => P # {}
           /\ ~(Cardinality(S) > PageSize) => P = S
  <1> DEFINE below(i) == {j \in S : j < i}
  <1>1. P = {i \in S : Cardinality(below(i)) < PageSize}
    BY ApiCardinality, Zenon DEF Api!FirstOf
  <1>2. \A i \in S : i \in Nat
    BY ApiAssumption DEF Ids
  <1>3. \A i : IsFiniteSet(below(i)) /\ Cardinality(below(i)) \in Nat
    BY BelowFinite, Zenon
  <1>4. IsFiniteSet(S) /\ Cardinality(S) \in Nat
    BY BelowFinite, Zenon
  <1>5. ASSUME NEW i \in S, NEW j \in P, i <= j PROVE i \in P
    <2>1. j \in S /\ Cardinality(below(j)) < PageSize
      BY <1>1, Zenon
    <2>2. below(i) \subseteq below(j)
      BY <1>2, <1>5, <2>1
    <2>3. Cardinality(below(i)) <= Cardinality(below(j))
      BY <1>3, <2>2, Zenon DEF FiniteLaws, SubsetLaw
    <2>4. Cardinality(below(i)) \in Nat /\ Cardinality(below(j)) \in Nat
      BY <1>3, Zenon
    <2> HIDE DEF below
    <2>5. Cardinality(below(i)) < PageSize
      BY <2>1, <2>3, <2>4, ApiAssumption
    <2> QED
      BY <1>1, <2>5, Zenon
  <1>6. ASSUME S # {} PROVE P # {}
    <2>1. S \in SUBSET Nat
      BY <1>2, Zenon
    <2>2. PICK x \in S : \A y \in S : x <= y
      BY <1>6, <2>1, Zenon DEF FiniteLaws, LeastLaw
    <2>3. below(x) = {}
      BY <1>2, <2>2
    <2>4. Cardinality(below(x)) = 0
      BY <2>3, Zenon DEF FiniteLaws, EmptyLaw
    <2>5. x \in P
      BY <1>1, <2>4, ApiAssumption
    <2> QED
      BY <2>5, Zenon
  <1>7. ASSUME ~(Cardinality(S) > PageSize) PROVE P = S
    <2>1. ASSUME NEW i \in S PROVE i \in P
      <3>1. below(i) \subseteq S \ {i}
        BY <1>2
      <3>2. IsFiniteSet(S \ {i}) /\ Cardinality(S \ {i}) = Cardinality(S) - 1
        BY <1>4, Zenon DEF FiniteLaws, RemoveLaw
      <3>3. Cardinality(below(i)) <= Cardinality(S \ {i})
        BY <3>1, <3>2, Zenon DEF FiniteLaws, SubsetLaw
      <3>4. Cardinality(below(i)) \in Nat
        BY <1>3, Zenon
      <3> HIDE DEF below
      <3>5. Cardinality(below(i)) < PageSize
        BY <1>4, <1>7, <3>2, <3>3, <3>4, ApiAssumption
      <3> QED
        BY <1>1, <3>5, Zenon
    <2> QED
      BY <1>1, <2>1, Zenon
  <1> QED
    BY <1>1, <1>5, <1>6, <1>7, Zenon

\* The next page continues the walk: it lists nothing again and leaves out nothing that
\* was there all along.
LEMMA ApiPage ==
    ASSUME FiniteLaws, ApiInv, Api!Page
    PROVE  WalkInv'
  <1>1. PICK S : S = Api!After(walk.cursor, walk.filter)
    OBVIOUS
  <1>2. PICK P : P = Api!FirstOf(S, PageSize)
    OBVIOUS
  <1>3. S = {i \in Ids : i > walk.cursor /\ Api!Matches(i, walk.filter)}
    BY <1>1, Zenon DEF Api!After, Ids
  <1>4. /\ P \subseteq S
        /\ \A i \in S, j \in P : i <= j => i \in P
        /\ S # {} => P # {}
        /\ ~(Cardinality(S) > PageSize) => P = S
    BY <1>2, <1>3, PageFacts, Zenon
  <1>5. walk \in Walks /\ walk.pc = "page" /\ rows' = rows
    BY Zenon DEF ApiInv, WalkInv, Api!Page
  <1>6. PICK n : n = [i \in Ids |-> IF i \in P THEN walk.counts[i] + 1 ELSE walk.counts[i]]
    OBVIOUS
  <1>7. \A i \in Ids : i \in Nat
    BY ApiAssumption DEF Ids
  <1>8. \A i \in P : walk.counts[i] = 0
    BY <1>3, <1>4, <1>5, <1>7 DEF ApiInv, WalkInv, Walks
  <1>9. /\ n \in [Ids -> {0, 1}] /\ \A i \in P : n[i] = 1
        /\ \A i \in Ids \ P : n[i] = walk.counts[i]
    BY <1>3, <1>4, <1>5, <1>6, <1>8 DEF Walks
  <1>10. CASE Cardinality(S) > PageSize
    <2>1. walk' = [walk EXCEPT !.pc = "page", !.cursor = Api!Greatest(P), !.counts = n]
      BY <1>1, <1>2, <1>6, <1>10, ApiCardinality, Zenon DEF Api!Page, Api!NextCursor, Ids
    <2>2. S # {}
      BY <1>10, ApiAssumption DEF FiniteLaws, EmptyLaw
    <2>3. PICK g : g = Api!Greatest(P)
      OBVIOUS
    <2>4. g \in P /\ \A j \in P : j <= g
      <3>1. P \in SUBSET Ids /\ P # {}
        BY <1>3, <1>4, <2>2, Zenon
      <3> QED
        BY <2>3, <3>1, GreatestOf, Zenon
    <2>5. g \in Ids /\ g > walk.cursor /\ g \in 0..LastId
      BY <1>3, <1>4, <2>4, ApiAssumption DEF Ids
    <2>6. /\ walk' \in Walks /\ walk'.pc = "page" /\ walk'.cursor = g /\ walk'.counts = n
          /\ walk'.filter = walk.filter /\ walk'.steady = walk.steady
      BY <1>5, <1>9, <2>1, <2>3, <2>5 DEF Walks
    <2>7. walk.cursor \in Nat /\ g \in Nat
      BY <1>5, <1>7, <2>5 DEF Walks
    <2>8. ASSUME NEW i \in Ids, n[i] = 1 PROVE i <= g
      <3>1. CASE i \in P
        BY <2>4, <3>1, Zenon
      <3>2. CASE i \notin P
        <4>1. i <= walk.cursor
          BY <1>5, <1>9, <2>8, <3>2, Zenon DEF ApiInv, WalkInv
        <4> QED
          BY <1>7, <2>5, <2>7, <4>1
      <3> QED
        BY <3>1, <3>2, Zenon
    <2>9. ASSUME NEW i \in walk.steady
          PROVE  Api!Matches(i, walk.filter) /\ (i <= g => n[i] = 1)
      <3>1. i \in Ids /\ Api!Matches(i, walk.filter) /\ (i <= walk.cursor => walk.counts[i] = 1)
        BY <1>5 DEF ApiInv, WalkInv, Walks
      <3>2. CASE i <= walk.cursor
        <4>1. i \notin P
          BY <1>3, <1>4, <1>7, <2>7, <3>1, <3>2
        <4> QED
          BY <1>9, <3>1, <3>2, <4>1, Zenon
      <3>3. CASE ~(i <= walk.cursor)
        <4>1. i \in S
          BY <1>3, <1>7, <2>7, <3>1, <3>3
        <4>2. i <= g => i \in P
          BY <1>4, <2>4, <4>1, Zenon
        <4> QED
          BY <1>9, <3>1, <4>2, Zenon
      <3> QED
        BY <3>2, <3>3, Zenon
    <2>10. \A i : Api!Matches(i, walk.filter)' <=> Api!Matches(i, walk.filter)
      BY <1>5, <2>6, Zenon DEF Api!Matches, Api!Visible
    <2>11. walk'.pc # "end"
      BY <2>6
    <2> QED
      BY <2>6, <2>8, <2>9, <2>10, <2>11, Zenon DEF WalkInv
  <1>11. CASE ~(Cardinality(S) > PageSize)
    <2>1. walk' = [walk EXCEPT !.pc = "end", !.cursor = walk.cursor, !.counts = n]
      BY <1>1, <1>2, <1>6, <1>11, ApiCardinality, Zenon DEF Api!Page, Ids
    <2>2. /\ walk' \in Walks /\ walk'.pc = "end" /\ walk'.counts = n
          /\ walk'.steady = walk.steady
      BY <1>5, <1>9, <2>1 DEF Walks
    <2>3. ASSUME NEW i \in walk.steady PROVE n[i] = 1
      <3>1. i \in Ids /\ Api!Matches(i, walk.filter) /\ (i <= walk.cursor => walk.counts[i] = 1)
        BY <1>5 DEF ApiInv, WalkInv, Walks
      <3>2. walk.cursor \in Nat /\ i \in Nat
        BY <1>5, <1>7, <3>1 DEF Walks
      <3>3. ~(i <= walk.cursor) => i \in P
        BY <1>3, <1>4, <1>11, <3>1, <3>2
      <3>4. i <= walk.cursor => i \notin P
        BY <1>3, <1>4, <3>2
      <3> QED
        BY <1>9, <3>1, <3>3, <3>4, Zenon
    <2>4. walk'.pc # "page"
      BY <2>2
    <2> QED
      BY <2>2, <2>3, <2>4, Zenon DEF WalkInv
  <1> QED
    BY <1>10, <1>11, Zenon

LEMMA ApiBegin ==
    ASSUME ApiInv, NEW f \in {None, "queued"}, Api!Begin(f)
    PROVE  WalkInv'
  <1>1. PICK S : S = {i \in Ids : Api!Matches(i, f)}
    OBVIOUS
  <1>2. walk' = [Api!NoWalk EXCEPT !.pc = "page", !.filter = f, !.steady = S] /\ rows' = rows
    BY <1>1, Zenon DEF Api!Begin, Ids
  <1>3. /\ walk' \in Walks /\ walk'.pc = "page" /\ walk'.filter = f /\ walk'.cursor = 0
        /\ walk'.steady = S /\ \A i \in Ids : walk'.counts[i] = 0
    <2>1. PICK w : w = Api!NoWalk
      OBVIOUS
    <2>2. w \in Walks /\ w.cursor = 0 /\ w.counts = [i \in Ids |-> 0]
      BY <2>1, ApiAssumption DEF Api!NoWalk, Walks, Ids
    <2>3. S \in SUBSET Ids /\ walk' = [w EXCEPT !.pc = "page", !.filter = f, !.steady = S]
      BY <1>1, <1>2, <2>1, Zenon
    <2>4. /\ walk' \in Walks /\ walk'.pc = "page" /\ walk'.filter = f /\ walk'.cursor = 0
          /\ walk'.steady = S /\ walk'.counts = [i \in Ids |-> 0]
      BY <2>2, <2>3 DEF Walks
    <2> QED
      BY <2>4, Zenon
  <1>4. \A i \in Ids : i \in Nat /\ ~(i <= 0)
    BY ApiAssumption DEF Ids
  <1>5. \A i \in S : i \in Ids /\ Api!Matches(i, f)
    BY <1>1, Zenon
  <1>6. \A i : Api!Matches(i, f)' <=> Api!Matches(i, f)
    BY <1>2, Zenon DEF Api!Matches, Api!Visible
  <1> QED
    BY <1>3, <1>4, <1>5, <1>6 DEF WalkInv

\* Rows change: what has changed is no longer steady.
LEMMA ApiObserved ==
    ASSUME ApiInv, walk' = [walk EXCEPT !.steady = Api!Steady(rows')]
    PROVE  WalkInv'
  <1>1. PICK S : S = Api!Steady(rows')
    OBVIOUS
  <1>2. S \subseteq walk.steady /\ \A i \in S : rows'[i] = rows[i]
    BY <1>1, Zenon DEF Api!Steady
  <1>3. walk' = [walk EXCEPT !.steady = S]
    BY <1>1, Zenon
  <1>4. /\ walk' \in Walks /\ walk'.pc = walk.pc /\ walk'.filter = walk.filter
        /\ walk'.cursor = walk.cursor /\ walk'.counts = walk.counts /\ walk'.steady = S
    BY <1>2, <1>3 DEF ApiInv, WalkInv, Walks
  <1>5. \A i \in S : Api!Matches(i, walk.filter) => Api!Matches(i, walk.filter)'
    BY <1>2, <1>4, Zenon DEF Api!Matches, Api!Visible
  <1>6. walk.pc = "page" => \A i \in S : Api!Matches(i, walk.filter)'
    BY <1>2, <1>5, Zenon DEF ApiInv, WalkInv
  <1> QED
    BY <1>2, <1>4, <1>6, Zenon DEF ApiInv, WalkInv

\* Rows appear and change, but a row that has ended stays as it is.
LEMMA WaitKept ==
    ASSUME ApiInv, wait' = wait,
           \A j \in Ids : rows[j] \in Row =>
              /\ rows'[j] \in Row
              /\ rows[j].status \in Api!Terminal => rows'[j].status = rows[j].status
    PROVE  WaitInv'
  <1>1. wait.pc = "result" => wait.pc \notin {"new", "error"} /\ "completed" \in Api!Terminal
    BY DEF Api!Terminal
  <1>2. wait.pc = "409" => wait.pc \notin {"new", "error"} /\ "cancelled" \in Api!Terminal
    BY DEF Api!Terminal
  <1>3. wait.pc = "failed" => wait.pc \notin {"new", "error"}
    OBVIOUS
  <1>4. wait.pc = "asked" => wait.pc \notin {"new", "error"}
    OBVIOUS
  <1> QED
    BY <1>1, <1>2, <1>3, <1>4, Zenon DEF ApiInv, WaitInv, Api!Terminal

LEMMA ApiAppear ==
    ASSUME ApiInv, NEW i \in Ids, NEW t \in Api!Owners, Api!Appear(i, t)
    PROVE  ApiInv'
  <1>1. /\ rows[i] = None /\ rows' = [rows EXCEPT ![i] = [tenant |-> t, status |-> "queued"]]
        /\ walk' = [walk EXCEPT !.steady = Api!Steady(rows')] /\ wait' = wait
    BY Zenon DEF Api!Appear, Api!Observed
  <1>2. [tenant |-> t, status |-> "queued"] \in Row
    BY DEF Row, Api!Live
  <1>3. rows' \in [Ids -> {None} \cup Row] /\ \A j \in Ids \ {i} : rows'[j] = rows[j]
    BY <1>1, <1>2, Zenon DEF ApiInv
  <1>4. WaitInv'
    BY <1>1, <1>3, ApiAssumption, WaitKept, Zenon
  <1> QED
    BY <1>1, <1>3, <1>4, ApiObserved, Zenon DEF ApiInv

LEMMA ApiChange ==
    ASSUME ApiInv, NEW i \in Ids, NEW s \in Api!Live \cup Api!Terminal, Api!Change(i, s)
    PROVE  ApiInv'
  <1>1. /\ rows[i] # None /\ rows[i].status \in Api!Live /\ rows' = [rows EXCEPT ![i].status = s]
        /\ walk' = [walk EXCEPT !.steady = Api!Steady(rows')] /\ wait' = wait
    BY Zenon DEF Api!Change, Api!Observed
  <1>2. PICK x : x = [rows[i] EXCEPT !.status = s]
    OBVIOUS
  <1>3. rows[i] \in Row
    BY <1>1, Zenon DEF ApiInv
  <1>4. x \in Row
    BY <1>2, <1>3 DEF Row
  <1>5. rows' = [rows EXCEPT ![i] = x]
    BY <1>1, <1>2, Zenon
  <1>6. /\ rows' \in [Ids -> {None} \cup Row] /\ rows'[i] = x
        /\ \A j \in Ids \ {i} : rows'[j] = rows[j]
    BY <1>4, <1>5, Zenon DEF ApiInv
  <1>7. rows[i].status \notin Api!Terminal
    BY <1>1 DEF Api!Live, Api!Terminal
  <1>8. WaitInv'
    BY <1>1, <1>4, <1>6, <1>7, WaitKept, Zenon
  <1> QED
    BY <1>1, <1>6, <1>8, ApiObserved, Zenon DEF ApiInv

LEMMA ApiSubmit ==
    ASSUME ApiInv, NEW i \in Ids, Api!Submit(i)
    PROVE  ApiInv'
  <1>1. /\ rows' = [rows EXCEPT ![i] = [tenant |-> "mine", status |-> "queued"]]
        /\ walk' = [walk EXCEPT !.steady = Api!Steady(rows')]
        /\ wait' = [wait EXCEPT !.pc = "poll", !.id = i]
    BY Zenon DEF Api!Submit
  <1>2. [tenant |-> "mine", status |-> "queued"] \in Row
    BY DEF Row, Api!Live, Api!Owners
  <1>3. rows' \in [Ids -> {None} \cup Row] /\ rows'[i] \in Row
    BY <1>1, <1>2, Zenon DEF ApiInv
  <1>4. wait' \in Waits /\ wait'.pc = "poll" /\ wait'.id = i
    BY <1>1 DEF ApiInv, WaitInv, Waits
  <1>5. WaitInv'
    BY <1>3, <1>4 DEF WaitInv
  <1> QED
    BY <1>1, <1>3, <1>5, ApiObserved, Zenon DEF ApiInv

\* The steps that leave the rows and the walk alone.
LEMMA WalkKept ==
    ASSUME ApiInv, UNCHANGED <<rows, walk>>, WaitInv'
    PROVE  ApiInv'
  BY Zenon DEF ApiInv, WalkInv, Api!Matches, Api!Visible

LEMMA ApiError ==
    ASSUME ApiInv, wait' = [wait EXCEPT !.pc = "error"], UNCHANGED <<rows, walk>>
    PROVE  ApiInv'
  <1>1. wait' \in Waits /\ wait'.pc = "error"
    BY DEF ApiInv, WaitInv, Waits
  <1>2. WaitInv'
    BY <1>1 DEF WaitInv
  <1> QED
    BY <1>2, WalkKept, Zenon

LEMMA ApiAsk ==
    ASSUME ApiInv, Api!Ask
    PROVE  ApiInv'
  <1>1. /\ wait.pc = "poll" /\ wait' = [wait EXCEPT !.pc = "asked", !.saw = rows[wait.id].status]
        /\ UNCHANGED <<rows, walk>>
    BY Zenon DEF Api!Ask
  <1>2. wait \in Waits /\ wait.id \in Ids /\ rows[wait.id] \in Row
    BY <1>1 DEF ApiInv, WaitInv
  <1>3. rows[wait.id].status \in Api!Live \cup Api!Terminal
    BY <1>2 DEF Row
  <1>4. wait' \in Waits /\ wait'.pc = "asked" /\ wait'.id = wait.id /\ wait'.saw = rows[wait.id].status
    BY <1>1, <1>2, <1>3 DEF Waits
  <1>5. WaitInv'
    BY <1>1, <1>2, <1>4 DEF WaitInv
  <1> QED
    BY <1>1, <1>5, WalkKept, Zenon

LEMMA VerdictFacts ==
    ASSUME NEW s, NEW n \in 0..PollTimeout
    PROVE  \/ Api!Verdict(s, n) = "result" /\ s = "completed"
           \/ Api!Verdict(s, n) = "failed" /\ s \in Api!Terminal
           \/ Api!Verdict(s, n) = "timeout" /\ s \notin Api!Terminal
           \/ Api!Verdict(s, n) = "poll" /\ n - 1 \in 0..PollTimeout
  <1>1. CASE s = "completed"
    BY <1>1 DEF Api!Verdict
  <1>2. CASE s \in Api!Terminal \ {"completed"}
    BY <1>2 DEF Api!Verdict
  <1>3. CASE s \notin Api!Terminal /\ n = 0
    <2>1. s # "completed"
      BY <1>3 DEF Api!Terminal
    <2> QED
      BY <1>3, <2>1 DEF Api!Verdict
  <1>4. CASE s \notin Api!Terminal /\ n # 0
    <2>1. s # "completed"
      BY <1>4 DEF Api!Terminal
    <2>2. Api!Verdict(s, n) = "poll"
      BY <1>4, <2>1 DEF Api!Verdict
    <2> QED
      BY <1>4, <2>2, ApiAssumption
  <1> QED
    BY <1>1, <1>2, <1>3, <1>4, Zenon

LEMMA ApiAnswer ==
    ASSUME ApiInv, Api!Answer
    PROVE  ApiInv'
  <1>1. PICK v : v = Api!Verdict(wait.saw, wait.left)
    OBVIOUS
  <1>2. /\ wait.pc = "asked" /\ UNCHANGED <<rows, walk>>
        /\ wait' = [wait EXCEPT !.pc = v, !.left = IF v = "poll" THEN wait.left - 1 ELSE wait.left]
    BY <1>1, Zenon DEF Api!Answer
  <1>3. /\ wait \in Waits /\ wait.id \in Ids /\ rows[wait.id] \in Row
        /\ wait.saw \in Api!Terminal => rows[wait.id].status = wait.saw
    BY <1>2 DEF ApiInv, WaitInv
  <1>4. \/ v = "result" /\ wait.saw = "completed"
        \/ v = "failed" /\ wait.saw \in Api!Terminal
        \/ v = "timeout" /\ wait.saw \notin Api!Terminal
        \/ v = "poll" /\ wait.left - 1 \in 0..PollTimeout
    <2>1. wait.left \in 0..PollTimeout
      BY <1>3 DEF Waits
    <2> QED
      BY <1>1, <2>1, VerdictFacts, Zenon
  <1>5. PICK n : n = IF v = "poll" THEN wait.left - 1 ELSE wait.left
    OBVIOUS
  <1>6. n \in 0..PollTimeout
    BY <1>3, <1>4, <1>5 DEF Waits
  <1>7. wait' \in Waits /\ wait'.pc = v /\ wait'.id = wait.id /\ wait'.saw = wait.saw
    <2>1. wait' = [wait EXCEPT !.pc = v, !.left = n]
      BY <1>2, <1>5, Zenon
    <2>2. v \in {"result", "failed", "timeout", "poll"}
      BY <1>4, Zenon
    <2> QED
      BY <1>3, <1>6, <2>1, <2>2 DEF Waits
  <1>8. WaitInv'
    BY <1>2, <1>3, <1>4, <1>7 DEF WaitInv, Api!Terminal
  <1> QED
    BY <1>2, <1>8, WalkKept, Zenon

LEMMA ApiGetResult ==
    ASSUME ApiInv, Api!GetResult
    PROVE  ApiInv'
  <1>1. /\ wait.pc \in {"result", "failed"} /\ UNCHANGED <<rows, walk>>
        /\ \/ /\ wait' = [wait EXCEPT !.pc = "200"]
           \/ /\ wait' = [wait EXCEPT !.pc = "409"]
              /\ rows[wait.id].status \notin {"completed", "failed"}
    BY Zenon DEF Api!GetResult
  <1>2. /\ wait \in Waits /\ wait.id \in Ids /\ rows[wait.id] \in Row
        /\ rows[wait.id].status \in Api!Terminal
    BY <1>1 DEF ApiInv, WaitInv, Api!Terminal
  <1>3. /\ wait' \in Waits /\ wait'.id = wait.id
        /\ wait'.pc = "200" \/ (wait'.pc = "409" /\ rows[wait.id].status \notin {"completed", "failed"})
    BY <1>1, <1>2 DEF Waits
  <1>4. WaitInv'
    BY <1>1, <1>2, <1>3 DEF WaitInv, Api!Terminal
  <1> QED
    BY <1>1, <1>4, WalkKept, Zenon

LEMMA ApiInit ==
    ASSUME Api!Init
    PROVE  ApiInv
  <1>1. [tenant |-> "mine", status |-> "queued"] \in Row
    BY DEF Row, Api!Live, Api!Owners
  <1>2. rows \in [Ids -> {None} \cup Row]
    BY <1>1 DEF Api!Init, Ids
  <1>3. WalkInv
    BY ApiAssumption DEF Api!Init, Api!NoWalk, WalkInv, Walks, Ids
  <1>4. WaitInv
    BY ApiAssumption DEF Api!Init, Api!NoWait, WaitInv, Waits
  <1> QED
    BY <1>2, <1>3, <1>4, Zenon DEF ApiInv

LEMMA ApiNext ==
    ASSUME FiniteLaws, ApiInv, [Api!Next]_(Api!vars)
    PROVE  ApiInv'
  <1>1. CASE UNCHANGED Api!vars
    BY <1>1, WaitKept, WalkKept, Zenon DEF Api!vars
  <1>2. CASE Api!SubmitAndWait
    BY <1>2, ApiSubmit, ApiError, ApiAsk, ApiAnswer, Zenon
    DEF Api!SubmitAndWait, Api!Submission, Api!SubmitFails, Api!Polling, Api!AskFails, Ids
  <1>3. CASE Api!Listing
    <2>1. WalkInv' /\ rows' = rows /\ wait' = wait
      BY <1>3, ApiBegin, ApiPage, Zenon DEF Api!Listing, Api!Begin, Api!Page
    <2>2. WaitInv'
      BY <2>1, WaitKept, Zenon
    <2> QED
      BY <2>1, <2>2, Zenon DEF ApiInv
  <1> QED
    BY <1>1, <1>2, <1>3, ApiAppear, ApiChange, ApiGetResult, Zenon DEF Api!Next, Ids

-----------------------------------------------------------------------------
(* TenantKeys                                                              *)

CONSTANTS Bearers, Tenants, ApiKeys, KeyEvents

ASSUME KeyAssumption == None \notin Tenants

VARIABLES hash, index, tenant, auth, edit, removal, gone, raced, events

Key == INSTANCE TenantKeys WITH
    Requests <- Bearers, Keys <- ApiKeys, MaxEvents <- KeyEvents,
    record <- tenant, req <- auth

\* What unregister has read covers the keys of its tenant but for the raced ones, and
\* a key that is gone stays out of the hash.
RegistryInv ==
    /\ hash \in [ApiKeys -> Tenants \cup {None}] /\ index \in [Tenants -> SUBSET ApiKeys]
    /\ \A x \in gone : x \in ApiKeys /\ hash[x] = None
    /\ Key!KeysIndexed
    /\ removal # None =>
          /\ removal \in [tenant : Tenants, keys : SUBSET ApiKeys, pc : {"keys", "record"}]
          /\ removal.pc = "keys" => \A x \in ApiKeys : hash[x] = removal.tenant /\ x \notin raced
                                                          => x \in removal.keys

\* A late request has not got past the look at the hash.
AuthPlaces == {"new", "verify", "record", "handler", "done"}
Answers == {"none", "200", "400", "401", "403", "500", "503"}
Auths == [pc : AuthPlaces, key : ApiKeys \cup {None}, hint : Tenants \cup {None},
          tenant : Tenants \cup {None}, late : BOOLEAN, ran : BOOLEAN, answer : Answers]
AuthOK(a) ==
    /\ a.ran => a.pc = "done"
    /\ a.pc = "verify" => a.key \in ApiKeys
    /\ a.late => /\ a.pc \in {"verify", "done"} /\ ~a.ran
                 /\ a.pc = "verify" => a.key \in gone
AuthInv == auth \in [Bearers -> Auths] /\ \A r \in Bearers : AuthOK(auth[r])

KeyInv == RegistryInv /\ AuthInv

\* A step of a request: it takes a new place, the others keep theirs.
LEMMA AuthMoves ==
    ASSUME KeyInv, NEW r \in Bearers, NEW a \in Auths, AuthOK(a),
           auth' = [auth EXCEPT ![r] = a], UNCHANGED Key!registry
    PROVE  KeyInv'
  <1>1. RegistryInv'
    BY Zenon DEF KeyInv, RegistryInv, Key!registry, Key!KeysIndexed
  <1>2. auth' \in [Bearers -> Auths]
    BY Zenon DEF KeyInv, AuthInv
  <1>3. ASSUME NEW q \in Bearers PROVE AuthOK(auth[q])'
    <2>1. auth'[q] = a \/ auth'[q] = auth[q]
      BY Zenon DEF KeyInv, AuthInv
    <2>2. gone' = gone
      BY Zenon DEF Key!registry
    <2> QED
      BY <2>1, <2>2, Zenon DEF KeyInv, AuthInv, AuthOK
  <1> QED
    BY <1>1, <1>2, <1>3, Zenon DEF KeyInv, AuthInv

\* The request ends with an answer, and ran its handler only if it was not late.
LEMMA AuthEnds ==
    ASSUME KeyInv, NEW r \in Bearers, NEW x \in Answers
    PROVE  /\ Key!Ended(r, x) \in Auths /\ AuthOK(Key!Ended(r, x))
           /\ auth[r].pc = "handler" => /\ [Key!Ended(r, x) EXCEPT !.ran = TRUE] \in Auths
                                        /\ AuthOK([Key!Ended(r, x) EXCEPT !.ran = TRUE])
  <1> DEFINE e == Key!Ended(r, x)
             h == [e EXCEPT !.ran = TRUE]
  <1>1. auth[r].late \in BOOLEAN /\ (auth[r].pc = "handler" => ~auth[r].late)
    BY DEF KeyInv, AuthInv, Auths, AuthOK
  <1>2. Key!New \in Auths /\ ~Key!New.ran
    BY DEF Key!New, Auths, AuthPlaces, Answers
  <1>3. \A n \in Auths, b \in BOOLEAN :
           /\ [n EXCEPT !.pc = "done", !.answer = x, !.late = b] \in Auths
           /\ [n EXCEPT !.pc = "done", !.answer = x, !.late = b].pc = "done"
           /\ [n EXCEPT !.pc = "done", !.answer = x, !.late = b].late = b
           /\ [n EXCEPT !.pc = "done", !.answer = x, !.late = b].ran = n.ran
    BY DEF Auths, AuthPlaces
  <1>4. e \in Auths /\ e.pc = "done" /\ e.late = auth[r].late /\ ~e.ran
    BY <1>1, <1>2, <1>3, Zenon DEF Key!Ended
  <1>5. \A n \in Auths, b \in BOOLEAN :
           /\ [n EXCEPT !.ran = b] \in Auths
           /\ [n EXCEPT !.ran = b].pc = n.pc /\ [n EXCEPT !.ran = b].late = n.late
    BY DEF Auths
  <1> HIDE DEF e
  <1>6. h \in Auths /\ h.pc = "done" /\ h.late = auth[r].late
    BY <1>4, <1>5, Zenon
  <1> HIDE DEF h
  <1>7. AuthOK(e) /\ (auth[r].pc = "handler" => AuthOK(h))
    BY <1>1, <1>4, <1>6, Zenon DEF AuthOK
  <1> QED
    BY <1>4, <1>6, <1>7, Zenon DEF e, h

LEMMA AuthArrive ==
    ASSUME KeyInv, NEW r \in Bearers, NEW k \in ApiKeys, NEW h \in Tenants \cup {None},
           Key!Arrive(r, k, h)
    PROVE  KeyInv'
  <1> DEFINE got == [auth[r] EXCEPT !.pc = "verify", !.key = k, !.hint = h, !.late = (k \in gone)]
  <1>1. auth[r] \in Auths /\ AuthOK(auth[r]) /\ auth[r].pc = "new"
    BY DEF KeyInv, AuthInv, Key!Arrive, Key!At
  <1>2. got \in Auths
    <2>1. \A b \in BOOLEAN :
             [auth[r] EXCEPT !.pc = "verify", !.key = k, !.hint = h, !.late = b] \in Auths
      BY <1>1 DEF Auths, AuthPlaces
    <2>2. (k \in gone) \in BOOLEAN
      OBVIOUS
    <2> QED
      BY <2>1, <2>2, Zenon
  <1>3. AuthOK(got)
    BY <1>1 DEF Auths, AuthOK
  <1>4. auth' = [auth EXCEPT ![r] = got]
    BY DEF KeyInv, AuthInv, Key!Arrive
  <1>5. UNCHANGED Key!registry
    BY DEF Key!Arrive
  <1> QED
    BY <1>2, <1>3, <1>4, <1>5, AuthMoves, Zenon

\* A key that is gone matches no tenant.
LEMMA AuthVerify ==
    ASSUME KeyInv, NEW r \in Bearers, Key!Verify(r)
    PROVE  KeyInv'
  <1>1. auth[r] \in Auths /\ AuthOK(auth[r]) /\ auth[r].pc = "verify"
    BY DEF KeyInv, AuthInv, Key!Verify, Key!At
  <1>2. CASE Key!Matches(r)
    <2> DEFINE got == [auth[r] EXCEPT !.pc = "record", !.tenant = hash[auth[r].key]]
    <2>1. auth[r].key \in ApiKeys /\ hash[auth[r].key] # None
      BY <1>1, <1>2 DEF AuthOK, Key!Matches
    <2>2. ~auth[r].late /\ ~auth[r].ran
      BY <1>1, <2>1 DEF KeyInv, RegistryInv, AuthOK, Auths
    <2>3. got \in Auths
      BY <1>1, <2>1 DEF KeyInv, RegistryInv, Auths, AuthPlaces
    <2>4. AuthOK(got)
      BY <1>1, <2>2 DEF Auths, AuthOK
    <2>5. auth' = [auth EXCEPT ![r] = got]
      BY <1>2 DEF KeyInv, AuthInv, Key!Verify
    <2>6. UNCHANGED Key!registry
      BY DEF Key!Verify
    <2> QED
      BY <2>3, <2>4, <2>5, <2>6, AuthMoves, Zenon
  <1>3. CASE ~Key!Matches(r)
    BY <1>3, AuthEnds, AuthMoves, Zenon DEF Key!Verify, Key!Ends, Answers
  <1> QED
    BY <1>2, <1>3, Zenon

LEMMA AuthRecord ==
    ASSUME KeyInv, NEW r \in Bearers, Key!ReadRecord(r)
    PROVE  KeyInv'
  <1>1. auth[r] \in Auths /\ AuthOK(auth[r]) /\ auth[r].pc = "record" /\ UNCHANGED Key!registry
    BY DEF KeyInv, AuthInv, Key!ReadRecord, Key!At
  <1>2. \/ Key!Ends(r, "401") \/ Key!Ends(r, "403")
        \/ auth' = [auth EXCEPT ![r].pc = "handler"]
    BY Zenon DEF Key!ReadRecord
  <1>3. CASE auth' = [auth EXCEPT ![r].pc = "handler"]
    <2> DEFINE got == [auth[r] EXCEPT !.pc = "handler"]
    <2>1. got \in Auths
      BY <1>1 DEF Auths, AuthPlaces
    <2>2. AuthOK(got)
      BY <1>1 DEF Auths, AuthOK
    <2>3. auth' = [auth EXCEPT ![r] = got]
      BY <1>3 DEF KeyInv, AuthInv
    <2> QED
      BY <1>1, <2>1, <2>2, <2>3, AuthMoves, Zenon
  <1>4. CASE Key!Ends(r, "401") \/ Key!Ends(r, "403")
    BY <1>1, <1>4, AuthEnds, AuthMoves, Zenon DEF Key!Ends, Answers
  <1> QED
    BY <1>2, <1>3, <1>4, Zenon

LEMMA AuthFails ==
    ASSUME KeyInv, NEW r \in Bearers, Key!RegistryFails(r)
    PROVE  KeyInv'
  <1>1. PICK x \in {"401", "500"} : Key!Ends(r, x)
    BY Zenon DEF Key!RegistryFails
  <1> QED
    BY <1>1, AuthEnds, AuthMoves, Zenon DEF Key!RegistryFails, Key!Ends, Answers

LEMMA AuthHandle ==
    ASSUME KeyInv, NEW r \in Bearers, Key!Handle(r)
    PROVE  KeyInv'
  <1>1. PICK o \in {"ok", "business", "external", "system"} :
           auth' = [auth EXCEPT ![r] = [Key!Ended(r, Key!Response(o)) EXCEPT !.ran = TRUE]]
    BY Zenon DEF Key!Handle
  <1>2. Key!Response(o) \in Answers
    BY DEF Key!Response, Answers
  <1>3. auth[r].pc = "handler" /\ UNCHANGED Key!registry
    BY Zenon DEF Key!Handle, Key!At
  <1> QED
    BY <1>1, <1>2, <1>3, AuthEnds, AuthMoves, Zenon

-----------------------------------------------------------------------------
\* A step of a tenant route leaves the requests alone; late ones stay late.
LEMMA AuthStays ==
    ASSUME AuthInv, auth' = auth, gone \subseteq gone'
    PROVE  AuthInv'
  BY Zenon DEF AuthInv, AuthOK

LEMMA KeyGenerate ==
    ASSUME RegistryInv, NEW k \in ApiKeys, NEW t \in Tenants, Key!Generate(k, t)
    PROVE  RegistryInv'
  <1>1. /\ hash' = [hash EXCEPT ![k] = t] /\ index' = [index EXCEPT ![t] = @ \cup {k}]
        /\ k \notin gone /\ gone' = gone /\ removal' = removal
        /\ raced \subseteq raced' /\ (removal # None /\ removal.tenant = t => k \in raced')
    BY Zenon DEF Key!Generate
  <1>2. hash' \in [ApiKeys -> Tenants \cup {None}] /\ index' \in [Tenants -> SUBSET ApiKeys]
    BY <1>1 DEF RegistryInv
  <1>3. hash'[k] = t /\ \A x \in ApiKeys \ {k} : hash'[x] = hash[x]
    BY <1>1 DEF RegistryInv
  <1>4. k \in index'[t] /\ \A u \in Tenants : index[u] \subseteq index'[u]
    BY <1>1 DEF RegistryInv
  <1>5. \A x \in gone' : x \in ApiKeys /\ hash'[x] = None
    BY <1>1, <1>3, Zenon DEF RegistryInv
  <1>6. Key!KeysIndexed'
    <2> SUFFICES ASSUME NEW x \in ApiKeys, hash'[x] # None, x \notin raced'
                 PROVE  x \in index'[hash'[x]]
      BY Zenon DEF Key!KeysIndexed
    <2>1. CASE x = k
      BY <1>3, <1>4, <2>1, Zenon
    <2>2. CASE x # k
      <3>1. hash'[x] = hash[x] /\ x \notin raced
        BY <1>1, <1>3, <2>2, Zenon
      <3>2. x \in index[hash[x]] /\ hash[x] \in Tenants
        BY <3>1 DEF RegistryInv, Key!KeysIndexed
      <3> QED
        BY <1>4, <3>1, <3>2, Zenon
    <2> QED
      BY <2>1, <2>2, Zenon
  <1>7. ASSUME removal' # None
        PROVE  /\ removal' \in [tenant : Tenants, keys : SUBSET ApiKeys, pc : {"keys", "record"}]
               /\ removal'.pc = "keys" => \A x \in ApiKeys : hash'[x] = removal'.tenant /\ x \notin raced'
                                                               => x \in removal'.keys
    BY <1>1, <1>3, <1>7, Zenon DEF RegistryInv
  <1> QED
    BY <1>2, <1>5, <1>6, <1>7, Zenon DEF RegistryInv

LEMMA KeyRevoke ==
    ASSUME RegistryInv, NEW k \in ApiKeys, NEW t \in Tenants, Key!Revoke(k, t)
    PROVE  RegistryInv'
  <1>1. /\ hash' = [hash EXCEPT ![k] = None] /\ index' = [index EXCEPT ![t] = @ \ {k}]
        /\ gone' = gone \cup {k} /\ removal' = removal /\ raced' = raced
    BY Zenon DEF Key!Revoke
  <1>2. hash' \in [ApiKeys -> Tenants \cup {None}] /\ index' \in [Tenants -> SUBSET ApiKeys]
    BY <1>1 DEF RegistryInv
  <1>3. hash'[k] = None /\ \A x \in ApiKeys \ {k} : hash'[x] = hash[x]
    BY <1>1 DEF RegistryInv
  <1>4. \A u \in Tenants : index[u] \ {k} \subseteq index'[u]
    BY <1>1 DEF RegistryInv
  <1>5. \A x \in gone' : x \in ApiKeys /\ hash'[x] = None
    BY <1>1, <1>3, Zenon DEF RegistryInv
  <1>6. Key!KeysIndexed'
    <2> SUFFICES ASSUME NEW x \in ApiKeys, hash'[x] # None, x \notin raced'
                 PROVE  x \in index'[hash'[x]]
      BY Zenon DEF Key!KeysIndexed
    <2>1. x # k /\ hash'[x] = hash[x] /\ x \notin raced
      BY <1>1, <1>3, Zenon
    <2>2. x \in index[hash[x]] /\ hash[x] \in Tenants
      BY <2>1 DEF RegistryInv, Key!KeysIndexed
    <2> QED
      BY <1>4, <2>1, <2>2, Zenon
  <1>7. ASSUME removal' # None
        PROVE  /\ removal' \in [tenant : Tenants, keys : SUBSET ApiKeys, pc : {"keys", "record"}]
               /\ removal'.pc = "keys" => \A x \in ApiKeys : hash'[x] = removal'.tenant /\ x \notin raced'
                                                               => x \in removal'.keys
    <2>1. removal.tenant # None
      BY <1>1, <1>7, KeyAssumption DEF RegistryInv
    <2>2. \A x \in ApiKeys : hash'[x] = removal.tenant => hash[x] = removal.tenant
      BY <1>3, <2>1, Zenon
    <2> QED
      BY <1>1, <1>7, <2>2, Zenon DEF RegistryInv
  <1> QED
    BY <1>2, <1>5, <1>6, <1>7, Zenon DEF RegistryInv

LEMMA KeyUnregister ==
    ASSUME RegistryInv, Key!Unregister
    PROVE  RegistryInv'
  <1>1. ASSUME NEW t \in Tenants, Key!UnregisterRead(t) PROVE RegistryInv'
    <2>1. /\ removal' = [tenant |-> t, keys |-> index[t],
                         pc |-> IF index[t] = {} THEN "record" ELSE "keys"]
          /\ UNCHANGED <<hash, index, gone, raced>>
      BY <1>1, Zenon DEF Key!UnregisterRead
    <2>2. removal' \in [tenant : Tenants, keys : SUBSET ApiKeys, pc : {"keys", "record"}]
      BY <2>1 DEF RegistryInv
    <2>3. removal'.tenant = t /\ removal'.keys = index[t]
      BY <2>1
    <2>4. \A x \in ApiKeys : hash[x] = t /\ x \notin raced => x \in index[t]
      BY KeyAssumption, Zenon DEF RegistryInv, Key!KeysIndexed
    <2> QED
      BY <2>1, <2>2, <2>3, <2>4, Zenon DEF RegistryInv, Key!KeysIndexed
  <1>2. ASSUME Key!UnregisterKeys PROVE RegistryInv'
    <2>1. /\ removal # None /\ removal.pc = "keys"
          /\ hash' = [k \in ApiKeys |-> IF k \in removal.keys THEN None ELSE hash[k]]
          /\ index' = [index EXCEPT ![removal.tenant] = {}]
          /\ gone' = gone \cup removal.keys
          /\ removal' = [removal EXCEPT !.pc = "record"] /\ raced' = raced
      BY <1>2, Zenon DEF Key!UnregisterKeys, Key!Removed
    <2>2. removal \in [tenant : Tenants, keys : SUBSET ApiKeys, pc : {"keys", "record"}]
      BY <2>1, Zenon DEF RegistryInv
    <2>3. /\ removal' \in [tenant : Tenants, keys : SUBSET ApiKeys, pc : {"keys", "record"}]
          /\ removal'.pc = "record"
      BY <2>1, <2>2
    <2>4. hash' \in [ApiKeys -> Tenants \cup {None}] /\ index' \in [Tenants -> SUBSET ApiKeys]
      BY <2>1 DEF RegistryInv
    <2>5. \A x \in gone' : x \in ApiKeys /\ hash'[x] = None
      BY <2>1, <2>2 DEF RegistryInv
    <2>6. \A u \in Tenants \ {removal.tenant} : index'[u] = index[u]
      BY <2>1 DEF RegistryInv
    <2>7. Key!KeysIndexed'
      <3> SUFFICES ASSUME NEW x \in ApiKeys, hash'[x] # None, x \notin raced'
                   PROVE  x \in index'[hash'[x]]
        BY Zenon DEF Key!KeysIndexed
      <3>1. hash'[x] = hash[x] /\ x \notin removal.keys /\ x \notin raced
        BY <2>1, Zenon
      <3>2. hash[x] # removal.tenant /\ hash[x] \in Tenants
        BY <2>1, <3>1 DEF RegistryInv
      <3>3. x \in index[hash[x]]
        BY <3>1, Zenon DEF RegistryInv, Key!KeysIndexed
      <3> QED
        BY <2>6, <3>1, <3>2, <3>3, Zenon
    <2> QED
      BY <2>3, <2>4, <2>5, <2>7 DEF RegistryInv
  <1>3. ASSUME Key!UnregisterRecord PROVE RegistryInv'
    BY <1>3, Zenon DEF Key!UnregisterRecord, RegistryInv, Key!KeysIndexed
  <1> QED
    BY <1>1, <1>2, <1>3, Zenon DEF Key!Unregister

\* The tenant routes.
LEMMA KeyRoutes ==
    ASSUME KeyInv, Key!TenantRoutes \/ \E k \in ApiKeys, t \in Tenants : Key!Revoke(k, t)
    PROVE  KeyInv'
  <1>1. auth' = auth /\ gone \subseteq gone'
    BY Zenon DEF Key!TenantRoutes, Key!Register, Key!UpdateRead, Key!UpdateWrite, Key!Generate,
       Key!Unregister, Key!UnregisterRead, Key!UnregisterKeys, Key!UnregisterRecord, Key!Revoke
  <1>2. AuthInv'
    BY <1>1, AuthStays, Zenon DEF KeyInv
  <1>3. ASSUME \/ \E t \in Tenants : Key!Register(t) \/ Key!UpdateRead(t)
               \/ Key!UpdateWrite
        PROVE  RegistryInv'
    <2>1. UNCHANGED <<hash, index, removal, gone, raced>>
      BY <1>3, Zenon DEF Key!Register, Key!UpdateRead, Key!UpdateWrite
    <2> QED
      BY <2>1, Zenon DEF KeyInv, RegistryInv, Key!KeysIndexed
  <1>4. RegistryInv'
    BY <1>3, KeyGenerate, KeyRevoke, KeyUnregister, Zenon DEF KeyInv, Key!TenantRoutes
  <1> QED
    BY <1>2, <1>4, Zenon DEF KeyInv

\* The invariant holds in every reachable state.
LEMMA KeyInvariant == Key!Spec => []KeyInv
  <1>1. Key!Init => KeyInv
    <2> SUFFICES ASSUME Key!Init PROVE KeyInv
      OBVIOUS
    <2>1. RegistryInv
      BY DEF Key!Init, RegistryInv, Key!KeysIndexed
    <2>2. Key!New \in Auths /\ AuthOK(Key!New)
      BY DEF Key!New, Auths, AuthOK, AuthPlaces, Answers
    <2>3. AuthInv
      BY <2>2, Zenon DEF Key!Init, AuthInv
    <2> QED
      BY <2>1, <2>3, Zenon DEF KeyInv
  <1>2. KeyInv /\ [Key!Next]_(Key!vars) => KeyInv'
    <2> SUFFICES ASSUME KeyInv, [Key!Next]_(Key!vars) PROVE KeyInv'
      OBVIOUS
    <2>1. CASE UNCHANGED Key!vars
      BY <2>1, Zenon DEF Key!vars, KeyInv, RegistryInv, Key!KeysIndexed, AuthInv, AuthOK
    <2>2. CASE Key!Authentication
      BY <2>2, AuthArrive, AuthVerify, AuthRecord, AuthFails, Zenon
      DEF Key!Authentication, Key!Authenticate, Key!KeyCheck
    <2> QED
      BY <2>1, <2>2, AuthHandle, KeyRoutes, Zenon DEF Key!Next
  <1> QED
    BY <1>1, <1>2, PTL DEF Key!Spec

-----------------------------------------------------------------------------
(* RateLimit                                                               *)

CONSTANTS Clients, RateWindow, RateMax, RateHorizon, RateFaults

ASSUME RateAssumption == IsFiniteSet(Clients) /\ RateMax \in Nat

VARIABLES clock, seconds, hit, overlap, faults

Rate == INSTANCE RateLimit WITH
    Requests <- Clients, Window <- RateWindow, Limit <- RateMax, Horizon <- RateHorizon,
    MaxFaults <- RateFaults, now <- clock, req <- hit

\* RateLimit: a request between its ZCARD and its ZADD leaves room for itself.
Adders == {r \in Clients : hit[r].pc = "add"}
Hits == [pc : {"new", "count", "add", "expire", "oldest", "call", "served", "lost", "refused"},
         t0 : Int, open : BOOLEAN]
RateInv ==
    /\ clock \in Int /\ hit \in [Clients -> Hits]
    /\ IsFiniteSet(seconds) /\ overlap \in Nat
    /\ Cardinality(seconds) <= RateMax + overlap
    /\ Adders # {} => Cardinality(seconds) < RateMax + overlap

LEMMA RateCardinality == \A S : Rate!Cardinality(S) = Cardinality(S)
  BY Zenon DEF Rate!Cardinality, Cardinality

\* A request moves: the others stay where they are.
LEMMA HitMoves ==
    ASSUME hit \in [Clients -> Hits], NEW r \in Clients,
           NEW p \in {"new", "count", "add", "expire", "oldest", "call", "served", "lost", "refused"},
           NEW t \in Int, NEW o \in BOOLEAN,
           \/ hit' = [hit EXCEPT ![r].pc = p]
           \/ hit' = [hit EXCEPT ![r].pc = p, ![r].t0 = t]
           \/ hit' = [hit EXCEPT ![r].pc = p, ![r].open = o]
    PROVE  /\ hit' \in [Clients -> Hits]
           /\ hit'[r].pc = p
           /\ \A q \in Clients \ {r} : hit'[q] = hit[q]
  BY DEF Hits

\* A step after which no more requests are about to add, and no more seconds are in
\* the window.
LEMMA RateQuiet ==
    ASSUME FiniteLaws, RateInv, hit' \in [Clients -> Hits], clock' \in Int, overlap' = overlap,
           seconds' \subseteq seconds, Adders' # {} => Adders # {}
    PROVE  RateInv'
  <1>1. /\ IsFiniteSet(seconds') /\ Cardinality(seconds') <= Cardinality(seconds)
        /\ Cardinality(seconds) \in Nat /\ Cardinality(seconds') \in Nat
    BY DEF FiniteLaws, SubsetLaw, CardinalityLaw, RateInv
  <1> QED
    BY <1>1, RateAssumption DEF RateInv

LEMMA RateCount ==
    ASSUME FiniteLaws, RateInv, NEW r \in Clients, Rate!Count(r)
    PROVE  RateInv'
  <1>1. CASE Rate!Full
    <2>1. hit' = [hit EXCEPT ![r].pc = "oldest"]
      BY <1>1 DEF Rate!Count, Rate!Goes
    <2>2. /\ hit' \in [Clients -> Hits] /\ hit'[r].pc = "oldest"
          /\ \A q \in Clients \ {r} : hit'[q] = hit[q]
      BY <2>1, HitMoves DEF RateInv
    <2>3. Adders' # {} => Adders # {}
      BY <2>2 DEF Adders
    <2> QED
      BY <2>2, <2>3, RateQuiet DEF RateInv, Rate!Count
  <1>2. CASE ~Rate!Full
    <2>1. hit' = [hit EXCEPT ![r].pc = "add"]
      BY <1>2 DEF Rate!Count, Rate!Goes
    <2>2. hit' \in [Clients -> Hits]
      BY <2>1, HitMoves DEF RateInv
    <2>3. Cardinality(seconds) \in Nat
      BY DEF FiniteLaws, CardinalityLaw, RateInv
    <2>4. ~(Cardinality(seconds) >= RateMax) /\ RateMax \in Nat /\ overlap \in Nat
      BY <1>2, RateCardinality, RateAssumption, Zenon DEF RateInv, Rate!Full
    <2>5. Cardinality(seconds) < RateMax + overlap
      BY <2>3, <2>4
    <2> QED
      BY <2>2, <2>3, <2>4, <2>5 DEF RateInv, Rate!Count
  <1> QED
    BY <1>1, <1>2

\* The addition takes the room the request had, and leaves room to the others by what
\* it adds to overlap.
LEMMA RateAdd ==
    ASSUME FiniteLaws, RateInv, NEW r \in Clients, Rate!Add(r)
    PROVE  RateInv'
  <1> DEFINE others == {q \in Clients \ {r} : hit[q].pc = "add"}
  <1>1. hit' = [hit EXCEPT ![r].pc = "expire"] /\ hit[r].pc = "add"
    BY DEF Rate!Add, Rate!Goes, Rate!At
  <1>2. /\ hit' \in [Clients -> Hits] /\ hit'[r].pc = "expire"
        /\ \A q \in Clients \ {r} : hit'[q] = hit[q]
    BY <1>1, HitMoves DEF RateInv
  <1>3. Adders' = others
    BY <1>2 DEF Adders
  <1>4. IsFiniteSet(others) /\ Cardinality(others) \in Nat /\ (others # {} => Cardinality(others) # 0)
    <2>1. IsFiniteSet(others)
      BY RateAssumption DEF FiniteLaws, SubsetLaw
    <2> QED
      BY <2>1 DEF FiniteLaws, CardinalityLaw, EmptyLaw
  <1>5. overlap' = overlap + Cardinality(others) /\ seconds' = seconds \cup {hit[r].t0} /\ clock' = clock
    BY RateCardinality, Zenon DEF Rate!Add, Rate!At
  <1>6. /\ IsFiniteSet(seconds') /\ Cardinality(seconds') <= Cardinality(seconds) + 1
        /\ Cardinality(seconds) \in Nat /\ Cardinality(seconds') \in Nat
    <2>1. IsFiniteSet(seconds)
      BY DEF RateInv
    <2>2. /\ IsFiniteSet(seconds \cup {hit[r].t0})
          /\ \/ Cardinality(seconds \cup {hit[r].t0}) = Cardinality(seconds)
             \/ Cardinality(seconds \cup {hit[r].t0}) = Cardinality(seconds) + 1
      BY <2>1, Zenon DEF FiniteLaws, AddLaw
    <2>3. Cardinality(seconds) \in Nat
      BY <2>1, Zenon DEF FiniteLaws, CardinalityLaw
    <2> QED
      BY <1>5, <2>2, <2>3
  <1>7. Cardinality(seconds) < RateMax + overlap
    BY <1>1 DEF RateInv, Adders
  <1> HIDE DEF others
  <1>8. overlap' \in Nat /\ Cardinality(seconds') <= RateMax + overlap'
    BY <1>4, <1>5, <1>6, <1>7, RateAssumption DEF RateInv
  <1>9. others # {} => Cardinality(seconds') < RateMax + overlap'
    BY <1>4, <1>5, <1>6, <1>7, RateAssumption DEF RateInv
  <1> QED
    BY <1>2, <1>3, <1>5, <1>6, <1>8, <1>9 DEF RateInv

\* The other steps of a request.
LEMMA RateOther ==
    ASSUME FiniteLaws, RateInv, NEW r \in Clients,
           \/ Rate!Exempt(r) \/ Rate!Trim(r) \/ Rate!Expire(r) \/ Rate!Refuse(r)
           \/ Rate!FailOpen(r) \/ Rate!Serve(r)
    PROVE  RateInv'
  <1>1. PICK p \in {"count", "expire", "oldest", "call", "served", "lost", "refused"} :
           \/ hit' = [hit EXCEPT ![r].pc = p]
           \/ hit' = [hit EXCEPT ![r].pc = p, ![r].t0 = clock]
           \/ hit' = [hit EXCEPT ![r].pc = p, ![r].open = TRUE]
    BY DEF Rate!Exempt, Rate!Trim, Rate!Expire, Rate!Refuse, Rate!FailOpen, Rate!Serve, Rate!Goes
  <1>2. seconds' \subseteq seconds /\ overlap' = overlap /\ clock' = clock
    BY DEF Rate!Exempt, Rate!Trim, Rate!Expire, Rate!Refuse, Rate!FailOpen, Rate!Serve
  <1>3. /\ hit' \in [Clients -> Hits] /\ hit'[r].pc = p
        /\ \A q \in Clients \ {r} : hit'[q] = hit[q]
    <2>1. /\ hit \in [Clients -> Hits] /\ clock \in Int /\ TRUE \in BOOLEAN
          /\ p \in {"new", "count", "add", "expire", "oldest", "call", "served", "lost", "refused"}
      BY Zenon DEF RateInv
    <2>2. CASE hit' = [hit EXCEPT ![r].pc = p]
      BY <2>1, <2>2, HitMoves
    <2>3. CASE hit' = [hit EXCEPT ![r].pc = p, ![r].t0 = clock]
      BY <2>1, <2>3, HitMoves
    <2>4. CASE hit' = [hit EXCEPT ![r].pc = p, ![r].open = TRUE]
      BY <2>1, <2>4, HitMoves
    <2> QED
      BY <1>1, <2>2, <2>3, <2>4, Zenon
  <1>4. Adders' # {} => Adders # {}
    BY <1>3 DEF Adders
  <1> QED
    BY <1>2, <1>3, <1>4, RateQuiet DEF RateInv

LEMMA RateInit ==
    ASSUME FiniteLaws, Rate!Init
    PROVE  RateInv
  BY RateAssumption DEF FiniteLaws, EmptyLaw, Rate!Init, Rate!New, RateInv, Adders, Hits

LEMMA RateNext ==
    ASSUME FiniteLaws, RateInv, [Rate!Next]_(Rate!vars)
    PROVE  RateInv'
  <1>1. CASE Rate!Tick
    BY <1>1, RateQuiet DEF Rate!Tick, RateInv, Adders
  <1>2. CASE UNCHANGED Rate!vars
    BY <1>2, RateQuiet DEF Rate!vars, RateInv, Adders
  <1> QED
    BY <1>1, <1>2, RateCount, RateAdd, RateOther, Zenon DEF Rate!Next

-----------------------------------------------------------------------------
(* The theorems: the laws of finite sets hold.                             *)

INSTANCE FiniteSetTheorems

\* A nonempty set of naturals has a least element.
LEMMA Least ==
    ASSUME NEW S \in SUBSET Nat, S # {}
    PROVE  \E x \in S : \A y \in S : x <= y
  <1> DEFINE R == OpToRel(<, Nat)
  <1>1. IsWellFoundedOn(R, Nat)
    BY NatLessThanWellFounded
  <1>2. PICK x \in S : \A y \in S : <<y, x>> \notin R
    BY <1>1, WFMin, Zenon
  <1>3. ASSUME NEW y \in S PROVE x <= y
    <2>1. x \in Nat /\ y \in Nat
      OBVIOUS
    <2>2. y < x => <<y, x>> \in R
      BY <2>1 DEF OpToRel
    <2>3. ~(y < x)
      BY <1>2, <2>2, Zenon
    <2> QED
      BY <2>1, <2>3
  <1> QED
    BY <1>3, Zenon

LEMMA FiniteLawsHold == FiniteLaws
  <1>1. CardinalityLaw /\ SubsetLaw /\ IntervalLaw
    BY FS_CardinalityType, FS_Subset, FS_Interval, Zenon DEF CardinalityLaw, SubsetLaw, IntervalLaw
  <1>2. EmptyLaw
    BY FS_EmptySet, Zenon DEF EmptyLaw
  <1>3. AddLaw /\ RemoveLaw
    BY FS_AddElement, FS_RemoveElement, Zenon DEF AddLaw, RemoveLaw
  <1>4. LeastLaw
    BY Least, Zenon DEF LeastLaw
  <1> QED
    BY <1>1, <1>2, <1>3, <1>4, Zenon DEF FiniteLaws

LEMMA RateInvariant == Rate!Spec => []RateInv
  <1>1. Rate!Init => RateInv
    BY RateInit, FiniteLawsHold, Zenon
  <1>2. RateInv /\ [Rate!Next]_(Rate!vars) => RateInv'
    BY RateNext, FiniteLawsHold, Zenon
  <1> QED
    BY <1>1, <1>2, PTL DEF Rate!Spec

LEMMA OperInvariant == Oper!Spec => []OperInv
  <1>1. Oper!Init => OperInv
    BY OperInit, FiniteLawsHold, Zenon
  <1>2. OperInv /\ [Oper!Next]_(Oper!vars) => OperInv'
    BY OperNext, FiniteLawsHold, Zenon
  <1> QED
    BY <1>1, <1>2, PTL DEF Oper!Spec

LEMMA ApiInvariant == Api!Spec => []ApiInv
  <1>1. Api!Init => ApiInv
    BY ApiInit, Zenon
  <1>2. ApiInv /\ [Api!Next]_(Api!vars) => ApiInv'
    BY ApiNext, FiniteLawsHold, Zenon
  <1> QED
    BY <1>1, <1>2, PTL DEF Api!Spec

\* RateLimit and TenantKeys: the window holds no more than the limit and its
\* overlaps, a key that authenticates is in its tenant's index, and a removed key
\* authenticates nobody.
AccessSound ==
    Rate!SecondsWithinLimit /\ Key!KeysIndexed /\ Key!RevokedStaysOut

\* The rate limiter's window and the tenants' keys, for any clients, limit, tenants,
\* keys and interleaving of the requests with registrations and removals.
THEOREM AccessCorrect == Rate!Spec /\ Key!Spec => []AccessSound
  <1>1. RateInv => Rate!SecondsWithinLimit
    BY RateCardinality, Zenon DEF RateInv, Rate!SecondsWithinLimit
  <1>2. KeyInv => Key!KeysIndexed /\ Key!RevokedStaysOut
    BY Zenon DEF KeyInv, RegistryInv, AuthInv, AuthOK, Key!RevokedStaysOut
  <1> QED
    BY <1>1, <1>2, RateInvariant, KeyInvariant, PTL DEF AccessSound

\* Whatever replays, evictions, failures and explanations interleave with the worker,
\* for any number of requests and any length of the window: replays stay within the
\* limit but for those recorded under another's count, replays and evictions have
\* their audit, and advice is founded.
THEOREM OperatorsCorrect == Oper!Spec => []OperatorsSound
  <1>1. OperInv => OperatorsSound
    <2> SUFFICES ASSUME OperInv PROVE OperatorsSound
      OBVIOUS
    <2>1. Oper!ReplaysLimited
      BY OperCardinality, Zenon DEF OperInv, RoomInv, Oper!ReplaysLimited
    <2>2. Oper!EvictionAudited
      BY Zenon DEF OperInv, OperTypes, TrailInv, TrailOK, Audited, Oper!EvictionAudited
    <2>3. Oper!AdviceFounded
      BY Zenon DEF OperInv, AdviceInv, AdviceOK, Founded, Oper!AdviceFounded
    <2>4. Oper!ReplayAudited
      <3> SUFFICES ASSUME NEW r \in runs, req[r].pc = "done"
                   PROVE  /\ \E x \in audit : x.by = r /\ x.kind = "replay"
                          /\ {"operator", "replay"} = {e.event : e \in {f \in timeline : f.by = r}}
        BY Zenon DEF Oper!ReplayAudited
      <3>1. r \in Operators /\ TrailOK(r, "done")
        BY Zenon DEF OperInv, OperTypes, TrailInv
      <3>2. Audited(r, "replay") /\ Told(r, "operator") /\ Told(r, "replay")
        BY <3>1 DEF TrailOK
      <3>3. \A x \in timeline : x.event \in {"operator", "replay"}
        BY DEF OperInv, OperTypes
      <3> QED
        BY <3>2, <3>3, Zenon DEF Audited, Told
    <2> QED
      BY <2>1, <2>2, <2>3, <2>4, Zenon DEF OperatorsSound
  <1> QED
    BY <1>1, OperInvariant, PTL

\* TaskApi and QueueStats: a walk over pages meets every steady task once,
\* wait_for_task reports what its last poll has seen, and a statistics answer is no
\* older than the TTL and a refresh and counts the process's own enqueues.
AnswersSound ==
    /\ Api!PagesExact /\ Api!WaitIsTruthful
    /\ Stats!AnswersAreRecent /\ Stats!AnswersCountOwnEnqueues

\* The listing's pages, the polls of wait_for_task and the cached statistics, for any
\* number of rows, page size, polls, callers, TTL and duration of a refresh.
THEOREM AnswersCorrect == Api!Spec /\ Stats!Spec => []AnswersSound
  <1>1. ApiInv => Api!PagesExact /\ Api!WaitIsTruthful
    <2> SUFFICES ASSUME ApiInv PROVE Api!PagesExact /\ Api!WaitIsTruthful
      OBVIOUS
    <2>1. walk.counts \in [Ids -> {0, 1}]
      BY DEF ApiInv, WalkInv, Walks
    <2>2. \A i \in Ids : walk.counts[i] <= 1
      BY <2>1
    <2> QED
      BY <2>2, Zenon DEF ApiInv, WalkInv, WaitInv, Ids, Api!PagesExact, Api!WaitIsTruthful
  <1>2. StatsInv => Stats!AnswersAreRecent /\ Stats!AnswersCountOwnEnqueues
    BY Zenon DEF StatsInv, ReplyOK, Names, Stats!AnswersAreRecent, Stats!AnswersCountOwnEnqueues
  <1> QED
    BY <1>1, <1>2, ApiInvariant, StatsInvariant, PTL DEF AnswersSound

-----------------------------------------------------------------------------
(* NodeSelection: a node is granted once.                                  *)

CONSTANTS Nodes, Seekers, Resources, Needs, MaxRegistrations

VARIABLES node, nodeIdx, joining, look, granted, regs

Select == INSTANCE NodeSelection WITH
    Callers <- Seekers, rec <- node, index <- nodeIdx, call <- look

\* The proof of GrantedOnce, for any number of nodes, callers and registrations
\* and however old the listings are. The compare-and-set looks at the state of the
\* record only, so the invariant ties that state to the grants: a record that says
\* idle is granted to nobody.

Record(r) == r = [state |-> r.state, gpus |-> r.gpus]

GrantInv ==
    /\ node = [n \in Nodes |-> node[n]]
    /\ granted = [n \in Nodes |-> granted[n]]
    /\ \A n \in Nodes : node[n] # None => Record(node[n])
    /\ \A n \in Nodes : Select!Reservable(n) => granted[n] = {}
    /\ \A n \in Nodes : granted[n] = {} \/ \E c \in Seekers : granted[n] = {c}

\* Steps that leave the records alone.
LEMMA GrantQuiet ==
    ASSUME GrantInv, UNCHANGED <<node, granted>>
    PROVE  GrantInv'
  BY Zenon DEF GrantInv, Select!Reservable, Record

\* A registration makes the node idle and takes it from whoever had it.
LEMMA GrantRegister ==
    ASSUME GrantInv, NEW n \in Nodes, Select!Register(n)
    PROVE  GrantInv'
  <1>1. PICK r \in Resources : node' = [node EXCEPT ![n] = [state |-> "idle", gpus |-> Select!EffectiveGpus(r)]]
    BY Zenon DEF Select!Register
  <1>2. granted' = [granted EXCEPT ![n] = {}]
    BY Zenon DEF Select!Register
  <1> HIDE DEF Select!EffectiveGpus
  <1> QED
    BY <1>1, <1>2, Zenon DEF GrantInv, Select!Reservable, Record

\* A reservation either finds the node idle, thus free, or changes nothing.
LEMMA GrantReserve ==
    ASSUME GrantInv, NEW c \in Seekers, NEW n \in Nodes, Select!ReserveNode(c, n)
    PROVE  GrantInv'
  <1>1. CASE Select!Reservable(n)
    <2>1. /\ node' = [node EXCEPT ![n].state = "reserved"]
          /\ granted' = [granted EXCEPT ![n] = granted[n] \cup {c}]
      BY <1>1, Zenon DEF Select!ReserveNode
    <2>2. granted[n] = {} /\ Record(node[n])
      BY <1>1, Zenon DEF GrantInv, Select!Reservable
    <2>3. node'[n].state = "reserved" /\ Record(node'[n]) /\ granted'[n] = {c}
      BY <2>1, <2>2, Zenon DEF GrantInv, Record
    <2>4. \A m \in Nodes : m # n => node'[m] = node[m] /\ granted'[m] = granted[m]
      BY <2>1, Zenon DEF GrantInv
    <2>5. node' = [m \in Nodes |-> node'[m]] /\ granted' = [m \in Nodes |-> granted'[m]]
      BY <2>1, Zenon DEF GrantInv
    <2> QED
      BY <2>3, <2>4, <2>5 DEF GrantInv, Select!Reservable
  <1>2. CASE ~Select!Reservable(n)
    BY <1>2, GrantQuiet, Zenon DEF Select!ReserveNode
  <1> QED
    BY <1>1, <1>2, Zenon

\* The invariant holds in every reachable state.
THEOREM GrantInvariance == Select!Spec => []GrantInv
  <1>1. Select!Init => GrantInv
    BY Zenon DEF Select!Init, GrantInv, Select!Reservable
  <1>2. GrantInv /\ [Select!Next]_(Select!vars) => GrantInv'
    BY GrantQuiet, GrantRegister, GrantReserve, Zenon
    DEF Select!Next, Select!vars, Select!RegisterIndexed, Select!ListIds, Select!ListRecords, Select!SelectNodes
  <1> QED
    BY <1>1, <1>2, PTL DEF Select!Spec

\* However many clusters chose the same node, at most one of them gets it until
\* the node registers again.
THEOREM ReservedOnce == Select!Spec => []Select!GrantedOnce
  <1>1. GrantInv => Select!GrantedOnce
    BY Zenon DEF GrantInv, Select!GrantedOnce
  <1> QED
    BY <1>1, GrantInvariance, PTL
=============================================================================
