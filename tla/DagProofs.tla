----------------------------- MODULE DagProofs ------------------------------
(***************************************************************************)
(* What the DAG engine and the command proxy guarantee, for every          *)
(* dependency graph and any number of steps, items, retries, jobs and      *)
(* threads, with the inductive invariants the proofs rest on.              *)
(***************************************************************************)
EXTENDS DagEngine, FiniteSetTheorems, TLAPS

\* DagEngine: while steps run in parallel, fail, are skipped and are saved, the
\* semaphore bounds the steps at work, a step sees the result of everything it
\* depends on, the stored context never holds a step without its dependencies, and
\* a completed execution leaves out exactly the blocked steps.
EngineSound ==
    /\ WithinParallelism
    /\ InputsComplete
    /\ PersistedClosed
    /\ LeftOutIsBlocked

\* DagEngine implements DagOrder: steps start in an order of the dependencies and
\* each is settled once.
ImplementsDagOrder == Order!Spec

-----------------------------------------------------------------------------
(* The inductive invariant of the engine.                                  *)

Ended == {s \in Steps : st[s] \in Over}
WavesBefore(i) == UNION {Range(order[j]) : j \in 1..(i - 1)}
Planned == UNION {Range(order[j]) : j \in DOMAIN order}

\* The steps whose neighbours have been gone through, and what has left deg[n]
Looked == {StepSeq[k] : k \in 1..at}
Taken(n) == (Planned \ Range(queue))
            \cup (IF queue # <<>> /\ n \in Looked THEN {Head(queue)} ELSE {})

\* _topo_sort under way: deg counts the dependencies not yet taken, and a step
\* is in a wave when there are none.
Kahn ==
    /\ status = "running" /\ \A s \in Steps : st[s] = "wait"
    /\ \A n \in Steps : deg[n] = Cardinality(deps[n] \ Taken(n))
    /\ \A n \in Steps : n \in Planned \cup Range(next)
          <=> deg[n] = 0 /\ (order # <<>> \/ n \in Looked)
    /\ Range(next) \cap Planned = {}
    /\ \A s \in Range(next) : deps[s] \subseteq Planned
    /\ \A i, j \in DOMAIN next : next[i] = next[j] => i = j
    /\ \A i, j \in DOMAIN queue : queue[i] = queue[j] => i = j
    /\ Range(queue) \subseteq Planned
    /\ queue = <<>> /\ at < Len(StepSeq) => order = <<>>
KahnInv == ~Sorted => Kahn

\* The waves: apart, in an order of the dependencies, the first one started as a
\* whole and the others waiting.
WavesInv ==
    /\ \A i \in DOMAIN order : \A s \in Range(order[i]) :
          deps[s] \subseteq Ended \cup WavesBefore(i)
    /\ \A i, j \in DOMAIN order : i # j => Range(order[i]) \cap Range(order[j]) = {}
    /\ \A i \in DOMAIN order : i > 1 => \A s \in Range(order[i]) : st[s] = "wait"
    /\ \A s, t \in Range(Wave) : st[s] = "wait" => st[t] = "wait"
    /\ \A s \in Steps : st[s] \notin {"wait"} \cup Over => s \in Range(Wave)
    /\ \A s \in Steps : st[s] # "wait" => deps[s] \subseteq Ended

\* The steps outside the waves hold each other up, the others are not blocked.
BlockedInv ==
    /\ \A s \in Steps : s \in Planned \cup Range(next) \/ st[s] # "wait" => ~Blocked(s)
    /\ Sorted => \A s \in Steps \ Planned : st[s] = "wait" =>
          \E d \in deps[s] : d \in Ghosts \/ (d \in Steps \ Planned /\ st[d] = "wait")
    /\ status = "completed" => order = <<>>
    /\ status = "failed" => \A s \in Steps : st[s] \in {"wait"} \cup Over

\* The context: what is completed has started, and what a save holds is closed.
ContextInv ==
    /\ completed \subseteq Steps
    /\ \A s \in completed : st[s] # "wait"
    /\ snap \in [Steps -> SUBSET completed]
    /\ \A s \in Steps : \A t \in snap[s] : deps[t] \cap completed \subseteq snap[s]

\* The counters: a MAP step's items, and the retries of the others.
CountInv ==
    \A s \in Steps :
       /\ st[s] \in {"wait", "created", "queued"} => errors[s] = 0
       /\ Kind[s] # "map" => errors[s] = 0 /\ left[s] <= MaxRetries
       /\ Kind[s] = "map" => left[s] + errors[s] <= Items

DepsType == deps \in [Steps -> SUBSET (Steps \cup Ghosts)]
EngineInv ==
    /\ DepsType /\ EngineTypeOK /\ KahnInv /\ WavesInv /\ BlockedInv
    /\ ContextInv /\ CountInv
    /\ WithinParallelism /\ InputsComplete /\ PersistedClosed

-----------------------------------------------------------------------------
(* Sequences and steps.                                                    *)

\* The range of a sequence that got one more element.
LEMMA RangeAppend ==
    ASSUME NEW S, NEW q \in Seq(S), NEW x \in S
    PROVE  /\ Append(q, x) \in Seq(S) /\ Range(Append(q, x)) = Range(q) \cup {x}
           /\ (\A i, j \in DOMAIN q : q[i] = q[j] => i = j) /\ x \notin Range(q)
                 => \A i, j \in DOMAIN Append(q, x) :
                       Append(q, x)[i] = Append(q, x)[j] => i = j
<1>1. /\ Len(q) \in Nat /\ DOMAIN q = 1..Len(q)
      /\ DOMAIN Append(q, x) = 1..(Len(q) + 1)
      /\ \A i \in 1..Len(q) : Append(q, x)[i] = q[i]
      /\ Append(q, x)[Len(q) + 1] = x
    OBVIOUS
<1>2. \A i \in 1..(Len(q) + 1) : i \in 1..Len(q) \/ i = Len(q) + 1 BY <1>1
<1>3. \A i \in 1..Len(q) : i \in 1..(Len(q) + 1) BY <1>1
<1>4. Len(q) + 1 \in 1..(Len(q) + 1) BY <1>1
<1>5. Range(Append(q, x)) = Range(q) \cup {x}
    BY <1>1, <1>2, <1>3, <1>4, Zenon DEF Range
<1>6. ASSUME \A i, j \in DOMAIN q : q[i] = q[j] => i = j, x \notin Range(q)
      PROVE  \A i, j \in DOMAIN Append(q, x) : Append(q, x)[i] = Append(q, x)[j] => i = j
    <2>1. \A i \in 1..Len(q) : q[i] # x BY <1>1, <1>6, Zenon DEF Range
    <2> QED BY <2>1, <1>1, <1>2, <1>6, Zenon
<1>7. Append(q, x) \in Seq(S) OBVIOUS
<1> QED BY <1>5, <1>6, <1>7, Zenon

\* The range of a sequence without its head.
LEMMA RangeTail ==
    ASSUME NEW S, NEW q \in Seq(S), q # <<>>
    PROVE  /\ Range(q) = Range(Tail(q)) \cup {Head(q)}
           /\ Head(q) \in S
           /\ (\A i, j \in DOMAIN q : q[i] = q[j] => i = j)
                 => /\ Head(q) \notin Range(Tail(q))
                    /\ \A i, j \in DOMAIN Tail(q) : Tail(q)[i] = Tail(q)[j] => i = j
<1>1. /\ Len(q) \in Nat \ {0} /\ DOMAIN q = 1..Len(q)
      /\ Tail(q) \in Seq(S) /\ Len(Tail(q)) = Len(q) - 1
      /\ DOMAIN Tail(q) = 1..(Len(q) - 1)
      /\ Head(q) = q[1] /\ Head(q) \in S
      /\ \A i \in 1..(Len(q) - 1) : Tail(q)[i] = q[i + 1]
    OBVIOUS
<1>2. Range(q) = Range(Tail(q)) \cup {Head(q)}
    <2>1. ASSUME NEW x \in Range(q) PROVE x \in Range(Tail(q)) \cup {Head(q)}
        <3>1. PICK i \in 1..Len(q) : x = q[i] BY <1>1, Zenon DEF Range
        <3>2. CASE i = 1 BY <3>1, <3>2, <1>1, Zenon
        <3>3. CASE i # 1
            <4>1. i - 1 \in 1..(Len(q) - 1) /\ Tail(q)[i - 1] = x BY <3>1, <3>3, <1>1
            <4> QED BY <4>1, <1>1, Zenon DEF Range
        <3> QED BY <3>2, <3>3, Zenon
    <2>2. ASSUME NEW x \in Range(Tail(q)) \cup {Head(q)} PROVE x \in Range(q)
        <3>1. CASE x = Head(q) BY <3>1, <1>1 DEF Range
        <3>2. CASE x \in Range(Tail(q))
            <4>1. PICK i \in 1..(Len(q) - 1) : x = Tail(q)[i] BY <3>2, <1>1, Zenon DEF Range
            <4>2. i + 1 \in 1..Len(q) /\ x = q[i + 1] BY <4>1, <1>1
            <4> QED BY <4>2, <1>1, Zenon DEF Range
        <3> QED BY <3>1, <3>2, Zenon
    <2> QED BY <2>1, <2>2, Zenon
<1>3. ASSUME \A i, j \in DOMAIN q : q[i] = q[j] => i = j
      PROVE  /\ Head(q) \notin Range(Tail(q))
             /\ \A i, j \in DOMAIN Tail(q) : Tail(q)[i] = Tail(q)[j] => i = j
    <2>1. \A i \in 1..(Len(q) - 1) : Tail(q)[i] # Head(q) BY <1>3, <1>1
    <2>2. ASSUME NEW i \in DOMAIN Tail(q), NEW j \in DOMAIN Tail(q), Tail(q)[i] = Tail(q)[j]
          PROVE  i = j
        BY <1>3, <1>1, <2>2
    <2> QED BY <2>1, <2>2, <1>1 DEF Range
<1> QED BY <1>1, <1>2, <1>3, Zenon

LEMMA StepsFacts ==
    /\ IsFiniteSet(Steps)
    /\ Len(StepSeq) \in Nat /\ DOMAIN StepSeq = 1..Len(StepSeq)
    /\ \A k \in 1..Len(StepSeq) : StepSeq[k] \in Steps
    /\ \A s \in Steps : \E k \in 1..Len(StepSeq) : s = StepSeq[k]
<1>1. /\ Len(StepSeq) \in Nat /\ DOMAIN StepSeq = 1..Len(StepSeq)
    BY DagAssumption
<1>2. \A k \in 1..Len(StepSeq) : StepSeq[k] \in Steps BY <1>1, Zenon DEF Steps, Range
<1>3. \A s \in Steps : \E k \in 1..Len(StepSeq) : s = StepSeq[k] BY <1>1, Zenon DEF Steps, Range
<1>4. IsFiniteSet(1..Len(StepSeq)) BY <1>1, FS_Interval
<1>5. StepSeq \in Surjection(1..Len(StepSeq), Steps)
    <2>1. StepSeq \in [1..Len(StepSeq) -> Steps] BY DagAssumption
    <2> QED BY <2>1, <1>3, Zenon DEF Surjection
<1> QED BY <1>1, <1>2, <1>3, <1>4, <1>5, FS_Surjection, Zenon

\* What the loops of _topo_sort have looked at.
LEMMA LookedFacts ==
    ASSUME at \in 0..Len(StepSeq)
    PROVE  /\ Looked \subseteq Steps
           /\ at = Len(StepSeq) => Looked = Steps
           /\ at = 0 => Looked = {}
           /\ at < Len(StepSeq) =>
                 /\ StepSeq[at + 1] \in Steps
                 /\ StepSeq[at + 1] \notin Looked
                 /\ {StepSeq[k] : k \in 1..(at + 1)} = Looked \cup {StepSeq[at + 1]}
<1> USE StepsFacts
<1>1. Looked \subseteq Steps BY DEF Looked
<1>2. at = Len(StepSeq) => Looked = Steps BY <1>1, Zenon DEF Looked
<1>3. at = 0 => Looked = {} BY DEF Looked
<1>4. ASSUME at < Len(StepSeq)
      PROVE  /\ StepSeq[at + 1] \in Steps
             /\ StepSeq[at + 1] \notin Looked
             /\ {StepSeq[k] : k \in 1..(at + 1)} = Looked \cup {StepSeq[at + 1]}
    <2>1. at + 1 \in 1..Len(StepSeq) /\ \A k \in 1..at : k \in 1..Len(StepSeq) /\ k # at + 1
        BY <1>4
    <2>2. StepSeq[at + 1] \notin Looked BY <2>1, DagAssumption, Zenon DEF Looked
    <2>3. 1..(at + 1) = (1..at) \cup {at + 1} BY <2>1
    <2>4. \A x : x \in {StepSeq[k] : k \in 1..(at + 1)} <=> x \in Looked \cup {StepSeq[at + 1]}
        <3>1. \A k : k \in 1..(at + 1) <=> k \in 1..at \/ k = at + 1 BY <2>3, Zenon
        <3> QED BY <3>1, Zenon DEF Looked
    <2>5. {StepSeq[k] : k \in 1..(at + 1)} = Looked \cup {StepSeq[at + 1]} BY <2>4, Zenon
    <2>6. StepSeq[at + 1] \in Steps BY <2>1, StepsFacts, Zenon
    <2> QED BY <2>2, <2>5, <2>6, Zenon
<1> QED BY <1>1, <1>2, <1>3, <1>4, Zenon

\* The dependencies of a step are finitely many.
LEMMA DepsFinite ==
    ASSUME DepsType
    PROVE  \A n \in Steps : deps[n] \subseteq Steps \cup Ghosts /\ IsFiniteSet(deps[n])
<1>1. IsFiniteSet(Steps \cup Ghosts) BY StepsFacts, DagAssumption, FS_Union, Zenon
<1> QED BY <1>1, FS_Subset, Zenon DEF DepsType

\* A step whose dependencies are all steps that are not blocked is not blocked.
LEMMA NotBlocked ==
    ASSUME NEW n \in Steps, deps[n] \subseteq Steps, \A d \in deps[n] : ~Blocked(d)
    PROVE  ~Blocked(n)
BY DagAssumption DEF Blocked

-----------------------------------------------------------------------------
(* _topo_sort keeps its invariant.                                         *)

\* _topo_sort touches nothing of the execution.
LEMMA SortTypes ==
    ASSUME EngineTypeOK, UNCHANGED tasks,
           deg' \in [Steps -> Nat], at' \in 0..Len(StepSeq),
           queue' \in Seq(Steps), next' \in Seq(Steps), order' \in Seq(Seq(Steps))
    PROVE  EngineTypeOK'
BY Zenon DEF EngineTypeOK, tasks

\* Looking for the steps without a dependency.
LEMMA KahnSource ==
    ASSUME DepsType, EngineTypeOK, Kahn, SortLook, queue = <<>>
    PROVE  Kahn' /\ EngineTypeOK'
<1> DEFINE n == StepSeq[at + 1]
<1>1. /\ at \in 0..Len(StepSeq) /\ at < Len(StepSeq) /\ Len(StepSeq) \in Nat
      /\ next \in Seq(Steps) /\ deg \in [Steps -> Nat]
    BY StepsFacts, Zenon DEF EngineTypeOK, SortLook
<1>0. /\ UNCHANGED tasks /\ at' \in 0..Len(StepSeq) /\ queue \in Seq(Steps)
      /\ order \in Seq(Seq(Steps)) /\ deg \in [Steps -> Nat] /\ next \in Seq(Steps)
      /\ queue' = queue /\ order' = order
    BY <1>1 DEF EngineTypeOK, SortLook
<1>2. /\ n \in Steps /\ n \notin Looked /\ Looked' = Looked \cup {n}
    <2>1. at' = at + 1 BY Zenon  DEF SortLook
    <2> QED BY <1>1, <2>1, LookedFacts, Zenon DEF Looked
<1>3. /\ order = <<>> /\ order' = <<>> /\ queue' = <<>> /\ deg' = deg /\ deps' = deps
      /\ at' = at + 1 /\ st' = st /\ status' = status
      /\ next' = IF deg[n] = 0 THEN Append(next, n) ELSE next
    BY <1>1, Zenon DEF Kahn, SortLook, SortSource, SortNeighbour, tasks
<1>4. Planned = {} /\ Planned' = {} BY <1>3 DEF Planned
<1>5. Range(queue) = {} /\ Range(queue') = {} BY <1>3 DEF Range
<1>6. \A m \in Steps : Taken(m) = {} /\ Taken(m)' = {} BY <1>3, <1>4, <1>5, Zenon DEF Taken
<1>7. \A m \in Steps : deg'[m] = Cardinality(deps'[m] \ Taken(m)')
    BY <1>3, <1>6, Zenon DEF Kahn
<1>8. \A m \in Steps : m \in Range(next) <=> deg[m] = 0 /\ m \in Looked
    BY <1>4, <1>3, Zenon DEF Kahn
<1>9. CASE deg[n] = 0
    <2>1. Range(next') = Range(next) \cup {n} /\ next' \in Seq(Steps)
        BY <1>9, <1>1, <1>2, <1>3, RangeAppend
    <2>2. \A m \in Steps : m \in Range(next') <=> deg'[m] = 0 /\ m \in Looked'
        BY <2>1, <1>8, <1>9, <1>2, <1>3, Zenon
    <2>3. deps[n] = {}
        <3>1. deps[n] \ Taken(n) = deps[n] BY <1>2, <1>6, Zenon
        <3>2. Cardinality(deps[n]) = 0 BY <3>1, <1>9, <1>2, Zenon DEF Kahn
        <3>3. IsFiniteSet(deps[n]) BY <1>2, DepsFinite, Zenon
        <3> QED BY <3>2, <3>3, FS_EmptySet, Zenon
    <2>4. \A s \in Range(next') : deps'[s] \subseteq Planned'
        BY <2>1, <2>3, <1>3, <1>4, Zenon DEF Kahn
    <2>5. \A i, j \in DOMAIN next' : next'[i] = next'[j] => i = j
        <3>1. \A i \in 1..Len(next) : next[i] # n BY <1>8, <1>2, <1>1 DEF Range
        <3> QED BY <3>1, <1>3, <1>9, <1>1, <1>2 DEF Kahn
    <2>6. Kahn'
        BY <2>2, <2>4, <2>5, <1>3, <1>4, <1>5, <1>7, Zenon DEF Kahn
    <2>7. EngineTypeOK'
        BY <2>1, <1>0, <1>3, SortTypes, Zenon
    <2> QED BY <2>6, <2>7, Zenon
<1>10. CASE deg[n] # 0
    <2>1. \A m \in Steps : m \in Range(next') <=> deg'[m] = 0 /\ m \in Looked'
        BY <1>8, <1>10, <1>2, <1>3, Zenon
    <2>2. Kahn'
        BY <2>1, <1>10, <1>3, <1>4, <1>5, <1>7, Zenon DEF Kahn
    <2>3. EngineTypeOK'
        BY <1>10, <1>0, <1>3, SortTypes, Zenon
    <2> QED BY <2>2, <2>3, Zenon
<1> QED BY <1>9, <1>10, Zenon

\* Looking at a neighbour of the first step in the queue.
LEMMA KahnNeighbour ==
    ASSUME DepsType, EngineTypeOK, Kahn, SortLook, queue # <<>>
    PROVE  Kahn' /\ EngineTypeOK'
<1>1. /\ at \in 0..Len(StepSeq) /\ at < Len(StepSeq) /\ Len(StepSeq) \in Nat
      /\ next \in Seq(Steps) /\ queue \in Seq(Steps) /\ deg \in [Steps -> Nat]
    BY StepsFacts, Zenon DEF EngineTypeOK, SortLook
<1>0. PICK n \in Steps, h \in Steps : n = StepSeq[at + 1] /\ h = Head(queue)
    BY <1>1, RangeTail, LookedFacts, Zenon
<1>d. PICK D : D = deps[n] \ Taken(n) OBVIOUS
<1>t. /\ UNCHANGED tasks /\ at' \in 0..Len(StepSeq) /\ queue \in Seq(Steps)
      /\ order \in Seq(Seq(Steps)) /\ deg \in [Steps -> Nat] /\ next \in Seq(Steps)
      /\ queue' = queue /\ order' = order
    <2>1. at' \in 0..Len(StepSeq) BY <1>1 DEF SortLook
    <2> QED BY <2>1, Zenon DEF EngineTypeOK, SortLook
<1>2. /\ n \in Steps /\ n \notin Looked /\ Looked' = Looked \cup {n}
    <2>1. at' = at + 1 BY Zenon  DEF SortLook
    <2> QED BY <1>0, <1>1, <2>1, LookedFacts, Zenon DEF Looked
<1>3. /\ order' = order /\ queue' = queue /\ deps' = deps
      /\ at' = at + 1 /\ st' = st /\ status' = status
      /\ IF h \in deps[n]
         THEN /\ deg' = [deg EXCEPT ![n] = @ - 1]
              /\ next' = IF deg[n] = 1 THEN Append(next, n) ELSE next
         ELSE deg' = deg /\ next' = next
    BY <1>0, <1>1, Zenon DEF SortLook, SortSource, SortNeighbour, tasks
<1>4. h \in Range(queue) /\ Range(queue) \subseteq Planned /\ Planned' = Planned
    BY <1>0, <1>1, <1>3, RangeTail DEF Kahn, Planned
<1>5. order # <<>> BY <1>4 DEF Planned
<1>6. /\ \A m \in Steps : m # n => Taken(m)' = Taken(m)
      /\ Taken(n) = Planned \ Range(queue) /\ Taken(n)' = Taken(n) \cup {h}
    BY <1>0, <1>2, <1>3, <1>4, Zenon DEF Taken
<1>7. IsFiniteSet(D) /\ deg[n] = Cardinality(D)
    BY <1>d, <1>2, DepsFinite, FS_Subset, Zenon DEF Kahn
<1>8. \A m \in Steps : m \in Planned \cup Range(next) <=> deg[m] = 0
    BY <1>5, Zenon DEF Kahn
<1>9. CASE h \in deps[n]
    <2>1. h \in D /\ deps[n] \ Taken(n)' = D \ {h} BY <1>d, <1>9, <1>4, <1>6, Zenon
    <2>2. Cardinality(D \ {h}) = Cardinality(D) - 1 /\ IsFiniteSet(D \ {h})
        BY <2>1, <1>7, FS_RemoveElement, Zenon
    <2>3. deg' \in [Steps -> Nat] /\ deg'[n] = deg[n] - 1 /\ deg[n] > 0
        <3>1. Cardinality(D) \in Nat /\ Cardinality(D \ {h}) \in Nat
            BY <1>7, <2>2, FS_CardinalityType, Zenon
        <3> QED BY <3>1, <2>2, <1>1, <1>2, <1>3, <1>7, <1>9
    <2>4. \A m \in Steps : deg'[m] = Cardinality(deps'[m] \ Taken(m)')
        <3>1. ASSUME NEW m \in Steps, m # n PROVE deg'[m] = Cardinality(deps'[m] \ Taken(m)')
            BY <3>1, <1>1, <1>3, <1>6, <1>9 DEF Kahn
        <3>2. deg'[n] = Cardinality(deps'[n] \ Taken(n)') BY <1>3, <1>7, <2>1, <2>2, <2>3, Zenon
        <3> QED BY <3>1, <3>2, Zenon
    <2>5. CASE deg[n] = 1
        <3>1. Range(next') = Range(next) \cup {n} /\ next' \in Seq(Steps)
            <4>1. next' = Append(next, n) BY <1>3, <1>9, <2>5, Zenon
            <4>2. next \in Seq(Steps) /\ n \in Steps BY <1>1, Zenon
            <4> QED BY <4>1, <4>2, RangeAppend
        <3>2. n \notin Planned \cup Range(next) BY <1>8, <1>2, <2>5
        <3>3. \A m \in Steps : m \in Planned \cup Range(next') <=> deg'[m] = 0
            <4>1. \A m \in Steps : m # n => deg'[m] = deg[m] BY <1>1, <1>3, <1>9, Zenon
            <4>2. deg'[n] = 0 BY <2>3, <2>5
            <4>3. ASSUME NEW m \in Steps PROVE m \in Planned \cup Range(next') <=> deg'[m] = 0
                <5>1. CASE m = n BY <5>1, <4>2, <3>1, Zenon
                <5>2. CASE m # n BY <5>2, <4>1, <3>1, <1>8, Zenon
                <5> QED BY <5>1, <5>2, Zenon
            <4> QED BY <4>3, Zenon
        <3>4. deps[n] \subseteq Planned
            <4>1. D \ {h} = {} BY <2>2, <1>7, <2>5, FS_EmptySet
            <4> QED BY <4>1, <2>1, <1>0, <1>4, <1>6
        <3>5. \A s \in Range(next') : deps'[s] \subseteq Planned'
            BY <3>1, <3>4, <1>3, <1>4, Zenon DEF Kahn
        <3>6. \A i, j \in DOMAIN next' : next'[i] = next'[j] => i = j
            <4>1. next' = Append(next, n) BY <1>3, <1>9, <2>5, Zenon
            <4>2. \A i, j \in DOMAIN next : next[i] = next[j] => i = j BY Zenon  DEF Kahn
            <4>3. next \in Seq(Steps) /\ n \in Steps /\ n \notin Range(next) BY <1>1, <3>2, Zenon
            <4> QED BY <4>1, <4>2, <4>3, RangeAppend
        <3>7. Range(next') \cap Planned' = {} BY <3>1, <3>2, <1>4 DEF Kahn
        <3>8. Kahn'
            BY <3>3, <3>5, <3>6, <3>7, <2>4, <1>3, <1>4, <1>5, Zenon DEF Kahn
        <3>9. EngineTypeOK'
            BY <3>1, <2>3, <1>t, <1>3, SortTypes, Zenon
        <3> QED BY <3>8, <3>9, Zenon
    <2>6. CASE deg[n] # 1
        <3>1. next' = next BY <1>3, <1>9, <2>6, Zenon
        <3>2. \A m \in Steps : m \in Planned \cup Range(next') <=> deg'[m] = 0
            <4>1. \A m \in Steps : m # n => deg'[m] = deg[m] BY <1>1, <1>3, <1>9, Zenon
            <4>2. deg'[n] # 0 /\ deg[n] # 0 BY <1>2, <1>t, <2>3, <2>6
            <4>3. ASSUME NEW m \in Steps PROVE m \in Planned \cup Range(next') <=> deg'[m] = 0
                <5>1. CASE m = n BY <5>1, <4>2, <3>1, <1>8, Zenon
                <5>2. CASE m # n BY <5>2, <4>1, <3>1, <1>8, Zenon
                <5> QED BY <5>1, <5>2, Zenon
            <4> QED BY <4>3, Zenon
        <3>3. Kahn'
            BY <3>1, <3>2, <2>4, <1>3, <1>4, <1>5, Zenon DEF Kahn
        <3>4. EngineTypeOK'
            BY <3>1, <2>3, <1>t, <1>3, SortTypes, Zenon
        <3> QED BY <3>3, <3>4, Zenon
    <2> QED BY <2>5, <2>6, Zenon
<1>10. CASE h \notin deps[n]
    <2>1. deps[n] \ Taken(n)' = D BY <1>d, <1>10, <1>6, Zenon
    <2>2. \A m \in Steps : deg'[m] = Cardinality(deps'[m] \ Taken(m)')
        <3>1. ASSUME NEW m \in Steps, m # n PROVE deps'[m] \ Taken(m)' = deps[m] \ Taken(m)
            BY <3>1, <1>3, <1>6, Zenon
        <3>2. deps'[n] \ Taken(n)' = deps[n] \ Taken(n) BY <2>1, <1>d, <1>3, Zenon
        <3>3. \A m \in Steps : deps'[m] \ Taken(m)' = deps[m] \ Taken(m) BY <3>1, <3>2, Zenon
        <3> QED BY <3>3, <1>3, <1>10, Zenon DEF Kahn
    <2>3. Kahn'
        BY <2>2, <1>3, <1>4, <1>5, <1>8, <1>10, Zenon DEF Kahn
    <2>4. EngineTypeOK'
        BY <1>10, <1>t, <1>3, SortTypes, Zenon
    <2> QED BY <2>3, <2>4, Zenon
<1> QED BY <1>9, <1>10, Zenon

\* Leaving the first step of the queue.
LEMMA KahnPop ==
    ASSUME DepsType, EngineTypeOK, Kahn, SortStep
    PROVE  Kahn' /\ EngineTypeOK'
<1>1. /\ at \in 0..Len(StepSeq) /\ at = Len(StepSeq) /\ Len(StepSeq) \in Nat
      /\ queue \in Seq(Steps) /\ queue # <<>>
    BY StepsFacts, Zenon DEF EngineTypeOK, SortStep
<1>2. PICK h \in Steps, q \in Seq(Steps) : h = Head(queue) /\ q = Tail(queue)
    <2>1. Head(queue) \in Steps /\ Tail(queue) \in Seq(Steps) BY <1>1
    <2> QED BY <2>1, Zenon
<1>3. /\ Range(queue) = Range(q) \cup {h} /\ h \notin Range(q)
      /\ \A i, j \in DOMAIN q : q[i] = q[j] => i = j
    <2>1. \A i, j \in DOMAIN queue : queue[i] = queue[j] => i = j BY Zenon  DEF Kahn
    <2> QED BY <1>1, <1>2, <2>1, RangeTail, Zenon
<1>4. /\ queue' = q /\ at' = IF q = <<>> THEN at ELSE 0
      /\ deps' = deps /\ deg' = deg /\ next' = next /\ order' = order
      /\ st' = st /\ status' = status /\ UNCHANGED tasks
    BY <1>2, Zenon DEF SortStep, tasks
<1>5. Planned' = Planned /\ Range(queue) \subseteq Planned /\ order # <<>>
    BY <1>1, <1>3, <1>4 DEF Planned, Kahn
<1>6. at' \in 0..Len(StepSeq) /\ (q = <<>> => ~(at' < Len(StepSeq)))
    BY <1>1, <1>4
<1>7. Looked = Steps /\ (q # <<>> => Looked' = {})
    <2>1. Looked = Steps BY <1>1, LookedFacts, Zenon
    <2>2. ASSUME q # <<>> PROVE Looked' = {} BY <2>2, <1>4 DEF Looked
    <2> QED BY <2>1, <2>2, Zenon
<1>8. \A m \in Steps : Taken(m)' = Taken(m)
    <2>1. \A m \in Steps : Taken(m) = (Planned \ Range(queue)) \cup {h}
        BY <1>1, <1>2, <1>7, Zenon DEF Taken
    <2>2. \A m \in Steps : Taken(m)' = Planned \ Range(q)
        <3>1. CASE q = <<>> BY <1>4, <1>5, <3>1, Zenon DEF Taken
        <3>2. CASE q # <<>>
            <4>1. Looked' = {} BY <1>7, <3>2, Zenon
            <4> QED BY <1>4, <1>5, <4>1, Zenon DEF Taken
        <3> QED BY <3>1, <3>2, Zenon
    <2>3. (Planned \ Range(queue)) \cup {h} = Planned \ Range(q)
        BY <1>3, <1>5, Zenon
    <2> QED BY <2>1, <2>2, <2>3, Zenon
<1>9. Kahn'
    <2>1. \A n \in Steps : deg'[n] = Cardinality(deps'[n] \ Taken(n)')
        BY <1>4, <1>8, Zenon DEF Kahn
    <2>2. Range(queue') \subseteq Planned' BY <1>3, <1>4, <1>5, Zenon
    <2> QED BY <2>1, <2>2, <1>3, <1>4, <1>5, <1>6, Zenon DEF Kahn
<1>10. EngineTypeOK' BY <1>2, <1>4, <1>6, SortTypes, Zenon DEF EngineTypeOK
<1> QED BY <1>9, <1>10, Zenon

\* The waves after one more.
LEMMA PlannedAppend ==
    ASSUME order \in Seq(Seq(Steps)), NEW w \in Seq(Steps), order' = Append(order, w)
    PROVE  /\ Planned' = Planned \cup Range(w)
           /\ Len(order) \in Nat /\ DOMAIN order = 1..Len(order)
           /\ DOMAIN order' = 1..(Len(order) + 1)
           /\ order'[Len(order) + 1] = w
           /\ \A i \in 1..Len(order) : order'[i] = order[i]
<1>1. /\ Len(order) \in Nat /\ DOMAIN order = 1..Len(order)
      /\ DOMAIN order' = 1..(Len(order) + 1)
      /\ order'[Len(order) + 1] = w
      /\ \A i \in 1..Len(order) : order'[i] = order[i]
    OBVIOUS
<1>2. 1..(Len(order) + 1) = (1..Len(order)) \cup {Len(order) + 1} BY <1>1
<1>3. Planned' = Planned \cup Range(w)
    BY <1>1, <1>2, Zenon DEF Planned
<1> QED BY <1>1, <1>3, Zenon

\* The next wave is complete.
LEMMA KahnWave ==
    ASSUME DepsType, EngineTypeOK, Kahn, SortWave
    PROVE  Kahn' /\ EngineTypeOK'
<1>1. /\ at \in 0..Len(StepSeq) /\ at = Len(StepSeq) /\ Len(StepSeq) \in Nat
      /\ queue = <<>> /\ next # <<>> /\ next \in Seq(Steps) /\ order \in Seq(Seq(Steps))
    BY StepsFacts, Zenon DEF EngineTypeOK, SortWave
<1>2. /\ order' = Append(order, next) /\ queue' = next /\ next' = <<>> /\ at' = 0
      /\ deps' = deps /\ deg' = deg /\ st' = st /\ status' = status /\ UNCHANGED tasks
    BY Zenon DEF SortWave, tasks
<1>3. Planned' = Planned \cup Range(next) BY <1>1, <1>2, PlannedAppend, Zenon
<1>4. Range(queue) = {} /\ Range(next') = {} BY <1>1, <1>2 DEF Range
<1>5. Looked = Steps /\ Looked' = {}
    <2>1. Looked = Steps BY <1>1, LookedFacts, Zenon
    <2>2. Looked' = {} BY <1>2 DEF Looked
    <2> QED BY <2>1, <2>2, Zenon
<1>6. order' # <<>> BY <1>1, <1>2
<1>7. \A m \in Steps : Taken(m)' = Taken(m)
    <2>1. \A m \in Steps : Taken(m) = Planned BY <1>1, <1>4, Zenon DEF Taken
    <2>2. \A m \in Steps : Taken(m)' = (Planned \cup Range(next)) \ Range(next)
        BY <1>2, <1>3, <1>5, Zenon DEF Taken
    <2>3. Range(next) \cap Planned = {} BY Zenon  DEF Kahn
    <2> QED BY <2>1, <2>2, <2>3, Zenon
<1>8. Kahn'
    <2>1. \A n \in Steps : deg'[n] = Cardinality(deps'[n] \ Taken(n)')
        BY <1>2, <1>7, Zenon DEF Kahn
    <2>2. \A n \in Steps : n \in Planned' \cup Range(next') <=> deg'[n] = 0
        BY <1>2, <1>3, <1>4, <1>5, Zenon DEF Kahn
    <2>3. \A i, j \in DOMAIN next' : next'[i] = next'[j] => i = j BY <1>2
    <2> QED BY <2>1, <2>2, <2>3, <1>1, <1>2, <1>3, <1>4, <1>6, Zenon DEF Kahn
<1>9. EngineTypeOK'
    <2>1. order' \in Seq(Seq(Steps)) /\ next' \in Seq(Steps) BY <1>1, <1>2
    <2>2. at' \in 0..Len(StepSeq) BY <1>1, <1>2
    <2> QED BY <2>1, <2>2, <1>1, <1>2, SortTypes, Zenon DEF EngineTypeOK
<1> QED BY <1>8, <1>9, Zenon

\* Where the waves are sets of steps.
LEMMA PlannedSteps ==
    ASSUME order \in Seq(Seq(Steps))
    PROVE  /\ \A i \in DOMAIN order : order[i] \in Seq(Steps) /\ Range(order[i]) \subseteq Steps
           /\ Planned \subseteq Steps
           /\ order # <<>> => Wave = order[1] /\ 1 \in DOMAIN order
           /\ order = <<>> => Wave = <<>> /\ Planned = {}
<1>1. Len(order) \in Nat /\ DOMAIN order = 1..Len(order) OBVIOUS
<1>2. \A i \in DOMAIN order : order[i] \in Seq(Steps) OBVIOUS
<1>3. ASSUME NEW w \in Seq(Steps) PROVE Range(w) \subseteq Steps
    <2>1. \A i \in DOMAIN w : w[i] \in Steps OBVIOUS
    <2> QED BY <2>1, Zenon DEF Range
<1>4. Planned \subseteq Steps BY <1>2, <1>3, Zenon DEF Planned
<1>5. ASSUME order # <<>> PROVE Wave = order[1] /\ 1 \in DOMAIN order
    BY <1>5, <1>1 DEF Wave
<1>6. ASSUME order = <<>> PROVE Wave = <<>> /\ Planned = {}
    BY <1>6, <1>1 DEF Wave, Planned
<1> QED BY <1>2, <1>3, <1>4, <1>5, <1>6, Zenon

\* Once sorted, a step outside the waves depends on another one or on no step.
LEMMA KahnComplete ==
    ASSUME DepsType, EngineTypeOK, Kahn, Sorted
    PROVE  \A s \in Steps \ Planned :
              \E d \in deps[s] : d \in Ghosts \/ (d \in Steps \ Planned /\ st[d] = "wait")
<1> SUFFICES ASSUME NEW s \in Steps \ Planned
             PROVE  \E d \in deps[s] : d \in Ghosts \/ (d \in Steps \ Planned /\ st[d] = "wait")
    OBVIOUS
<1>1. at = Len(StepSeq) /\ at \in 0..Len(StepSeq) /\ queue = <<>> /\ next = <<>>
    BY Zenon DEF Sorted, EngineTypeOK
<1>2. Looked = Steps BY <1>1, LookedFacts, Zenon
<1>3. Range(next) = {} /\ Range(queue) = {} BY <1>1 DEF Range
<1>4. deg[s] # 0 BY <1>2, <1>3, Zenon DEF Kahn
<1>5. Taken(s) = Planned BY <1>1, <1>3, Zenon DEF Taken
<1>6. Cardinality(deps[s] \ Planned) # 0 BY <1>4, <1>5, Zenon DEF Kahn
<1>7. PICK d \in deps[s] : d \notin Planned BY <1>6, FS_EmptySet, Zenon
<1>8. d \in Steps \cup Ghosts BY <1>7, DepsFinite, Zenon
<1> QED BY <1>7, <1>8, Zenon DEF Kahn

\* The waves and the blocked steps through a step of _topo_sort.
LEMMA SortWaves ==
    ASSUME DepsType, EngineTypeOK, Kahn, WavesInv, Sort
    PROVE  WavesInv'
<1>1. /\ deps' = deps /\ st' = st /\ \A s \in Steps : st[s] = "wait"
      /\ order \in Seq(Seq(Steps)) /\ next \in Seq(Steps)
    BY Zenon DEF Kahn, Sort, SortLook, SortStep, SortWave, tasks, EngineTypeOK
<1>2. CASE order' = order
    <2>1. Ended' = Ended /\ Wave' = Wave BY <1>1, <1>2, Zenon DEF Ended, Wave
    <2>2. ASSUME NEW i PROVE WavesBefore(i)' = WavesBefore(i) BY <1>2, Zenon DEF WavesBefore
    <2> QED BY <1>1, <1>2, <2>1, <2>2, Zenon DEF WavesInv
<1>3. CASE SortWave
    <2>1. order' = Append(order, next) /\ next # <<>> BY <1>3, Zenon DEF SortWave
    <2> DEFINE k == Len(order) + 1
    <2>2. /\ Len(order) \in Nat /\ DOMAIN order = 1..Len(order) /\ DOMAIN order' = 1..k
          /\ order'[k] = next /\ \A i \in 1..Len(order) : order'[i] = order[i]
        BY <1>1, <2>1, PlannedAppend, Zenon
    <2>3. \A i \in 1..k : i \in 1..Len(order) \/ i = k BY <2>2
    <2>4. \A i \in DOMAIN order' : Range(order'[i]) \subseteq Steps
        <3>1. order' \in Seq(Seq(Steps)) BY <1>1, <2>1
        <3> QED BY <3>1, <2>2, <2>3, <1>1, PlannedSteps DEF Range
    <2>5. \A i \in 1..Len(order) : WavesBefore(i)' = WavesBefore(i)
        <3>1. ASSUME NEW i \in 1..Len(order) PROVE \A j \in 1..(i - 1) : j \in 1..Len(order)
            BY <2>2
        <3> QED BY <3>1, <2>2, Zenon DEF WavesBefore
    <2>6. UNION {Range(order'[j]) : j \in 1..(k - 1)} = Planned
        <3>1. k - 1 = Len(order) BY <2>2
        <3> QED BY <3>1, <2>2, Zenon DEF Planned
    <2>7. \A i \in DOMAIN order' : \A s \in Range(order'[i]) :
             deps'[s] \subseteq Ended' \cup UNION {Range(order'[j]) : j \in 1..(i - 1)}
        <3>1. ASSUME NEW i \in 1..Len(order), NEW s \in Range(order'[i])
              PROVE deps'[s] \subseteq Ended' \cup UNION {Range(order'[j]) : j \in 1..(i - 1)}
            <4>1. deps[s] \subseteq Ended \cup WavesBefore(i) BY <3>1, <2>2, Zenon DEF WavesInv
            <4> QED BY <4>1, <2>5, <1>1, Zenon DEF WavesBefore, Ended
        <3>2. ASSUME NEW s \in Range(next) PROVE deps'[s] \subseteq Planned
            BY <1>1, <3>2, Zenon DEF Kahn
        <3> QED BY <3>1, <3>2, <2>2, <2>3, <2>6, Zenon
    <2>8. \A i, j \in DOMAIN order' : i # j => Range(order'[i]) \cap Range(order'[j]) = {}
        <3>1. \A i \in 1..Len(order) : Range(order[i]) \cap Range(next) = {}
            BY <2>2 DEF Kahn, Planned
        <3> QED BY <3>1, <2>2, <2>3, Zenon DEF WavesInv
    <2>9. Range(Wave') \subseteq Steps
        <3>1. order' \in Seq(Seq(Steps)) /\ order' # <<>> BY <1>1, <2>1
        <3>2. Wave' = order'[1] /\ 1 \in DOMAIN order' BY <3>1, <2>2 DEF Wave
        <3> QED BY <3>2, <2>4, Zenon
    <2> HIDE DEF k
    <2> QED BY <1>1, <2>4, <2>7, <2>8, <2>9, Zenon DEF WavesInv, WavesBefore
<1> QED BY <1>2, <1>3, Zenon DEF Sort, SortLook, SortStep

LEMMA SortBlocked ==
    ASSUME DepsType, EngineTypeOK, Kahn, BlockedInv, Sort, Kahn', EngineTypeOK'
    PROVE  BlockedInv'
<1>1. /\ deps' = deps /\ st' = st /\ status' = "running"
      /\ \A s \in Steps : st[s] = "wait"
      /\ order \in Seq(Seq(Steps)) /\ order' \in Seq(Seq(Steps)) /\ next \in Seq(Steps)
    BY Zenon DEF Kahn, Sort, SortLook, SortStep, SortWave, tasks, EngineTypeOK
<1>2. \A s : Blocked(s)' = Blocked(s) BY <1>1, Zenon DEF Blocked
<1>3. Planned' \subseteq Planned \cup Range(next)
    <2>1. CASE SortWave
        <3>1. order' = Append(order, next) BY <2>1, Zenon DEF SortWave
        <3> QED BY <3>1, <1>1, PlannedAppend, Zenon
    <2>2. CASE order' = order BY <2>2, Zenon DEF Planned
    <2> QED BY <2>1, <2>2, Zenon DEF Sort, SortLook, SortStep
<1>4. Planned' \subseteq Steps /\ Planned \subseteq Steps
    <2>1. Planned' \subseteq Steps
        <3>1. \A i \in DOMAIN order' : order'[i] \in Seq(Steps) BY <1>1
        <3>2. ASSUME NEW w \in Seq(Steps) PROVE Range(w) \subseteq Steps
            <4>1. \A i \in DOMAIN w : w[i] \in Steps OBVIOUS
            <4> QED BY <4>1, Zenon DEF Range
        <3> QED BY <3>1, <3>2, Zenon DEF Planned
    <2> QED BY <2>1, <1>1, PlannedSteps, Zenon
<1>5. \A s \in Planned' : ~Blocked(s) BY <1>3, <1>4, Zenon DEF BlockedInv
<1>6. \A s \in Steps : s \in Range(next') => ~Blocked(s)
    <2>1. ASSUME NEW s \in Steps, s \in Range(next') PROVE ~Blocked(s)
        <3>1. deps[s] \subseteq Planned' BY <2>1, <1>1, Zenon DEF Kahn
        <3>2. deps[s] \subseteq Steps /\ \A d \in deps[s] : ~Blocked(d)
            BY <3>1, <1>4, <1>5, Zenon
        <3> QED BY <3>2, NotBlocked, Zenon
    <2> QED BY <2>1, Zenon
<1>7. ASSUME Sorted'
      PROVE  \A s \in Steps \ Planned' : \E d \in deps'[s] :
                d \in Ghosts \/ (d \in Steps \ Planned' /\ st'[d] = "wait")
    <2>1. DepsType' BY <1>1, Zenon DEF DepsType
    <2>2. (DepsType /\ EngineTypeOK /\ Kahn /\ Sorted =>
             \A s \in Steps \ Planned : \E d \in deps[s] :
                d \in Ghosts \/ (d \in Steps \ Planned /\ st[d] = "wait"))'
        BY KahnComplete, PTL
    <2> QED BY <2>1, <2>2, <1>7, Zenon
<1> QED BY <1>1, <1>2, <1>5, <1>6, <1>7, Zenon DEF BlockedInv

\* _topo_sort keeps the whole invariant.
LEMMA SortStepInv ==
    ASSUME EngineInv, Sort
    PROVE  EngineInv'
<1>1. DepsType /\ EngineTypeOK /\ KahnInv /\ WavesInv /\ BlockedInv BY Zenon  DEF EngineInv
<1>2. Kahn
    <2>1. ~Sorted
        <3>1. at \in 0..Len(StepSeq) /\ Len(StepSeq) \in Nat
            BY <1>1, StepsFacts, Zenon DEF EngineTypeOK
        <3> QED BY <3>1 DEF Sort, SortLook, SortStep, SortWave, Sorted
    <2> QED BY <1>1, <2>1, Zenon DEF KahnInv
<1>3. Kahn' /\ EngineTypeOK'
    BY <1>1, <1>2, KahnSource, KahnNeighbour, KahnPop, KahnWave, Zenon DEF Sort
<1>4. WavesInv' BY <1>1, <1>2, SortWaves, Zenon
<1>5. BlockedInv' BY <1>1, <1>2, <1>3, SortBlocked, Zenon
<1>6. deps' = deps /\ UNCHANGED tasks BY Zenon DEF Sort, SortLook, SortStep, SortWave
<1>7. DepsType' BY <1>1, <1>6, Zenon DEF DepsType
<1>8. ContextInv' /\ CountInv'
    BY <1>6, Zenon DEF EngineInv, ContextInv, CountInv, tasks
<1>9. WithinParallelism' /\ InputsComplete' /\ PersistedClosed'
    BY <1>6, Zenon DEF EngineInv, WithinParallelism, InputsComplete, PersistedClosed, tasks
<1> QED BY <1>3, <1>4, <1>5, <1>7, <1>8, <1>9, Zenon DEF EngineInv, KahnInv

LEMMA EngineInitInv ==
    ASSUME EngineInit
    PROVE  EngineInv
<1>1. /\ deps \in [Steps -> {D \in SUBSET (Steps \cup Ghosts) : Cardinality(D) <= MaxDeps}]
      /\ deg = [s \in Steps |-> Cardinality(deps[s])]
      /\ queue = <<>> /\ next = <<>> /\ at = 0 /\ order = <<>>
      /\ st = [s \in Steps |-> "wait"] /\ left = [s \in Steps |-> 0]
      /\ errors = [s \in Steps |-> 0] /\ inputs = [s \in Steps |-> {}]
      /\ produced = {} /\ completed = {} /\ snap = [s \in Steps |-> {}]
      /\ saved = {} /\ status = "running"
    BY Zenon DEF EngineInit, InDegree
<1>2. DepsType BY <1>1, Zenon DEF DepsType
<1>3. /\ Range(queue) = {} /\ Range(next) = {} /\ Planned = {} /\ Wave = <<>>
      /\ Looked = {} /\ Range(Wave) = {}
    BY <1>1 DEF Range, Planned, Wave, Looked
<1>4. EngineTypeOK
    <2>1. deg \in [Steps -> Nat]
        BY <1>1, <1>2, DepsFinite, FS_CardinalityType, Zenon
    <2>2. at \in 0..Len(StepSeq) BY <1>1, StepsFacts
    <2>3. /\ queue \in Seq(Steps) /\ next \in Seq(Steps) /\ order \in Seq(Seq(Steps))
        BY <1>1
    <2>4. left \in [Steps -> 0..(MaxRetries + Items)] /\ errors \in [Steps -> 0..Items]
        BY <1>1, DagAssumption
    <2> QED BY <1>1, <2>1, <2>2, <2>3, <2>4, Zenon DEF EngineTypeOK
<1>5. Kahn
    <2>1. \A n \in Steps : Taken(n) = {} BY <1>1, <1>3, Zenon DEF Taken
    <2>2. \A n \in Steps : deg[n] = Cardinality(deps[n] \ Taken(n)) BY <1>1, <2>1, Zenon
    <2>3. \A s \in Steps : st[s] = "wait" BY <1>1, Zenon
    <2>4. \A n \in Steps : n \in Planned \cup Range(next)
             <=> deg[n] = 0 /\ (order # <<>> \/ n \in Looked)
        BY <1>1, <1>3, Zenon
    <2>5. \A i, j \in DOMAIN next : next[i] = next[j] => i = j BY <1>1
    <2>6. \A i, j \in DOMAIN queue : queue[i] = queue[j] => i = j BY <1>1
    <2>7. Range(next) \cap Planned = {} /\ Range(queue) \subseteq Planned BY <1>3, Zenon
    <2> QED BY <1>1, <1>3, <2>2, <2>3, <2>4, <2>5, <2>6, <2>7, Zenon DEF Kahn
<1>6. WavesInv BY <1>1, <1>3 DEF WavesInv
<1>7. BlockedInv
    <2>1. \A s \in Steps : st[s] = "wait" BY <1>1, Zenon
    <2>2. ASSUME Sorted, NEW s \in Steps PROVE FALSE
        BY <1>1, <2>2, StepsFacts DEF Sorted
    <2> QED BY <1>1, <1>3, <2>1, <2>2, Zenon DEF BlockedInv
<1>8. ContextInv /\ CountInv BY <1>1, DagAssumption DEF ContextInv, CountInv
<1>9. WithinParallelism
    <2>1. {s \in Steps : st[s] \in Inside} = {} BY <1>1, Zenon DEF Inside
    <2>2. Parallelism \in Nat BY DagAssumption, Zenon
    <2>3. Cardinality({}) = 0 BY FS_EmptySet, Zenon
    <2> QED BY <2>1, <2>2, <2>3 DEF WithinParallelism
<1>10. InputsComplete /\ PersistedClosed BY <1>1, Zenon DEF InputsComplete, PersistedClosed
<1> QED BY <1>2, <1>4, <1>5, <1>6, <1>7, <1>8, <1>9, <1>10, Zenon DEF EngineInv, KahnInv

-----------------------------------------------------------------------------
(* The waves through the steps of execute and _run_step.                   *)

Stages == {"wait", "created", "queued", "run", "sleep", "saving", "done", "raised"}

\* A step that moves is under way, and only it moves.
LEMMA StepMoves ==
    ASSUME EngineTypeOK, NEW s \in Steps, StepAction(s)
    PROVE  /\ UNCHANGED <<deps, deg, queue, next, at, order, status>>
           /\ st[s] \notin {"wait"} \cup Over
           /\ \E v \in Stages \ {"wait"} : st' = [st EXCEPT ![s] = v]
<1>1. st \in [Steps -> Stages] BY Zenon DEF EngineTypeOK, Stages, Over
<1>2. CASE SkipByCondition(s) \/ BuildInput(s)
    BY <1>2, Zenon DEF SkipByCondition, BuildInput, FirstSlice, Stages, Over, sort, ctx
<1>3. CASE Acquire(s) \/ Retry(s)
    BY <1>3, Zenon DEF Acquire, Retry, Stages, Over, sort, ctx
<1>4. CASE DispatchOk(s) \/ DispatchError(s)
    BY <1>4, Zenon DEF DispatchOk, DispatchError, Finish, GiveUp, Stages, Over, sort, ctx
<1>5. ASSUME NEW e \in BOOLEAN, MapItem(s, e)
      PROVE  /\ UNCHANGED <<deps, deg, queue, next, at, order, status>>
             /\ st[s] \notin {"wait"} \cup Over
             /\ \E v \in Stages \ {"wait"} : st' = [st EXCEPT ![s] = v]
    <2>1. st' = [st EXCEPT ![s] = "run"] BY <1>1, <1>5, Zenon DEF MapItem
    <2> QED BY <2>1, <1>5, Zenon DEF MapItem, Stages, Over, sort
<1>6. CASE MapGathered(s)
    BY <1>6, Zenon DEF MapGathered, Finish, GiveUp, Stages, Over, sort, ctx
<1>7. ASSUME NEW e \in BOOLEAN, SaveEnds(s, e)
      PROVE  /\ UNCHANGED <<deps, deg, queue, next, at, order, status>>
             /\ st[s] \notin {"wait"} \cup Over
             /\ \E v \in Stages \ {"wait"} : st' = [st EXCEPT ![s] = v]
    BY <1>7, Zenon DEF SaveEnds, Stages, Over, sort
<1> QED BY <1>2, <1>3, <1>4, <1>5, <1>6, <1>7, Zenon DEF StepAction

\* A step that is under way moves on: the waves stay as they are.
LEMMA MoveWaves ==
    ASSUME EngineTypeOK, KahnInv, WavesInv, BlockedInv, NEW s \in Steps,
           UNCHANGED <<deps, deg, queue, next, at, order, status>>,
           st[s] \notin {"wait"} \cup Over,
           NEW v \in Stages \ {"wait"}, st' = [st EXCEPT ![s] = v]
    PROVE  KahnInv' /\ WavesInv' /\ BlockedInv'
<1>1. st \in [Steps -> Stages] BY Zenon DEF EngineTypeOK, Stages, Over
<1>2. /\ \A t \in Steps : t # s => st'[t] = st[t]
      /\ st'[s] = v /\ st'[s] # "wait" /\ st[s] # "wait" /\ s \in Range(Wave)
    BY <1>1, Zenon DEF WavesInv
<1>3. Ended \subseteq Ended' BY <1>2, <1>1, Zenon DEF Ended
<1>4. Sorted /\ Sorted' BY <1>2, Zenon DEF KahnInv, Kahn, Sorted
<1>5. /\ Wave' = Wave /\ Planned' = Planned
      /\ \A i : WavesBefore(i)' = WavesBefore(i)
      /\ \A t : Blocked(t)' = Blocked(t)
    BY Zenon DEF Wave, Planned, WavesBefore, Blocked
<1>6. \A t \in Steps : st'[t] = "wait" <=> st[t] = "wait" BY <1>2, Zenon
<1>7. order \in Seq(Seq(Steps)) BY Zenon DEF EngineTypeOK
<1>8. Range(Wave) \subseteq Steps /\ \A i \in DOMAIN order : Range(order[i]) \subseteq Steps
    <2>1. Range(<<>>) = {} BY DEF Range
    <2> QED BY <2>1, <1>7, PlannedSteps, Zenon
<1>9. WavesInv'
    <2>1. \A i \in DOMAIN order' : \A t \in Range(order'[i]) :
             deps'[t] \subseteq Ended' \cup WavesBefore(i)'
        BY <1>3, <1>5, Zenon DEF WavesInv
    <2>2. \A i \in DOMAIN order : i > 1 => \A t \in Range(order[i]) : st'[t] = "wait"
        BY <1>6, <1>8, Zenon DEF WavesInv
    <2>3. \A t, u \in Range(Wave') : st'[t] = "wait" => st'[u] = "wait"
        BY <1>5, <1>6, <1>8, Zenon DEF WavesInv
    <2>4. \A t \in Steps : st'[t] \notin {"wait"} \cup Over => t \in Range(Wave')
        BY <1>2, <1>5, Zenon DEF WavesInv
    <2>5. \A t \in Steps : st'[t] # "wait" => deps'[t] \subseteq Ended'
        BY <1>3, <1>6, Zenon DEF WavesInv
    <2>6. \A i, j \in DOMAIN order' : i # j => Range(order'[i]) \cap Range(order'[j]) = {}
        BY Zenon DEF WavesInv
    <2> QED BY <2>1, <2>2, <2>3, <2>4, <2>5, <2>6, Zenon DEF WavesInv
<1>10. BlockedInv'
    <2>1. status' # "failed"
        BY <1>2, Zenon DEF BlockedInv
    <2>2. \A t \in Steps \ Planned : st'[t] = "wait" =>
             \E d \in deps[t] : d \in Ghosts \/ (d \in Steps \ Planned /\ st'[d] = "wait")
        <3>1. ASSUME NEW t \in Steps \ Planned, st'[t] = "wait"
              PROVE \E d \in deps[t] : d \in Ghosts \/ (d \in Steps \ Planned /\ st'[d] = "wait")
            <4>1. PICK d \in deps[t] : d \in Ghosts \/ (d \in Steps \ Planned /\ st[d] = "wait")
                BY <3>1, <1>4, <1>6, Zenon DEF BlockedInv
            <4> QED BY <4>1, <1>6, Zenon
        <3> QED BY <3>1, Zenon
    <2>3. \A t \in Steps : t \in Planned' \cup Range(next') \/ st'[t] # "wait" => ~Blocked(t)'
        BY <1>5, <1>6, Zenon DEF BlockedInv
    <2>4. status' = "completed" => order' = <<>> BY Zenon DEF BlockedInv
    <2> QED BY <2>1, <2>2, <2>3, <2>4, <1>5, Zenon DEF BlockedInv
<1>11. KahnInv' BY <1>4, Zenon DEF KahnInv
<1> QED BY <1>9, <1>10, <1>11, Zenon

\* execute creates the tasks of a wave: their dependencies have ended.
LEMMA StartWaves ==
    ASSUME EngineTypeOK, KahnInv, WavesInv, BlockedInv, StartWave
    PROVE  KahnInv' /\ WavesInv' /\ BlockedInv'
<1>1. /\ UNCHANGED <<deps, deg, queue, next, at, order, status>>
      /\ Sorted /\ status = "running" /\ order # <<>>
      /\ st' = [s \in Steps |-> IF s \in Range(Wave) THEN "created" ELSE st[s]]
      /\ \A s \in Range(Wave) : st[s] = "wait"
    BY Zenon DEF StartWave, sort
<1>2. order \in Seq(Seq(Steps)) BY Zenon DEF EngineTypeOK
<1>3. /\ \A i \in DOMAIN order : Range(order[i]) \subseteq Steps
      /\ Wave = order[1] /\ 1 \in DOMAIN order /\ Range(Wave) \subseteq Steps
      /\ Range(Wave) \subseteq Planned
    <2>1. /\ \A i \in DOMAIN order : Range(order[i]) \subseteq Steps
          /\ Wave = order[1] /\ 1 \in DOMAIN order
        BY <1>1, <1>2, PlannedSteps, Zenon
    <2> QED BY <2>1, Zenon DEF Planned
<1>4. \A s \in Steps : st'[s] = IF s \in Range(Wave) THEN "created" ELSE st[s]
    BY <1>1, Zenon
<1>5. Ended' = Ended BY <1>1, <1>3, <1>4, Zenon DEF Ended, Over
<1>6. /\ Wave' = Wave /\ Planned' = Planned /\ Sorted'
      /\ \A i : WavesBefore(i)' = WavesBefore(i)
      /\ \A t : Blocked(t)' = Blocked(t)
    BY <1>1, Zenon DEF Wave, Planned, WavesBefore, Blocked, Sorted
<1>7. WavesBefore(1) = {} BY DEF WavesBefore
<1>8. WavesInv'
    <2>1. \A i \in DOMAIN order' : \A t \in Range(order'[i]) :
             deps'[t] \subseteq Ended' \cup WavesBefore(i)'
        BY <1>1, <1>5, <1>6, Zenon DEF WavesInv
    <2>2. \A i \in DOMAIN order : i > 1 => \A t \in Range(order[i]) : st'[t] = "wait"
        <3>1. ASSUME NEW i \in DOMAIN order, i > 1, NEW t \in Range(order[i])
              PROVE st'[t] = "wait"
            <4>1. i # 1 /\ st[t] = "wait" BY <3>1 DEF WavesInv
            <4>2. t \notin Range(Wave) BY <4>1, <3>1, <1>3, Zenon DEF WavesInv
            <4> QED BY <4>1, <4>2, <3>1, <1>3, <1>4, Zenon
        <3> QED BY <3>1, Zenon
    <2>3. \A t, u \in Range(Wave') : st'[t] = "wait" => st'[u] = "wait"
        BY <1>3, <1>4, <1>6, Zenon
    <2>4. \A t \in Steps : st'[t] \notin {"wait"} \cup Over => t \in Range(Wave')
        BY <1>4, <1>6, Zenon DEF WavesInv
    <2>5. \A t \in Steps : st'[t] # "wait" => deps'[t] \subseteq Ended'
        <3>1. \A t \in Range(Wave) : deps[t] \subseteq Ended
            BY <1>3, <1>7, Zenon DEF WavesInv
        <3> QED BY <3>1, <1>1, <1>4, <1>5, Zenon DEF WavesInv
    <2>6. \A i, j \in DOMAIN order' : i # j => Range(order'[i]) \cap Range(order'[j]) = {}
        BY <1>1, Zenon DEF WavesInv
    <2> QED BY <1>1, <2>1, <2>2, <2>3, <2>4, <2>5, <2>6, Zenon DEF WavesInv
<1>9. BlockedInv'
    <2>1. \A t \in Steps \ Planned : st'[t] = st[t]
        BY <1>3, <1>4, Zenon
    <2>2. \A t \in Steps \ Planned : st'[t] = "wait" =>
             \E d \in deps[t] : d \in Ghosts \/ (d \in Steps \ Planned /\ st'[d] = "wait")
        BY <1>1, <2>1, Zenon DEF BlockedInv
    <2>3. \A t \in Steps : t \in Planned' \cup Range(next') \/ st'[t] # "wait" => ~Blocked(t)'
        BY <1>1, <1>3, <1>4, <1>6, Zenon DEF BlockedInv
    <2> QED BY <1>1, <1>6, <2>2, <2>3, Zenon DEF BlockedInv
<1>10. KahnInv' BY <1>6, Zenon DEF KahnInv
<1> QED BY <1>8, <1>9, <1>10, Zenon

\* The waves without the first.
LEMMA PlannedTail ==
    ASSUME order \in Seq(Seq(Steps)), order # <<>>, order' = Tail(order)
    PROVE  /\ Planned = Planned' \cup Range(order[1])
           /\ Len(order) \in Nat \ {0} /\ DOMAIN order = 1..Len(order)
           /\ DOMAIN order' = 1..(Len(order) - 1)
           /\ \A i \in 1..(Len(order) - 1) : order'[i] = order[i + 1]
           /\ \A i \in 1..(Len(order) - 1) :
                 WavesBefore(i + 1) = WavesBefore(i)' \cup Range(order[1])
           /\ order' # <<>> => Wave' = order[2] /\ 2 \in DOMAIN order
<1>1. /\ Len(order) \in Nat \ {0} /\ DOMAIN order = 1..Len(order)
      /\ DOMAIN order' = 1..(Len(order) - 1)
      /\ \A i \in 1..(Len(order) - 1) : order'[i] = order[i + 1]
    OBVIOUS
<1>2. ASSUME NEW n \in 1..Len(order)
      PROVE  UNION {Range(order[j]) : j \in 1..n}
               = (UNION {Range(order'[j]) : j \in 1..(n - 1)}) \cup Range(order[1])
    <2>1. \A j \in 1..n : j = 1 \/ (j - 1 \in 1..(n - 1) /\ order'[j - 1] = order[j])
        BY <1>1
    <2>2. \A j \in 1..(n - 1) : j + 1 \in 1..n /\ order'[j] = order[j + 1]
        BY <1>1
    <2>3. 1 \in 1..n BY <1>1
    <2>4. ASSUME NEW x \in UNION {Range(order[j]) : j \in 1..n}
          PROVE  x \in (UNION {Range(order'[j]) : j \in 1..(n - 1)}) \cup Range(order[1])
        <3>1. PICK j \in 1..n : x \in Range(order[j]) BY <2>4, Zenon
        <3> QED BY <3>1, <2>1, Zenon
    <2>5. ASSUME NEW x \in (UNION {Range(order'[j]) : j \in 1..(n - 1)}) \cup Range(order[1])
          PROVE  x \in UNION {Range(order[j]) : j \in 1..n}
        <3>1. CASE x \in Range(order[1]) BY <3>1, <2>3, Zenon
        <3>2. CASE x \in UNION {Range(order'[j]) : j \in 1..(n - 1)}
            <4>1. PICK j \in 1..(n - 1) : x \in Range(order'[j]) BY <3>2, Zenon
            <4> QED BY <4>1, <2>2, Zenon
        <3> QED BY <2>5, <3>1, <3>2, Zenon
    <2> QED BY <2>4, <2>5, Zenon
<1>3. Planned = Planned' \cup Range(order[1])
    <2>1. Len(order) \in 1..Len(order) BY <1>1
    <2> QED BY <2>1, <1>1, <1>2, Zenon DEF Planned
<1>4. \A i \in 1..(Len(order) - 1) :
         WavesBefore(i + 1) = WavesBefore(i)' \cup Range(order[1])
    <2>1. ASSUME NEW i \in 1..(Len(order) - 1)
          PROVE  WavesBefore(i + 1) = WavesBefore(i)' \cup Range(order[1])
        <3>1. i \in 1..Len(order) /\ (i + 1) - 1 = i BY <1>1
        <3> QED BY <3>1, <1>2, Zenon DEF WavesBefore
    <2> QED BY <2>1, Zenon
<1>5. ASSUME order' # <<>> PROVE Wave' = order[2] /\ 2 \in DOMAIN order
    <2>1. Len(order) > 1 BY <1>1, <1>5
    <2> QED BY <2>1, <1>1, <1>5 DEF Wave
<1> QED BY <1>1, <1>3, <1>4, <1>5, Zenon

\* gather has returned: on to the next wave, or to the end.
LEMMA EndWaves ==
    ASSUME EngineTypeOK, KahnInv, WavesInv, BlockedInv, EndWave
    PROVE  KahnInv' /\ WavesInv' /\ BlockedInv'
<1>1. /\ UNCHANGED <<deps, deg, queue, next, at, st>>
      /\ Sorted /\ status = "running" /\ order # <<>>
      /\ \A s \in Range(Wave) : st[s] \in Over
      /\ \/ status' = "failed" /\ order' = order
         \/ /\ order' = Tail(order)
            /\ status' = IF Tail(order) = <<>> THEN "completed" ELSE "running"
    BY Zenon DEF EndWave, sort
<1>2. order \in Seq(Seq(Steps)) BY Zenon DEF EngineTypeOK
<1>3. /\ Ended' = Ended /\ Sorted' /\ \A t : Blocked(t)' = Blocked(t)
    BY <1>1, Zenon DEF Ended, Blocked, Sorted
<1>4. Wave = order[1] /\ 1 \in DOMAIN order /\ Range(Wave) \subseteq Steps
    BY <1>1, <1>2, PlannedSteps, Zenon
<1>5. \A s \in Steps : st[s] \in {"wait"} \cup Over
    BY <1>1, Zenon DEF WavesInv
<1>6. KahnInv' BY <1>3, Zenon DEF KahnInv
<1>7. CASE status' = "failed" /\ order' = order
    <2>1. /\ Wave' = Wave /\ Planned' = Planned /\ \A i : WavesBefore(i)' = WavesBefore(i)
        BY <1>7, Zenon DEF Wave, Planned, WavesBefore
    <2>2. WavesInv' BY <1>1, <1>3, <1>7, <2>1, Zenon DEF WavesInv
    <2>3. BlockedInv' BY <1>1, <1>3, <1>5, <1>7, <2>1, Zenon DEF BlockedInv
    <2> QED BY <1>6, <2>2, <2>3, Zenon
<1>8. CASE /\ order' = Tail(order)
           /\ status' = IF Tail(order) = <<>> THEN "completed" ELSE "running"
    <2>1. /\ Planned = Planned' \cup Range(Wave)
          /\ Len(order) \in Nat \ {0} /\ DOMAIN order = 1..Len(order)
          /\ DOMAIN order' = 1..(Len(order) - 1)
          /\ \A i \in 1..(Len(order) - 1) : order'[i] = order[i + 1]
          /\ \A i \in 1..(Len(order) - 1) :
                WavesBefore(i + 1) = WavesBefore(i)' \cup Range(Wave)
          /\ order' # <<>> => Wave' = order[2] /\ 2 \in DOMAIN order
        BY <1>1, <1>2, <1>4, <1>8, PlannedTail, Zenon
    <2>2. \A i \in 1..(Len(order) - 1) : i + 1 \in DOMAIN order /\ i + 1 > 1
        BY <2>1
    <2>3. Range(Wave) \subseteq Ended BY <1>1, <1>4, Zenon DEF Ended
    <2>4. \A i \in DOMAIN order' : \A t \in Range(order'[i]) :
             deps'[t] \subseteq Ended' \cup WavesBefore(i)'
        <3>1. ASSUME NEW i \in 1..(Len(order) - 1), NEW t \in Range(order'[i])
              PROVE  deps'[t] \subseteq Ended' \cup WavesBefore(i)'
            <4>1. t \in Range(order[i + 1]) BY <3>1, <2>1, Zenon
            <4>2. deps[t] \subseteq Ended \cup WavesBefore(i + 1)
                BY <4>1, <2>2, Zenon DEF WavesInv
            <4>3. WavesBefore(i + 1) = WavesBefore(i)' \cup Range(Wave) BY <2>1, Zenon
            <4> QED BY <4>2, <4>3, <1>1, <1>3, <2>3, Zenon
        <3> QED BY <3>1, <2>1, Zenon
    <2>5. \A i, j \in DOMAIN order' : i # j => Range(order'[i]) \cap Range(order'[j]) = {}
        <3>1. ASSUME NEW i \in 1..(Len(order) - 1), NEW j \in 1..(Len(order) - 1), i # j
              PROVE  Range(order[i + 1]) \cap Range(order[j + 1]) = {}
            <4>1. i + 1 # j + 1 BY <3>1, <2>1
            <4> QED BY <4>1, <2>2, Zenon DEF WavesInv
        <3> QED BY <3>1, <2>1, Zenon
    <2>6. \A i \in DOMAIN order' : \A t \in Range(order'[i]) : st'[t] = "wait"
        BY <2>1, <2>2, <1>1, Zenon DEF WavesInv
    <2>7. \A t \in Range(Wave') : st'[t] = "wait"
        <3>1. CASE order' = <<>>
            <4>1. Range(Wave') = {} BY <3>1 DEF Wave, Range
            <4> QED BY <4>1, Zenon
        <3>2. CASE order' # <<>>
            <4>1. 2 > 1 OBVIOUS
            <4> QED BY <3>2, <4>1, <2>1, <1>1, Zenon DEF WavesInv
        <3> QED BY <3>1, <3>2, Zenon
    <2>8. WavesInv'
        BY <2>4, <2>5, <2>6, <2>7, <1>1, <1>3, <1>5, Zenon DEF WavesInv
    <2>9. \A t \in Steps \ Planned' : st'[t] = "wait" => \E d \in deps'[t] :
             d \in Ghosts \/ (d \in Steps \ Planned' /\ st'[d] = "wait")
        <3>1. ASSUME NEW t \in Steps \ Planned', st'[t] = "wait"
              PROVE \E d \in deps'[t] :
                       d \in Ghosts \/ (d \in Steps \ Planned' /\ st'[d] = "wait")
            <4>1. t \notin Planned BY <3>1, <2>1, <1>1, Zenon DEF Over
            <4>2. PICK d \in deps[t] : d \in Ghosts \/ (d \in Steps \ Planned /\ st[d] = "wait")
                BY <3>1, <4>1, <1>1, Zenon DEF BlockedInv
            <4> QED BY <4>2, <1>1, <2>1, Zenon
        <3> QED BY <3>1, Zenon
    <2>10. \A t \in Steps : t \in Planned' \cup Range(next') \/ st'[t] # "wait" => ~Blocked(t)'
        BY <1>1, <1>3, <2>1, Zenon DEF BlockedInv
    <2>11. status' # "failed" /\ (status' = "completed" => order' = <<>>) BY <1>8, Zenon
    <2>12. BlockedInv' BY <2>9, <2>10, <2>11, Zenon DEF BlockedInv
    <2> QED BY <1>6, <2>8, <2>12, Zenon
<1> QED BY <1>1, <1>7, <1>8, Zenon

-----------------------------------------------------------------------------
(* The context, the counters and the semaphore through one step.           *)

\* The semaphore: a step that holds it no longer, or goes on holding it.
LEMMA ParallelKept ==
    ASSUME WithinParallelism, {t \in Steps : st'[t] \in Inside} \subseteq {t \in Steps : st[t] \in Inside}
    PROVE  WithinParallelism'
<1> DEFINE S == {t \in Steps : st[t] \in Inside}
           T == {t \in Steps : st'[t] \in Inside}
<1>1. IsFiniteSet(S) BY StepsFacts, FS_Subset, Zenon
<1>2. Cardinality(T) <= Cardinality(S) /\ IsFiniteSet(T) BY <1>1, FS_Subset, Zenon
<1>3. Cardinality(S) \in Nat /\ Cardinality(T) \in Nat BY <1>1, <1>2, FS_CardinalityType, Zenon
<1>4. Cardinality(S) <= Parallelism BY Zenon  DEF WithinParallelism
<1>5. Parallelism \in Nat BY DagAssumption, Zenon
<1>6. Cardinality(T) <= Parallelism BY <1>2, <1>3, <1>4, <1>5
<1> QED BY <1>6, Zenon DEF WithinParallelism, Inside

LEMMA TypeKept ==
    ASSUME EngineTypeOK, UNCHANGED <<deg, queue, next, at, order>>,
           st' \in [Steps -> Stages], left' \in [Steps -> 0..(MaxRetries + Items)],
           errors' \in [Steps -> 0..Items], inputs' \in [Steps -> SUBSET Steps],
           produced' \subseteq completed', saved' \subseteq completed',
           status' \in {"running", "completed", "failed"}
    PROVE  EngineTypeOK'
<1>1. {"wait", "created", "queued", "run", "sleep", "saving"} \cup Over = Stages
    BY Zenon  DEF Over, Stages
<1> QED BY <1>1, Zenon DEF EngineTypeOK

\* What the types say of the tasks.
LEMMA TypeFacts ==
    ASSUME EngineTypeOK
    PROVE  /\ st \in [Steps -> Stages] /\ left \in [Steps -> 0..(MaxRetries + Items)]
           /\ errors \in [Steps -> 0..Items] /\ inputs \in [Steps -> SUBSET Steps]
           /\ produced \subseteq completed /\ saved \subseteq completed
           /\ status \in {"running", "completed", "failed"}
           /\ MaxRetries \in Nat /\ Items \in Nat /\ Kind \in [Steps -> {"task", "map", "stream"}]
<1>1. {"wait", "created", "queued", "run", "sleep", "saving"} \cup Over = Stages
    BY Zenon  DEF Over, Stages
<1>2. MaxRetries \in Nat /\ Items \in Nat /\ Kind \in [Steps -> {"task", "map", "stream"}]
    BY DagAssumption, Zenon
<1> QED BY <1>1, <1>2, Zenon DEF EngineTypeOK

TaskInv == EngineTypeOK /\ ContextInv /\ CountInv /\ WithinParallelism
           /\ InputsComplete /\ PersistedClosed

\* No step that has started depends on one that is under way.
LEMMA NotAwaited ==
    ASSUME EngineInv, NEW s \in Steps, st[s] \notin {"wait"} \cup Over
    PROVE  \A t \in Steps : st[t] # "wait" => s \notin deps[t]
BY Zenon DEF EngineInv, WavesInv, Ended

\* A step is completed: by its condition, or with its result.
LEMMA CompleteTask ==
    ASSUME EngineInv, NEW s \in Steps, st[s] \in {"created", "run"},
           NEW v \in {"done", "saving"}, st' = [st EXCEPT ![s] = v],
           completed' = completed \cup {s},
           produced' = produced \/ (produced' = produced \cup {s}),
           snap' = snap \/ snap' = [snap EXCEPT ![s] = completed \cup {s}],
           UNCHANGED <<deps, deg, queue, next, at, order, left, errors, inputs, saved, status>>
    PROVE  TaskInv'
<1>1. /\ EngineTypeOK /\ ContextInv /\ CountInv /\ WithinParallelism
      /\ InputsComplete /\ PersistedClosed
    BY Zenon DEF EngineInv
<1>2. /\ st \in [Steps -> Stages] /\ left \in [Steps -> 0..(MaxRetries + Items)]
      /\ errors \in [Steps -> 0..Items] /\ inputs \in [Steps -> SUBSET Steps]
      /\ produced \subseteq completed /\ saved \subseteq completed
      /\ status \in {"running", "completed", "failed"}
    BY <1>1, TypeFacts, Zenon
<1>3. \A t \in Steps : st[t] # "wait" => s \notin deps[t]
    BY NotAwaited, Zenon DEF Over
<1>4. /\ st' \in [Steps -> Stages] /\ st'[s] = v
      /\ \A t \in Steps : t # s => st'[t] = st[t]
    BY <1>2, Zenon DEF Stages
<1>5. EngineTypeOK'
    <2>1. produced' \subseteq completed' /\ saved' \subseteq completed' BY <1>2, Zenon
    <2> QED BY <2>1, <1>1, <1>2, <1>4, TypeKept, Zenon
<1>6. completed \subseteq Steps /\ \A t \in completed : s \notin deps[t] /\ st[t] # "wait"
    BY <1>1, <1>3, Zenon DEF ContextInv
<1>7. ContextInv'
    <2>1. completed' \subseteq Steps BY <1>6, Zenon
    <2>2. \A t \in completed' : st'[t] # "wait" BY <1>4, <1>6, Zenon
    <2>3. snap \in [Steps -> SUBSET completed] BY <1>1, Zenon DEF ContextInv
    <2>0. \A t \in Steps : snap'[t] = snap[t] \/ snap'[t] = completed' BY <2>3, Zenon
    <2>4. snap' \in [Steps -> SUBSET completed'] BY <2>3, Zenon
    <2>5. \A t \in Steps : \A u \in snap'[t] : deps'[u] \cap completed' \subseteq snap'[t]
        <3>1. ASSUME NEW t \in Steps, NEW u \in snap'[t], snap'[t] = snap[t]
              PROVE  deps'[u] \cap completed' \subseteq snap'[t]
            <4>1. u \in completed /\ deps[u] \cap completed \subseteq snap[t]
                BY <2>3, <3>1, <1>1, Zenon DEF ContextInv
            <4> QED BY <3>1, <4>1, <1>6, Zenon
        <3> QED BY <3>1, <2>0, Zenon
    <2> QED BY <2>1, <2>2, <2>4, <2>5, Zenon DEF ContextInv
<1>8. CountInv' BY <1>1, <1>4, Zenon DEF CountInv
<1>9. WithinParallelism'
    <2>1. {t \in Steps : st'[t] \in Inside} \subseteq {t \in Steps : st[t] \in Inside}
        BY <1>4, Zenon DEF Inside
    <2> QED BY <2>1, <1>1, ParallelKept, Zenon
<1>10. InputsComplete'
    <2>1. ASSUME NEW t \in Steps, st'[t] \notin {"wait", "created"}, t \notin completed'
          PROVE  deps'[t] \cap produced' \subseteq inputs'[t]
        <3>1. t # s /\ st[t] \notin {"wait", "created"} /\ t \notin completed BY <2>1, <1>4, Zenon
        <3>2. deps[t] \cap produced \subseteq inputs[t] BY <3>1, <1>1, Zenon DEF InputsComplete
        <3>3. s \notin deps[t] BY <3>1, <1>3, Zenon
        <3> QED BY <3>2, <3>3, Zenon
    <2> QED BY <2>1, Zenon DEF InputsComplete
<1>11. PersistedClosed'
    <2>1. ASSUME NEW t \in saved PROVE deps[t] \cap completed' \subseteq saved
        <3>1. s \notin deps[t] BY <1>2, <1>6, Zenon
        <3>2. deps[t] \cap completed \subseteq saved BY <1>1, Zenon DEF PersistedClosed
        <3> QED BY <3>1, <3>2, Zenon
    <2> QED BY <2>1, Zenon DEF PersistedClosed
<1> QED BY <1>5, <1>7, <1>8, <1>9, <1>10, <1>11, Zenon DEF TaskInv

\* A step moves without completing: it waits for the semaphore, gets it, sleeps,
\* raises or has been saved.
LEMMA MoveTask ==
    ASSUME EngineInv, NEW s \in Steps, st[s] \notin {"wait"} \cup Over,
           NEW v \in {"run", "sleep", "raised", "done"}, st' = [st EXCEPT ![s] = v],
           st[s] # "created",
           UNCHANGED <<deps, deg, queue, next, at, order, inputs, produced, completed, status>>,
           WithinParallelism', left' \in [Steps -> 0..(MaxRetries + Items)], CountInv',
           errors' = errors, snap' \in [Steps -> SUBSET completed],
           \A t \in Steps : snap'[t] \in {{}, snap[t]}, saved' \in {saved, snap[s]}
    PROVE  TaskInv'
<1>1. /\ EngineTypeOK /\ ContextInv /\ CountInv /\ InputsComplete /\ PersistedClosed
    BY Zenon DEF EngineInv
<1>2. /\ st \in [Steps -> Stages] /\ errors \in [Steps -> 0..Items]
      /\ inputs \in [Steps -> SUBSET Steps]
      /\ produced \subseteq completed /\ saved \subseteq completed
      /\ status \in {"running", "completed", "failed"}
    BY <1>1, TypeFacts, Zenon
<1>3. /\ st' \in [Steps -> Stages] /\ st'[s] = v
      /\ \A t \in Steps : t # s => st'[t] = st[t]
    BY <1>2, Zenon DEF Stages
<1>4. snap[s] \subseteq completed BY <1>1, Zenon DEF ContextInv
<1>5. EngineTypeOK'
    <2>1. produced' \subseteq completed' /\ saved' \subseteq completed' BY <1>2, <1>4, Zenon
    <2> QED BY <2>1, <1>1, <1>2, <1>3, TypeKept, Zenon
<1>6. ContextInv'
    <2>1. \A t \in completed' : st'[t] # "wait" BY <1>1, <1>3, Zenon DEF ContextInv
    <2>2. \A t \in Steps : \A u \in snap'[t] : deps'[u] \cap completed' \subseteq snap'[t]
        BY <1>1, Zenon DEF ContextInv
    <2>3. completed' \subseteq Steps /\ snap' \in [Steps -> SUBSET completed']
        BY <1>1, Zenon DEF ContextInv
    <2> QED BY <2>1, <2>2, <2>3, Zenon DEF ContextInv
<1>7. InputsComplete' BY <1>1, <1>3, Zenon DEF InputsComplete
<1>8. PersistedClosed'
    <2>1. \A t \in snap[s] : deps[t] \cap completed \subseteq snap[s]
        BY <1>1, Zenon DEF ContextInv
    <2> QED BY <1>1, <2>1, Zenon DEF PersistedClosed
<1> QED BY <1>5, <1>6, <1>7, <1>8, Zenon DEF TaskInv

\* The input is built, and the items of a MAP step come back.
LEMMA BuildTask ==
    ASSUME EngineInv, NEW s \in Steps, BuildInput(s)
    PROVE  TaskInv'
<1>1. /\ EngineTypeOK /\ ContextInv /\ CountInv /\ WithinParallelism
      /\ InputsComplete /\ PersistedClosed
    BY Zenon DEF EngineInv
<1>2. /\ UNCHANGED <<deps, deg, queue, next, at, order, left, errors, status>>
      /\ UNCHANGED <<produced, completed, snap, saved>>
      /\ st[s] = "created" /\ st' = [st EXCEPT ![s] = "queued"]
      /\ inputs' = [inputs EXCEPT ![s] = produced]
    BY Zenon DEF BuildInput, FirstSlice, sort, ctx
<1>3. /\ st \in [Steps -> Stages] /\ left \in [Steps -> 0..(MaxRetries + Items)]
      /\ errors \in [Steps -> 0..Items] /\ inputs \in [Steps -> SUBSET Steps]
      /\ produced \subseteq completed /\ saved \subseteq completed
      /\ status \in {"running", "completed", "failed"}
    BY <1>1, TypeFacts, Zenon
<1>4. /\ st' \in [Steps -> Stages] /\ st'[s] = "queued"
      /\ \A t \in Steps : t # s => st'[t] = st[t]
    BY <1>2, <1>3, Zenon DEF Stages
<1>5. completed \subseteq Steps BY <1>1, Zenon DEF ContextInv
<1>6. EngineTypeOK'
    <2>1. inputs' \in [Steps -> SUBSET Steps] BY <1>2, <1>3, <1>5, Zenon
    <2> QED BY <2>1, <1>1, <1>2, <1>3, <1>4, TypeKept, Zenon
<1>7. ContextInv'
    <2>1. \A t \in completed' : st'[t] # "wait" BY <1>1, <1>2, <1>4, Zenon DEF ContextInv
    <2> QED BY <2>1, <1>1, <1>2, Zenon DEF ContextInv
<1>8. CountInv' BY <1>1, <1>2, <1>4, Zenon DEF CountInv
<1>9. WithinParallelism'
    <2>1. {t \in Steps : st'[t] \in Inside} \subseteq {t \in Steps : st[t] \in Inside}
        BY <1>4, Zenon DEF Inside
    <2> QED BY <2>1, <1>1, ParallelKept, Zenon
<1>10. InputsComplete' BY <1>1, <1>2, <1>3, <1>4 DEF InputsComplete
<1>11. PersistedClosed' BY <1>1, <1>2, Zenon DEF PersistedClosed
<1> QED BY <1>6, <1>7, <1>8, <1>9, <1>10, <1>11, Zenon DEF TaskInv

LEMMA ItemTask ==
    ASSUME EngineInv, NEW s \in Steps, NEW e \in BOOLEAN, MapItem(s, e)
    PROVE  TaskInv'
<1>1. /\ EngineTypeOK /\ ContextInv /\ CountInv /\ WithinParallelism
      /\ InputsComplete /\ PersistedClosed
    BY Zenon DEF EngineInv
<1>2. /\ UNCHANGED <<deps, deg, queue, next, at, order, st, inputs, status>>
      /\ UNCHANGED <<produced, completed, snap, saved>>
      /\ st[s] = "run" /\ Kind[s] = "map" /\ left[s] > 0
      /\ left' = [left EXCEPT ![s] = left[s] - 1]
      /\ errors' = errors \/ errors' = [errors EXCEPT ![s] = errors[s] + 1]
    <2>1. /\ UNCHANGED <<deps, deg, queue, next, at, order, st, inputs, status>>
          /\ UNCHANGED <<produced, completed, snap, saved>>
          /\ st[s] = "run" /\ Kind[s] = "map" /\ left[s] > 0
          /\ left' = [left EXCEPT ![s] = left[s] - 1]
        BY Zenon DEF MapItem, sort, ctx
    <2>2. errors \in [Steps -> 0..Items] BY <1>1, TypeFacts, Zenon
    <2>3. errors' = errors \/ errors' = [errors EXCEPT ![s] = errors[s] + 1]
        BY <2>2, Zenon DEF MapItem
    <2> QED BY <2>1, <2>3, Zenon
<1>3. /\ st \in [Steps -> Stages] /\ left \in [Steps -> 0..(MaxRetries + Items)]
      /\ errors \in [Steps -> 0..Items] /\ inputs \in [Steps -> SUBSET Steps]
      /\ produced \subseteq completed /\ saved \subseteq completed
      /\ status \in {"running", "completed", "failed"}
      /\ MaxRetries \in Nat /\ Items \in Nat
    BY <1>1, TypeFacts, Zenon
<1>4. left[s] + errors[s] <= Items BY <1>1, <1>2, Zenon DEF CountInv
<1>5. /\ left' \in [Steps -> 0..(MaxRetries + Items)] /\ errors' \in [Steps -> 0..Items]
      /\ left'[s] + errors'[s] <= Items
      /\ \A t \in Steps : t # s => left'[t] = left[t] /\ errors'[t] = errors[t]
    BY <1>2, <1>3, <1>4
<1>6. EngineTypeOK' BY <1>1, <1>2, <1>3, <1>5, TypeKept, Zenon
<1>7. CountInv' BY <1>1, <1>2, <1>5, Zenon DEF CountInv
<1>8. ContextInv' BY <1>1, <1>2, Zenon DEF ContextInv
<1>9. WithinParallelism' /\ InputsComplete' /\ PersistedClosed'
    BY <1>1, <1>2, Zenon DEF WithinParallelism, InputsComplete, PersistedClosed
<1> QED BY <1>6, <1>7, <1>8, <1>9, Zenon DEF TaskInv

LEMMA AcquireTask ==
    ASSUME EngineInv, NEW s \in Steps, Acquire(s)
    PROVE  TaskInv'
<1>1. /\ EngineTypeOK /\ ContextInv /\ CountInv /\ WithinParallelism BY Zenon DEF EngineInv
<1>2. /\ UNCHANGED <<deps, deg, queue, next, at, order, inputs, produced, completed, status>>
      /\ UNCHANGED <<errors, snap, saved>>
      /\ st[s] = "queued" /\ st' = [st EXCEPT ![s] = "run"]
      /\ Cardinality({t \in Steps : st[t] \in Inside}) < Parallelism
    BY Zenon DEF Acquire, sort, ctx
<1>3. /\ st \in [Steps -> Stages] /\ left \in [Steps -> 0..(MaxRetries + Items)]
      /\ errors \in [Steps -> 0..Items]
      /\ MaxRetries \in Nat /\ Items \in Nat /\ Kind \in [Steps -> {"task", "map", "stream"}]
    BY <1>1, TypeFacts, Zenon
<1>4. PICK n \in Nat : /\ left' = [left EXCEPT ![s] = n]
                       /\ Kind[s] # "map" => n <= MaxRetries
                       /\ Kind[s] = "map" => n <= Items
    <2>1. Kind[s] \in {"task", "map", "stream"} BY <1>3, Zenon
    <2>2. CASE Kind[s] = "task"
        <3>1. left' = [left EXCEPT ![s] = MaxRetries] BY <2>2, Zenon DEF Acquire
        <3>2. MaxRetries \in Nat /\ (Kind[s] # "map" => MaxRetries <= MaxRetries) /\ (Kind[s] = "map" => MaxRetries <= Items)
            BY <2>2, <1>3
        <3> QED BY <3>1, <3>2, Zenon
    <2>3. CASE Kind[s] = "map"
        <3>1. left' = [left EXCEPT ![s] = Items] BY <2>3, Zenon DEF Acquire
        <3>2. Items \in Nat /\ (Kind[s] # "map" => Items <= MaxRetries) /\ (Kind[s] = "map" => Items <= Items)
            BY <2>3, <1>3
        <3> QED BY <3>1, <3>2, Zenon
    <2>4. CASE Kind[s] = "stream"
        <3>1. left' = [left EXCEPT ![s] = 0] BY <2>4, Zenon DEF Acquire
        <3>2. 0 \in Nat /\ (Kind[s] # "map" => 0 <= MaxRetries) /\ (Kind[s] = "map" => 0 <= Items)
            BY <2>4, <1>3
        <3> QED BY <3>1, <3>2, Zenon
    <2> QED BY <2>1, <2>2, <2>3, <2>4, Zenon
<1>5. left' \in [Steps -> 0..(MaxRetries + Items)] /\ left'[s] = n
      /\ \A t \in Steps : t # s => left'[t] = left[t]
    BY <1>3, <1>4
<1>6. CountInv'
    <2>1. errors[s] = 0 BY <1>1, <1>2, Zenon DEF CountInv
    <2>2. st'[s] = "run" /\ \A t \in Steps : t # s => st'[t] = st[t] BY <1>2, <1>3, Zenon
    <2> QED BY <2>1, <2>2, <1>1, <1>2, <1>3, <1>4, <1>5 DEF CountInv
<1>7. WithinParallelism'
    <2> DEFINE S == {t \in Steps : st[t] \in Inside}
    <2>1. {t \in Steps : st'[t] \in Inside} = S \cup {s} /\ s \notin S
        BY <1>2, <1>3, Zenon DEF Inside
    <2>2. IsFiniteSet(S) BY StepsFacts, FS_Subset, Zenon
    <2>3. Cardinality(S) \in Nat /\ Cardinality(S \cup {s}) = Cardinality(S) + 1
        BY <2>1, <2>2, FS_AddElement, FS_CardinalityType, Zenon
    <2>4. Cardinality(S) < Parallelism /\ Parallelism \in Nat BY <1>2, DagAssumption, Zenon
    <2>5. Cardinality(S \cup {s}) <= Parallelism BY <2>3, <2>4
    <2> QED BY <2>1, <2>5, Zenon DEF WithinParallelism, Inside
<1>8. snap \in [Steps -> SUBSET completed] BY <1>1, Zenon DEF ContextInv
<1>9. st[s] \notin {"wait"} \cup Over /\ st[s] # "created" BY <1>2, Zenon DEF Over
<1> QED BY <1>2, <1>5, <1>6, <1>7, <1>8, <1>9, MoveTask, Zenon

\* A step that gives the semaphore up, keeps it while it sleeps, or is saved.
LEMMA LeaveTask ==
    ASSUME EngineInv, NEW s \in Steps, st[s] \in {"run", "sleep", "saving"},
           NEW v \in {"run", "sleep", "raised", "done"}, st' = [st EXCEPT ![s] = v],
           v \in Inside => st[s] \in Inside,
           UNCHANGED <<deps, deg, queue, next, at, order, inputs, produced, completed, status>>,
           left' = left \/ (left[s] > 0 /\ left' = [left EXCEPT ![s] = left[s] - 1]),
           errors' = errors, snap' \in {snap, [snap EXCEPT ![s] = {}]},
           saved' \in {saved, snap[s]}
    PROVE  TaskInv'
<1>1. /\ EngineTypeOK /\ ContextInv /\ CountInv /\ WithinParallelism BY Zenon DEF EngineInv
<1>2. /\ st \in [Steps -> Stages] /\ left \in [Steps -> 0..(MaxRetries + Items)]
      /\ errors \in [Steps -> 0..Items] /\ MaxRetries \in Nat /\ Items \in Nat
    BY <1>1, TypeFacts, Zenon
<1>3. st'[s] = v /\ \A t \in Steps : t # s => st'[t] = st[t] BY <1>2, Zenon
<1>4. left' \in [Steps -> 0..(MaxRetries + Items)] /\ \A t \in Steps : left'[t] <= left[t]
    BY <1>2
<1>5. CountInv' BY <1>1, <1>2, <1>3, <1>4 DEF CountInv
<1>6. WithinParallelism'
    <2>1. {t \in Steps : st'[t] \in Inside} \subseteq {t \in Steps : st[t] \in Inside}
        BY <1>3, Zenon
    <2> QED BY <2>1, <1>1, ParallelKept, Zenon
<1>7. snap \in [Steps -> SUBSET completed] BY <1>1, Zenon DEF ContextInv
<1>8. snap' \in [Steps -> SUBSET completed] /\ \A t \in Steps : snap'[t] \in {{}, snap[t]}
    BY <1>7, Zenon
<1>9. st[s] \notin {"wait"} \cup Over /\ st[s] # "created" BY Zenon  DEF Over
<1> QED BY <1>4, <1>5, <1>6, <1>8, <1>9, MoveTask, Zenon

LEMMA StepTask ==
    ASSUME EngineInv, NEW s \in Steps, StepAction(s)
    PROVE  TaskInv'
<1>1. ASSUME st[s] = "run", NEW b \in BOOLEAN, Finish(s, b) PROVE TaskInv'
    <2>1. /\ st' = [st EXCEPT ![s] = "saving"] /\ completed' = completed \cup {s}
          /\ (produced' = produced \/ produced' = produced \cup {s})
          /\ snap' = [snap EXCEPT ![s] = completed \cup {s}]
          /\ UNCHANGED <<deps, deg, queue, next, at, order, left, errors, inputs, saved, status>>
        BY <1>1, Zenon DEF Finish, sort
    <2> QED BY <1>1, <2>1, CompleteTask, Zenon
<1>2. ASSUME st[s] = "run", GiveUp(s) PROVE TaskInv'
    <2>1. CASE \E b \in BOOLEAN : Finish(s, b) BY <1>1, <1>2, <2>1, Zenon
    <2>2. CASE /\ st' = [st EXCEPT ![s] = "raised"]
               /\ UNCHANGED <<deps, sort, order, left, errors, inputs, ctx, status>>
        <3>1. /\ UNCHANGED <<deps, deg, queue, next, at, order, inputs, produced, completed, status>>
              /\ left' = left /\ errors' = errors /\ snap' = snap /\ saved' = saved
            BY <2>2, Zenon DEF sort, ctx
        <3>2. "raised" \notin Inside BY Zenon  DEF Inside
        <3> QED BY <1>2, <2>2, <3>1, <3>2, LeaveTask, Zenon
    <2> QED BY <1>2, <2>1, <2>2, Zenon DEF GiveUp
<1>3. CASE SkipByCondition(s)
    <2>1. /\ st[s] = "created" /\ st' = [st EXCEPT ![s] = "done"]
          /\ completed' = completed \cup {s} /\ produced' = produced /\ snap' = snap
          /\ UNCHANGED <<deps, deg, queue, next, at, order, left, errors, inputs, saved, status>>
        BY <1>3, Zenon DEF SkipByCondition, FirstSlice, sort
    <2> QED BY <2>1, CompleteTask, Zenon
<1>4. CASE DispatchOk(s) BY <1>4, <1>1, Zenon DEF DispatchOk
<1>5. CASE DispatchError(s)
    <2>1. CASE left[s] > 0
        <3>1. /\ st[s] = "run" /\ st' = [st EXCEPT ![s] = "sleep"]
              /\ left' = [left EXCEPT ![s] = left[s] - 1]
              /\ UNCHANGED <<deps, sort, order, errors, inputs, ctx, status>>
            BY <1>5, <2>1, Zenon DEF DispatchError
        <3>2. /\ UNCHANGED <<deps, deg, queue, next, at, order, inputs, produced, completed, status>>
              /\ errors' = errors /\ snap' = snap /\ saved' = saved
            BY <3>1, Zenon DEF sort, ctx
        <3>3. "sleep" \in Inside /\ st[s] \in Inside BY <3>1, Zenon DEF Inside
        <3> QED BY <2>1, <3>1, <3>2, <3>3, LeaveTask, Zenon
    <2>2. CASE ~(left[s] > 0) BY <1>2, <1>5, <2>2, Zenon DEF DispatchError
    <2> QED BY <2>1, <2>2, Zenon
<1>6. CASE Retry(s)
    <2>1. /\ st[s] = "sleep" /\ st' = [st EXCEPT ![s] = "run"]
          /\ UNCHANGED <<deps, deg, queue, next, at, order, inputs, produced, completed, status>>
          /\ left' = left /\ errors' = errors /\ snap' = snap /\ saved' = saved
        BY <1>6, Zenon DEF Retry, sort, ctx
    <2>2. "run" \in Inside /\ st[s] \in Inside BY <2>1, Zenon DEF Inside
    <2> QED BY <2>1, <2>2, LeaveTask, Zenon
<1>7. CASE MapGathered(s) BY <1>1, <1>2, <1>7, Zenon DEF MapGathered
<1>8. ASSUME NEW e \in BOOLEAN, SaveEnds(s, e) PROVE TaskInv'
    <2>1. PICK v \in {"raised", "done"} : st' = [st EXCEPT ![s] = v]
        BY <1>8, Zenon DEF SaveEnds
    <2>2. /\ st[s] = "saving"
          /\ UNCHANGED <<deps, deg, queue, next, at, order, inputs, produced, completed, status>>
          /\ left' = left /\ errors' = errors /\ snap' = [snap EXCEPT ![s] = {}]
          /\ saved' \in {saved, snap[s]}
        BY <1>8, Zenon DEF SaveEnds, sort
    <2>3. v \notin Inside BY Zenon  DEF Inside
    <2> QED BY <2>1, <2>2, <2>3, LeaveTask, Zenon
<1> QED BY <1>3, <1>4, <1>5, <1>6, <1>7, <1>8, BuildTask, AcquireTask, ItemTask, Zenon
       DEF StepAction


\* create_task touches no context.
LEMMA StartTask ==
    ASSUME EngineInv, StartWave
    PROVE  TaskInv'
<1>1. /\ EngineTypeOK /\ ContextInv /\ CountInv /\ WithinParallelism /\ InputsComplete
      /\ PersistedClosed
    BY Zenon DEF EngineInv
<1>2. /\ UNCHANGED <<deps, deg, queue, next, at, order, left, errors, inputs, produced,
                     completed, snap, saved, status>>
      /\ st' = [s \in Steps |-> IF s \in Range(Wave) THEN "created" ELSE st[s]]
      /\ \A s \in Range(Wave) : st[s] = "wait"
    BY Zenon DEF StartWave, sort, ctx
<1>3. /\ st \in [Steps -> Stages] /\ left \in [Steps -> 0..(MaxRetries + Items)]
      /\ errors \in [Steps -> 0..Items] /\ inputs \in [Steps -> SUBSET Steps]
      /\ produced \subseteq completed /\ saved \subseteq completed
      /\ status \in {"running", "completed", "failed"}
    BY <1>1, TypeFacts, Zenon
<1>4. \A s \in Steps : st'[s] = st[s] \/ (st[s] = "wait" /\ st'[s] = "created") BY <1>2, Zenon
<1>5. EngineTypeOK'
    <2>1. st' \in [Steps -> Stages] BY <1>2, <1>3, Zenon DEF Stages
    <2> QED BY <1>1, <1>2, <1>3, <2>1, TypeKept, Zenon
<1>6. ContextInv' BY <1>1, <1>2, <1>4, Zenon DEF ContextInv
<1>7. CountInv' BY <1>1, <1>2, <1>4, Zenon DEF CountInv
<1>8. WithinParallelism'
    <2>1. {t \in Steps : st'[t] \in Inside} \subseteq {t \in Steps : st[t] \in Inside}
        BY <1>4, Zenon DEF Inside
    <2> QED BY <2>1, <1>1, ParallelKept, Zenon
<1>9. InputsComplete' /\ PersistedClosed'
    BY <1>1, <1>2, <1>4, Zenon DEF InputsComplete, PersistedClosed
<1> QED BY <1>5, <1>6, <1>7, <1>8, <1>9, Zenon DEF TaskInv

\* A verdict, or the step to the next wave, touches no task.
LEMMA VerdictTask ==
    ASSUME EngineInv, EmptyOrder \/ EndWave
    PROVE  TaskInv'
<1>1. /\ EngineTypeOK /\ ContextInv /\ CountInv /\ WithinParallelism /\ InputsComplete
      /\ PersistedClosed
    BY Zenon DEF EngineInv
<1>2. /\ UNCHANGED <<deps, deg, queue, next, at, st, left, errors, inputs, produced,
                     completed, snap, saved>>
      /\ order' = order \/ (order # <<>> /\ order' = Tail(order))
      /\ status' \in {"running", "completed", "failed"}
    BY Zenon DEF EmptyOrder, EndWave, sort, ctx
<1>3. order' \in Seq(Seq(Steps))
    <2>1. order \in Seq(Seq(Steps)) BY <1>1, Zenon DEF EngineTypeOK
    <2>2. order # <<>> => Tail(order) \in Seq(Seq(Steps)) BY <2>1
    <2> QED BY <2>1, <2>2, <1>2, Zenon
<1>4. EngineTypeOK' BY <1>1, <1>2, <1>3, Zenon DEF EngineTypeOK
<1>5. ContextInv' /\ CountInv' BY <1>1, <1>2, Zenon DEF ContextInv, CountInv
<1>6. WithinParallelism' /\ InputsComplete' /\ PersistedClosed'
    BY <1>1, <1>2, Zenon DEF WithinParallelism, InputsComplete, PersistedClosed
<1> QED BY <1>4, <1>5, <1>6, Zenon DEF TaskInv

\* There is no wave at all.
LEMMA EmptyWaves ==
    ASSUME EngineInv, EmptyOrder
    PROVE  KahnInv' /\ WavesInv' /\ BlockedInv'
<1>1. KahnInv /\ WavesInv /\ BlockedInv BY Zenon DEF EngineInv
<1>2. /\ UNCHANGED <<deps, deg, queue, next, at, st, order>>
      /\ Sorted /\ order = <<>> /\ status' = "completed"
    BY Zenon DEF EmptyOrder, sort
<1>3. /\ Sorted' /\ Planned' = Planned /\ Ended' = Ended /\ Wave' = Wave
      /\ \A t : Blocked(t)' = Blocked(t)
      /\ \A i : WavesBefore(i)' = WavesBefore(i)
    BY <1>2, Zenon DEF Sorted, Planned, Ended, Wave, Blocked, WavesBefore
<1>4. WavesInv' BY <1>1, <1>2, <1>3, Zenon DEF WavesInv
<1>5. BlockedInv' BY <1>1, <1>2, <1>3, Zenon DEF BlockedInv
<1> QED BY <1>3, <1>4, <1>5, Zenon DEF KahnInv

LEMMA EngineStepInv ==
    ASSUME EngineInv, [EngineNext]_engineVars
    PROVE  EngineInv'
<1>1. EngineTypeOK /\ KahnInv /\ WavesInv /\ BlockedInv /\ DepsType BY Zenon DEF EngineInv
<1>2. ASSUME TaskInv', KahnInv' /\ WavesInv' /\ BlockedInv', deps' = deps PROVE EngineInv'
    <2>1. DepsType' BY <1>1, <1>2, Zenon DEF DepsType
    <2> QED BY <1>2, <2>1, Zenon DEF EngineInv, TaskInv
<1>3. CASE Sort BY <1>3, SortStepInv, Zenon
<1>4. CASE EmptyOrder BY <1>4, <1>2, VerdictTask, EmptyWaves, Zenon DEF EmptyOrder
<1>5. CASE StartWave BY <1>5, <1>1, <1>2, StartTask, StartWaves, Zenon DEF StartWave
<1>6. CASE EndWave BY <1>6, <1>1, <1>2, VerdictTask, EndWaves, Zenon DEF EndWave
<1>7. ASSUME NEW s \in Steps, StepAction(s) PROVE EngineInv'
    <2>1. /\ UNCHANGED <<deps, deg, queue, next, at, order, status>>
          /\ st[s] \notin {"wait"} \cup Over
          /\ \E v \in Stages \ {"wait"} : st' = [st EXCEPT ![s] = v]
        BY <1>1, <1>7, StepMoves, Zenon
    <2>2. KahnInv' /\ WavesInv' /\ BlockedInv' BY <1>1, <2>1, MoveWaves, Zenon
    <2>3. TaskInv' BY <1>7, StepTask, Zenon
    <2> QED BY <1>2, <2>1, <2>2, <2>3, Zenon
<1>8. CASE UNCHANGED engineVars
    <2>1. UNCHANGED <<deps, deg, queue, next, at, order, st, left, errors, inputs,
                      produced, completed, snap, saved, status>>
        BY <1>8, Zenon DEF engineVars, sort
    <2>8. /\ Planned' = Planned /\ Ended' = Ended /\ Wave' = Wave /\ Looked' = Looked
          /\ Sorted' = Sorted
          /\ \A t : Blocked(t)' = Blocked(t)
          /\ \A i : WavesBefore(i)' = WavesBefore(i)
        BY <2>1, Zenon DEF Planned, Ended, Wave, Looked, Sorted, Blocked, WavesBefore
    <2>9. \A n : Taken(n)' = Taken(n) BY <2>1, <2>8, Zenon DEF Taken
    <2>2. KahnInv' BY <1>1, <2>1, <2>8, <2>9, Zenon DEF KahnInv, Kahn
    <2>3. WavesInv' BY <1>1, <2>1, <2>8, Zenon DEF WavesInv
    <2>4. BlockedInv' BY <1>1, <2>1, <2>8, Zenon DEF BlockedInv
    <2>5. EngineTypeOK' BY <1>1, <2>1, Zenon DEF EngineTypeOK
    <2>6. ContextInv' /\ CountInv' BY <2>1, Zenon DEF EngineInv, ContextInv, CountInv
    <2>7. WithinParallelism' /\ InputsComplete' /\ PersistedClosed'
        BY <2>1, Zenon DEF EngineInv, WithinParallelism, InputsComplete, PersistedClosed
    <2> QED BY <1>2, <2>1, <2>2, <2>3, <2>4, <2>5, <2>6, <2>7, Zenon DEF TaskInv
<1> QED BY <1>3, <1>4, <1>5, <1>6, <1>7, <1>8, Zenon DEF EngineNext

\* When no wave is left, a waiting step waits for a ghost or for a waiting step.
LEMMA LeftOutWaits ==
    EngineInv /\ Sorted /\ order = <<>>
       => \A s \in Waiting : deps[s] \cap (Waiting \cup Ghosts) # {}
<1> SUFFICES ASSUME EngineInv, Sorted, order = <<>>, NEW s \in Waiting
             PROVE  deps[s] \cap (Waiting \cup Ghosts) # {}
    OBVIOUS
<1>1. Planned = {} BY DEF Planned
<1>2. s \in Steps \ Planned /\ st[s] = "wait" BY <1>1, Zenon DEF Waiting
<1>3. PICK d \in deps[s] : d \in Ghosts \/ (d \in Steps \ Planned /\ st[d] = "wait")
    BY <1>2, Zenon DEF EngineInv, BlockedInv
<1> QED BY <1>3, Zenon DEF Waiting

LEMMA LeftOut ==
    ASSUME EngineInv
    PROVE  LeftOutIsBlocked
<1> SUFFICES ASSUME status = "completed" PROVE Waiting = {s \in Steps : Blocked(s)}
    BY Zenon  DEF LeftOutIsBlocked
<1>1. KahnInv /\ BlockedInv BY Zenon DEF EngineInv
<1>2. Sorted /\ order = <<>> BY <1>1, Zenon DEF KahnInv, Kahn, BlockedInv
<1>3. ASSUME NEW s \in Waiting PROVE Blocked(s)
    <2>1. \A t \in Waiting : deps[t] \cap (Waiting \cup Ghosts) # {} BY <1>2, LeftOutWaits, Zenon
    <2>2. Waiting \in SUBSET Steps BY Zenon  DEF Waiting
    <2> QED BY <2>1, <2>2, <1>3, Zenon DEF Blocked
<1>4. ASSUME NEW s \in Steps, Blocked(s) PROVE s \in Waiting
    BY <1>1, <1>4, Zenon DEF BlockedInv, Waiting
<1>5. Waiting \subseteq Steps BY Zenon  DEF Waiting
<1> QED BY <1>3, <1>4, <1>5, Zenon

-----------------------------------------------------------------------------
(* The engine's theorems.                                                  *)

LEMMA EngineInvariant == EngineSpec => []EngineInv
<1>1. EngineInit => EngineInv BY EngineInitInv, Zenon
<1>2. EngineInv /\ [EngineNext]_engineVars => EngineInv' BY EngineStepInv, Zenon
<1> QED BY <1>1, <1>2, PTL DEF EngineSpec

\* For every dependency graph, cyclic ones and ones with unknown names included,
\* every failure policy and every interleaving of a wave's tasks and saves: the
\* semaphore of execute bounds the steps at work, _run_step builds its input from
\* all its dependencies, the stored context is closed under dependencies, and a
\* completed execution has left out exactly the blocked steps.
THEOREM EngineCorrect == EngineSpec => []EngineSound
<1>1. EngineInv => EngineSound BY LeftOut, Zenon DEF EngineInv, EngineSound
<1> QED BY <1>1, EngineInvariant, PTL

\* The variables of execute, _topo_sort and _run_step keep their types.
THEOREM EngineTypeCorrect == EngineSpec => []EngineTypeOK
<1>1. EngineInv => EngineTypeOK BY Zenon DEF EngineInv
<1> QED BY <1>1, EngineInvariant, PTL


-----------------------------------------------------------------------------
(* The engine implements DagOrder.                                         *)

Phase == [s \in Steps |-> IF st[s] = "wait" THEN "waiting"
                          ELSE IF st[s] \in Over THEN "ended"
                          ELSE "running"]
Bad == {s \in Steps : st[s] = "raised"}

\* What the abstract definitions say of the engine's state.
LEMMA OrderView ==
    /\ Order!vars = <<deps, Phase, Bad, status>>
    /\ Order!Startable = {s \in Steps : st[s] = "wait" /\ deps[s] \subseteq Ended}
    /\ \A s \in Steps : /\ Phase[s] = "waiting" <=> st[s] = "wait"
                        /\ Phase[s] = "ended" <=> st[s] \in Over
                        /\ Phase[s] = "running" <=> st[s] \notin {"wait"} \cup Over
<1>1. Order!vars = <<deps, Phase, Bad, status>> BY Zenon DEF Order!vars, Phase, Bad
<1>2. \A s \in Steps : /\ Phase[s] = "waiting" <=> st[s] = "wait"
                       /\ Phase[s] = "ended" <=> st[s] \in Over
                       /\ Phase[s] = "running" <=> st[s] \notin {"wait"} \cup Over
    BY Zenon  DEF Phase, Over
<1>3. Order!Ended = Ended
    <2>1. Order!Ended = {s \in Steps : Phase[s] = "ended"} BY Zenon DEF Order!Ended, Phase
    <2> QED BY <2>1, <1>2, Zenon DEF Ended
<1>4. Order!Startable = {s \in Steps : Phase[s] = "waiting" /\ deps[s] \subseteq Order!Ended}
    BY Zenon DEF Order!Startable, Phase
<1> QED BY <1>1, <1>2, <1>3, <1>4, Zenon

\* A step of a wave that moves: it ends, or the abstract order does not see it.
LEMMA OrderMove ==
    ASSUME EngineInv, NEW s \in Steps, StepAction(s)
    PROVE  Order!Next \/ UNCHANGED Order!vars
<1>1. EngineTypeOK BY Zenon DEF EngineInv
<1>2. PICK v \in Stages \ {"wait"} : st' = [st EXCEPT ![s] = v] BY <1>1, StepMoves, Zenon
<1>3. deps' = deps /\ status' = status /\ st[s] \notin {"wait"} \cup Over BY <1>1, StepMoves, Zenon
<1>4. st \in [Steps -> Stages] BY <1>1, TypeFacts, Zenon
<1>5. st'[s] = v /\ v # "wait" /\ \A t \in Steps : t # s => st'[t] = st[t] BY <1>2, <1>4, Zenon
<1>6. Phase[s] = "running" BY <1>3, OrderView, Zenon
<1>7. CASE v \in Over
    <2>1. Phase' = [Phase EXCEPT ![s] = "ended"] BY <1>5, <1>7, Zenon DEF Phase
    <2>2. Bad' = IF v = "raised" THEN Bad \cup {s} ELSE Bad BY <1>3, <1>5, <1>7, Zenon DEF Bad, Over
    <2>3. \E e \in BOOLEAN : Bad' = IF e THEN Bad \cup {s} ELSE Bad
        <3>1. (v = "raised") \in BOOLEAN OBVIOUS
        <3> QED BY <2>2, <3>1, Zenon
    <2>4. \E e \in BOOLEAN : Order!End(s, e)
        BY <1>3, <1>6, <2>1, <2>3, Zenon DEF Order!End, Phase, Bad
    <2> QED BY <2>4, Zenon DEF Order!Next
<1>8. CASE v \notin Over
    <2>1. Phase' = Phase BY <1>3, <1>5, <1>8, Zenon DEF Phase
    <2>2. Bad' = Bad BY <1>3, <1>5, <1>8, Zenon DEF Bad, Over
    <2> QED BY <1>3, <2>1, <2>2, OrderView, Zenon DEF Order!vars, Phase, Bad
<1> QED BY <1>7, <1>8, Zenon

\* A wave starts: all its steps may.
LEMMA OrderStart ==
    ASSUME EngineInv, StartWave
    PROVE  Order!Next
<1>1. EngineTypeOK /\ WavesInv BY Zenon DEF EngineInv
<1>2. /\ deps' = deps /\ status' = status /\ status = "running" /\ order # <<>>
      /\ st' = [s \in Steps |-> IF s \in Range(Wave) THEN "created" ELSE st[s]]
      /\ \A s \in Range(Wave) : st[s] = "wait"
    BY Zenon DEF StartWave
<1>3. order \in Seq(Seq(Steps)) BY <1>1, Zenon DEF EngineTypeOK
<1>4. Wave = order[1] /\ 1 \in DOMAIN order /\ Range(Wave) \subseteq Steps
    BY <1>2, <1>3, PlannedSteps, Zenon
<1>5. WavesBefore(1) = {} BY DEF WavesBefore
<1>6. \A s \in Range(Wave) : deps[s] \subseteq Ended
    BY <1>1, <1>4, <1>5, Zenon DEF WavesInv
<1>7. Range(Wave) \subseteq Order!Startable BY <1>2, <1>4, <1>6, OrderView, Zenon
<1>8. Phase' = [s \in Steps |-> IF s \in Range(Wave) THEN "running" ELSE Phase[s]]
    BY <1>2, Zenon DEF Phase, Over
<1>9. Bad' = Bad BY <1>2, Zenon DEF Bad
<1>11. Range(Wave) \in SUBSET Steps BY <1>4, Zenon
<1>12. \E S \in SUBSET Steps : Order!Start(S)
    BY <1>2, <1>7, <1>8, <1>9, <1>11, Zenon DEF Order!Start, Phase, Bad
<1> QED BY <1>12, Zenon DEF Order!Next

\* The verdict: completed when nothing more can start, failed for a step that raised.
LEMMA OrderVerdict ==
    ASSUME EngineInv, EngineInv', EmptyOrder \/ EndWave
    PROVE  Order!Next \/ UNCHANGED Order!vars
<1>1. /\ deps' = deps /\ st' = st /\ status = "running" /\ Sorted'
      /\ status' \in {"running", "completed", "failed"}
      /\ \A s \in Range(Wave) : st[s] \in Over
      /\ status' = "failed" => \E s \in Range(Wave) : Aborts(s)
    <2>1. CASE EmptyOrder
        <3>1. Wave = <<>> BY <2>1, Zenon DEF EmptyOrder, Wave
        <3>2. Range(Wave) = {} BY <3>1 DEF Range
        <3> QED BY <2>1, <3>2, Zenon DEF EmptyOrder, Sorted, sort
    <2>2. CASE EndWave BY <2>2, Zenon DEF EndWave, Sorted, sort
    <2> QED BY <2>1, <2>2, Zenon
<1>2. Phase' = Phase /\ Bad' = Bad BY <1>1, Zenon DEF Phase, Bad
<1>3. \A s \in Steps : st[s] \in {"wait"} \cup Over
    BY <1>1, Zenon DEF EngineInv, WavesInv
<1>4. \A s \in Steps : Phase[s] # "running" BY <1>3, OrderView, Zenon
<1>5. CASE status' = "completed"
    <2>1. (order = <<>>)' BY <1>5, Zenon DEF EngineInv, BlockedInv
    <2>2. Waiting' = Waiting BY <1>1, Zenon DEF Waiting
    <2>3. \A s \in Waiting' : (deps[s] \cap (Waiting \cup Ghosts))' # {}
        <3>1. (\A s \in Waiting : deps[s] \cap (Waiting \cup Ghosts) # {})'
            BY <2>1, <1>1, LeftOutWaits, PTL
        <3> QED BY <3>1, Zenon
    <2>4. \A s \in Waiting : deps[s] \cap (Waiting \cup Ghosts) # {}
        BY <1>1, <2>2, <2>3, Zenon
    <2>5. Ended \cap (Waiting \cup Ghosts) = {}
        <3>1. Ghosts \cap Steps = {} BY DagAssumption, Zenon
        <3> QED BY <3>1, Zenon DEF Ended, Waiting, Over
    <2>6. Order!Startable = {} BY <2>4, <2>5, OrderView, Zenon DEF Waiting
    <2>7. Order!Complete BY <1>1, <1>2, <1>4, <1>5, <2>6, Zenon DEF Order!Complete, Phase, Bad
    <2> QED BY <2>7, Zenon DEF Order!Next
<1>6. CASE status' = "failed"
    <2>1. PICK s \in Range(Wave) : Aborts(s) BY <1>1, <1>6, Zenon
    <2>2. s \in Steps
        <3>1. order # <<>>
            <4>1. order = <<>> => Wave = <<>> BY Zenon  DEF Wave
            <4> QED BY <4>1, <2>1 DEF Range
        <3>2. order \in Seq(Seq(Steps)) BY Zenon DEF EngineInv, EngineTypeOK
        <3> QED BY <3>1, <3>2, <2>1, PlannedSteps, Zenon
    <2>3. Bad # {} BY <2>1, <2>2, Zenon DEF Bad, Aborts
    <2>4. Order!Fail BY <1>1, <1>2, <1>4, <1>6, <2>3, Zenon DEF Order!Fail, Phase, Bad
    <2> QED BY <2>4, Zenon DEF Order!Next
<1>7. CASE status' = "running" BY <1>1, <1>2, <1>7, OrderView, Zenon DEF Order!vars, Phase, Bad
<1> QED BY <1>1, <1>5, <1>6, <1>7, Zenon

\* DagEngine.execute, with its waves, its retries, its MAP items and its saves, keeps
\* the promise of DagOrder: a step starts after all it depends on has ended, a
\* completed execution leaves nothing that could start, a failed one has a step
\* that raised, and nothing starts after the verdict.
THEOREM EngineImplementsOrder == EngineSpec => ImplementsDagOrder
<1>1. EngineInit => Order!Init
    BY Zenon  DEF EngineInit, Order!Init
<1>2. EngineInv /\ EngineInv' /\ [EngineNext]_engineVars => [Order!Next]_(Order!vars)
    <2> SUFFICES ASSUME EngineInv, EngineInv', [EngineNext]_engineVars
                 PROVE  Order!Next \/ UNCHANGED Order!vars
        OBVIOUS
    <2>1. CASE Sort
        <3>1. UNCHANGED <<deps, st, status>>
            BY <2>1, Zenon DEF Sort, SortLook, SortStep, SortWave, tasks
        <3> QED BY <3>1, Zenon DEF Order!vars
    <2>2. CASE EmptyOrder \/ EndWave BY <2>2, OrderVerdict, Zenon
    <2>3. CASE StartWave BY <2>3, OrderStart, Zenon
    <2>4. ASSUME NEW s \in Steps, StepAction(s) PROVE Order!Next \/ UNCHANGED Order!vars
        BY <2>4, OrderMove, Zenon
    <2>5. CASE UNCHANGED engineVars BY <2>5, Zenon DEF engineVars, Order!vars
    <2> QED BY <2>1, <2>2, <2>3, <2>4, <2>5, Zenon DEF EngineNext
<1> QED BY <1>1, <1>2, EngineInvariant, PTL DEF EngineSpec, ImplementsDagOrder, Order!Spec


-----------------------------------------------------------------------------
(* The command proxy.                                                      *)

CONSTANTS Jobs, Cancellable, MaxThreads, MaxFaults

VARIABLES job, proc, processes, cancelled, canceller, results, caller, early,
    silent, faults

Proxy == INSTANCE AsyncProxy

\* AsyncProxy: a cancel before the start is the job's outcome, and the process
\* table holds live jobs only.
ProxySound == Proxy!EarlyCancelIsFinal /\ Proxy!TableIsCurrent

Places == {"none", "queued", "started", "communicate", "pop", "check",
           "write success", "write error", "raise", "ended"}
Unchecked == {"none", "queued", "started", "communicate", "pop", "check"}
Cancels == {"idle", "write", "write, terminate", "terminate", "done"}
NoSuccess(q) == \A k \in 1..Len(q) : q[k] # "success"

ProxyTypes ==
    /\ job \in [Jobs -> Places]
    /\ proc \in [Jobs -> {"none", "running", "ok", "bad", "killed"}]
    /\ canceller \in [Jobs -> Cancels]
    /\ results \in [Jobs -> Seq({"success", "error", "cancelled"})]
    /\ caller \in [Jobs -> {"idle", "waiting", "submit error", "returned",
                            "backend error", "cancelled", "timeout"}]
    /\ processes \subseteq Jobs /\ early \subseteq cancelled /\ cancelled \subseteq Jobs

\* The results a job has pushed, its own and those of a cancel
Pushes(j) ==
    (IF job[j] = "ended" THEN 2 ELSE IF job[j] = "raise" THEN 1 ELSE 0)
    + (IF canceller[j] \in {"terminate", "done"} THEN 1 ELSE 0)

\* A job is in the process table only between Popen and communicate's end, its
\* process runs only then, and before the look at _cancelled there is no success.
JobInv(j) ==
    /\ caller[j] = "idle" => job[j] = "none"
    /\ job[j] \notin {"communicate", "pop"} => j \notin processes
    /\ job[j] \notin {"started", "communicate"} => proc[j] # "running"
    /\ j \in early => job[j] \notin {"write success", "write error"}
    /\ j \in early \/ job[j] \in Unchecked => caller[j] # "returned" /\ NoSuccess(results[j])
    /\ Len(results[j]) <= Pushes(j)

ProxyInv == ProxyTypes /\ \A j \in Jobs : JobInv(j)


\* A result list with one more result at its left end, or one less.
LEMMA ResultPushed ==
    ASSUME NEW S, NEW q \in Seq(S), NEW r \in S
    PROVE  /\ <<r>> \o q \in Seq(S) /\ Len(<<r>> \o q) = Len(q) + 1
           /\ r # "success" /\ NoSuccess(q) => NoSuccess(<<r>> \o q)
<1>1. /\ Len(q) \in Nat /\ <<r>> \o q \in Seq(S) /\ Len(<<r>> \o q) = Len(q) + 1
      /\ (<<r>> \o q)[1] = r
      /\ \A k \in 2..(Len(q) + 1) : (<<r>> \o q)[k] = q[k - 1]
    OBVIOUS
<1>2. ASSUME r # "success", NoSuccess(q), NEW k \in 1..(Len(q) + 1)
      PROVE  (<<r>> \o q)[k] # "success"
    <2>1. CASE k = 1 BY <1>1, <1>2, <2>1, Zenon
    <2>2. CASE k # 1
        <3>1. k \in 2..(Len(q) + 1) /\ k - 1 \in 1..Len(q) BY <1>1, <2>2
        <3> QED BY <3>1, <1>1, <1>2, Zenon DEF NoSuccess
    <2> QED BY <2>1, <2>2, Zenon
<1> QED BY <1>1, <1>2, Zenon DEF NoSuccess

LEMMA ResultPopped ==
    ASSUME NEW S, NEW q \in Seq(S), q # <<>>
    PROVE  /\ Tail(q) \in Seq(S) /\ Len(Tail(q)) = Len(q) - 1 /\ Head(q) \in S
           /\ NoSuccess(q) => Head(q) # "success" /\ NoSuccess(Tail(q))
<1>1. /\ Len(q) \in Nat \ {0} /\ Tail(q) \in Seq(S) /\ Len(Tail(q)) = Len(q) - 1
      /\ Head(q) = q[1] /\ Head(q) \in S
      /\ \A k \in 1..(Len(q) - 1) : Tail(q)[k] = q[k + 1]
    OBVIOUS
<1>2. ASSUME NoSuccess(q) PROVE Head(q) # "success" /\ NoSuccess(Tail(q))
    <2>1. 1 \in 1..Len(q) /\ \A k \in 1..(Len(q) - 1) : k + 1 \in 1..Len(q) BY <1>1
    <2> QED BY <2>1, <1>1, <1>2, Zenon DEF NoSuccess
<1> QED BY <1>1, <1>2, Zenon

LEMMA PushesBound ==
    ASSUME NEW j
    PROVE  Pushes(j) \in Nat /\ Pushes(j) <= 3
BY DEF Pushes

LEMMA PushesKept ==
    ASSUME NEW j, canceller'[j] = canceller[j],
           job[j] \in {"ended", "raise"} => job'[j] = job[j]
    PROVE  Pushes(j) <= Pushes(j)' /\ Pushes(j) \in Nat /\ Pushes(j)' \in Nat
BY DEF Pushes

LEMMA NoResults == Len(<<>>) = 0 /\ NoSuccess(<<>>)
<1>1. Len(<<>>) = 0 OBVIOUS
<1> QED BY <1>1 DEF NoSuccess

LEMMA Shorter ==
    ASSUME NEW a \in Nat, NEW b \in Nat, NEW c \in Nat, a <= b, b <= c
    PROVE  a <= c
OBVIOUS

LEMMA ResultLength ==
    ASSUME ProxyTypes, NEW j \in Jobs
    PROVE  results[j] \in Seq({"success", "error", "cancelled"}) /\ Len(results[j]) \in Nat
<1>1. results[j] \in Seq({"success", "error", "cancelled"}) BY Zenon  DEF ProxyTypes
<1> QED BY <1>1

\* Only one job moves.
LEMMA OneJob ==
    ASSUME ProxyInv, ProxyTypes', NEW j \in Jobs, JobInv(j)',
           \A k \in Jobs \ {j} :
              /\ job'[k] = job[k] /\ proc'[k] = proc[k] /\ canceller'[k] = canceller[k]
              /\ results'[k] = results[k] /\ caller'[k] = caller[k]
              /\ k \in processes' => k \in processes
              /\ k \in early' => k \in early
    PROVE  ProxyInv'
<1>1. ASSUME NEW k \in Jobs, k # j PROVE JobInv(k)'
    <2>1. JobInv(k) BY Zenon  DEF ProxyInv
    <2>2. Pushes(k)' = Pushes(k) BY <1>1, Zenon DEF Pushes
    <2> QED BY <1>1, <2>1, <2>2, Zenon DEF JobInv
<1> QED BY <1>1, Zenon DEF ProxyInv

\* The executor's thread: _execute_and_store.
LEMMA ThreadInv ==
    ASSUME ProxyInv, NEW j \in Jobs,
           \/ Proxy!Begin(j) \/ Proxy!CannotStart(j) \/ Proxy!Register(j)
           \/ Proxy!Communicate(j) \/ Proxy!KillLate(j) \/ Proxy!Check(j) \/ Proxy!Ends(j)
    PROVE  ProxyInv'
<1>1. ProxyTypes /\ JobInv(j) BY Zenon  DEF ProxyInv
<1>2. UNCHANGED <<canceller, results, caller, early, cancelled>>
    BY Zenon DEF Proxy!Begin, Proxy!CannotStart, Proxy!Register, Proxy!Communicate,
       Proxy!KillLate, Proxy!Check, Proxy!Ends
<1>3. /\ processes' \subseteq Jobs /\ processes' \subseteq processes \cup {j}
      /\ j \in processes' => job'[j] \in {"communicate", "pop"}
    BY <1>1, Zenon DEF ProxyTypes, JobInv, Places, Proxy!Begin, Proxy!CannotStart, Proxy!Register,
       Proxy!Communicate, Proxy!KillLate, Proxy!Check, Proxy!Ends, Proxy!At, Proxy!Goes
<1>4. PICK p \in Places : /\ job' = [job EXCEPT ![j] = p]
                          /\ p \in Unchecked \cup {"raise"} => job[j] \in Unchecked
                          /\ p = "ended" => job[j] \in Unchecked
                          /\ p = "none" => job[j] = "none"
                          /\ p \in {"write success", "write error"} => j \notin cancelled
                          /\ p # job[j] => job[j] \in Unchecked \ {"none"}
    <2>1. CASE Proxy!Begin(j) BY <2>1, Zenon DEF Proxy!Begin, Proxy!At, Proxy!Goes, Places, Unchecked
    <2>2. CASE Proxy!CannotStart(j)
        BY <2>2, Zenon DEF Proxy!CannotStart, Proxy!At, Proxy!Goes, Places, Unchecked
    <2>3. CASE Proxy!Register(j)
        BY <2>3, Zenon DEF Proxy!Register, Proxy!At, Proxy!Goes, Places, Unchecked
    <2>4. CASE Proxy!Communicate(j)
        BY <2>4, Zenon DEF Proxy!Communicate, Proxy!At, Proxy!Goes, Places, Unchecked
    <2>5. CASE Proxy!KillLate(j)
        BY <2>5, Zenon DEF Proxy!KillLate, Proxy!At, Proxy!Goes, Places, Unchecked
    <2>6. CASE Proxy!Check(j)
        BY <2>6, Zenon DEF Proxy!Check, Proxy!Goes, Proxy!WasCancelled, Proxy!Outcome, Places, Unchecked
    <2>7. CASE Proxy!Ends(j)
        <3>1. job' = [job EXCEPT ![j] = job[j]] /\ job[j] \in Places
            BY <1>1, <2>7, Zenon DEF Proxy!Ends, ProxyTypes
        <3>2. job[j] \in Unchecked
            BY <1>1, <2>7, <3>1, Zenon DEF Proxy!Ends, JobInv, Unchecked
        <3> QED BY <3>1, <3>2, Zenon DEF Unchecked
    <2> QED BY <2>1, <2>2, <2>3, <2>4, <2>5, <2>6, <2>7, Zenon
<1>5. PICK o \in {"none", "running", "ok", "bad", "killed"} :
        /\ proc' = [proc EXCEPT ![j] = o]
        /\ p \notin {"started", "communicate"} => o # "running"
    <2>1. job[j] \in Places /\ proc \in [Jobs -> {"none", "running", "ok", "bad", "killed"}]
          /\ job \in [Jobs -> Places]
        BY <1>1, Zenon DEF ProxyTypes
    <2>2. job'[j] = p BY <1>4, <2>1, Zenon
    <2>3. CASE UNCHANGED proc /\ ~Proxy!Ends(j) /\ ~Proxy!Begin(j) /\ ~Proxy!KillLate(j)
        <3>1. proc' = [proc EXCEPT ![j] = proc[j]] BY <2>1, <2>3, Zenon
        <3>2. p \notin {"started", "communicate"} => proc[j] # "running"
            BY <1>1, <2>1, <2>2, <2>3, Zenon DEF JobInv, Proxy!CannotStart, Proxy!Register,
               Proxy!Communicate, Proxy!Check, Proxy!At, Proxy!Goes
        <3> QED BY <2>1, <3>1, <3>2, Zenon
    <2>4. CASE Proxy!Begin(j) BY <2>1, <2>2, <2>4, Zenon DEF Proxy!Begin, Proxy!Goes
    <2>5. CASE Proxy!KillLate(j) BY <2>5, Zenon DEF Proxy!KillLate
    <2>6. CASE Proxy!Ends(j) BY <2>6, Zenon DEF Proxy!Ends
    <2> QED BY <2>3, <2>4, <2>5, <2>6, Zenon DEF Proxy!CannotStart, Proxy!Register,
               Proxy!Communicate, Proxy!Check
<1>6. job'[j] = p /\ proc'[j] = o BY <1>1, <1>4, <1>5, Zenon DEF ProxyTypes
<1>7. ProxyTypes' BY <1>1, <1>2, <1>3, <1>4, <1>5, Zenon DEF ProxyTypes
<1>8. JobInv(j)'
    <2>1. job[j] \in Places BY <1>1, Zenon DEF ProxyTypes
    <2>2. Pushes(j) <= Pushes(j)' /\ Pushes(j) \in Nat /\ Pushes(j)' \in Nat
        <3>1. job[j] \in {"ended", "raise"} => job'[j] = job[j]
            BY <1>4, <1>6, Zenon DEF Unchecked
        <3>2. canceller'[j] = canceller[j] BY <1>2, Zenon
        <3> QED BY <3>1, <3>2, PushesKept, Zenon
    <2>3. Len(results[j]) \in Nat BY <1>1, ResultLength, Zenon
    <2>4. (Len(results[j]) <= Pushes(j))'
        <3>1. Len(results[j]) <= Pushes(j) BY <1>1, Zenon DEF JobInv
        <3>2. Len(results[j]) <= Pushes(j)' BY <3>1, <2>2, <2>3
        <3> QED BY <3>2, <1>2, Zenon
    <2>5. /\ (caller[j] = "idle" => job[j] = "none")'
          /\ (j \in early => job[j] \notin {"write success", "write error"})'
        BY <1>1, <1>2, <1>4, <1>6, Zenon DEF JobInv, ProxyTypes, Unchecked
    <2>6. (j \in early \/ job[j] \in Unchecked => caller[j] # "returned" /\ NoSuccess(results[j]))'
        BY <1>1, <1>2, <1>4, <1>6, Zenon DEF JobInv
    <2> QED BY <1>3, <1>5, <1>6, <2>4, <2>5, <2>6, Zenon DEF JobInv
<1>9. \A k \in Jobs \ {j} : job'[k] = job[k] /\ proc'[k] = proc[k]
    BY <1>1, <1>4, <1>5, Zenon DEF ProxyTypes
<1> QED BY <1>2, <1>3, <1>7, <1>8, <1>9, OneJob, Zenon


\* The worker that submits the job and waits for its result.
LEMMA WorkerInv ==
    ASSUME ProxyInv, NEW j \in Jobs,
           \/ Proxy!Submit(j) \/ Proxy!SubmitFails(j) \/ Proxy!TakeResult(j)
           \/ Proxy!Timeout(j) \/ Proxy!ResultExpires(j)
    PROVE  ProxyInv'
<1>1. ProxyTypes /\ JobInv(j) BY Zenon  DEF ProxyInv
<1>2. UNCHANGED <<proc, canceller, processes, early, cancelled>>
    BY Zenon DEF Proxy!Submit, Proxy!SubmitFails, Proxy!TakeResult, Proxy!Timeout,
       Proxy!ResultExpires
<1>3. results[j] \in Seq({"success", "error", "cancelled"}) /\ Len(results[j]) \in Nat
    BY <1>1, ResultLength, Zenon
<1>4. PICK q \in Seq({"success", "error", "cancelled"}) :
        /\ results' = [results EXCEPT ![j] = q]
        /\ Len(q) \in Nat /\ Len(q) <= Len(results[j])
        /\ NoSuccess(results[j]) => NoSuccess(q)
    <2>1. CASE Proxy!TakeResult(j)
        <3>1. results' = [results EXCEPT ![j] = Tail(results[j])] /\ results[j] # <<>>
            BY <2>1, Zenon DEF Proxy!TakeResult
        <3>2. /\ Tail(results[j]) \in Seq({"success", "error", "cancelled"})
              /\ Len(Tail(results[j])) = Len(results[j]) - 1
              /\ NoSuccess(results[j]) => NoSuccess(Tail(results[j]))
            BY <1>3, <3>1, ResultPopped, Zenon
        <3>3. Len(Tail(results[j])) \in Nat /\ Len(Tail(results[j])) <= Len(results[j])
            BY <1>3, <3>1, <3>2
        <3> QED BY <3>1, <3>2, <3>3, Zenon
    <2>2. CASE Proxy!ResultExpires(j)
        <3>1. results' = [results EXCEPT ![j] = <<>>] BY <2>2, Zenon DEF Proxy!ResultExpires
        <3>2. <<>> \in Seq({"success", "error", "cancelled"}) /\ Len(<<>>) = 0 /\ NoSuccess(<<>>)
            BY NoResults
        <3>3. Len(<<>>) \in Nat /\ Len(<<>>) <= Len(results[j]) BY <3>2, <1>3
        <3> QED BY <3>1, <3>2, <3>3, Zenon
    <2>3. CASE UNCHANGED results
        <3>1. results' = [results EXCEPT ![j] = results[j]] BY <1>1, <2>3, Zenon DEF ProxyTypes
        <3>2. Len(results[j]) <= Len(results[j]) BY <1>3
        <3> QED BY <1>3, <3>1, <3>2, Zenon
    <2> QED BY <2>1, <2>2, <2>3, Zenon DEF Proxy!Submit, Proxy!SubmitFails, Proxy!Timeout
<1>5. PICK c \in {"idle", "waiting", "submit error", "returned", "backend error",
                  "cancelled", "timeout"} :
        /\ caller' = [caller EXCEPT ![j] = c]
        /\ c = "idle" => caller[j] = "idle" /\ job' = job
        /\ c = "returned" => caller[j] = "returned" \/ ~NoSuccess(results[j])
    <2>1. CASE Proxy!TakeResult(j)
        <3>1. PICK r \in {"success", "error", "cancelled"} :
                r = Head(results[j]) /\ (NoSuccess(results[j]) => r # "success")
            BY <1>3, <2>1, ResultPopped DEF Proxy!TakeResult
        <3>2. caller' = [caller EXCEPT ![j] = Proxy!Returned(r)]
            BY <2>1, <3>1, Zenon DEF Proxy!TakeResult
        <3> QED BY <3>1, <3>2, Zenon DEF Proxy!Returned
    <2>2. CASE UNCHANGED <<caller, job>>
        <3>1. caller' = [caller EXCEPT ![j] = caller[j]] BY <1>1, <2>2, Zenon DEF ProxyTypes
        <3>2. caller[j] \in {"idle", "waiting", "submit error", "returned", "backend error",
                             "cancelled", "timeout"}
            BY <1>1, Zenon DEF ProxyTypes
        <3> QED BY <2>2, <3>1, <3>2, Zenon
    <2>3. CASE Proxy!Submit(j) BY <2>3, Zenon DEF Proxy!Submit
    <2>4. CASE Proxy!SubmitFails(j) BY <2>4, Zenon DEF Proxy!SubmitFails
    <2>5. CASE Proxy!Timeout(j) BY <2>5, Zenon DEF Proxy!Timeout
    <2> QED BY <2>1, <2>2, <2>3, <2>4, <2>5, Zenon DEF Proxy!ResultExpires
<1>6. PICK p \in Places : /\ job' = [job EXCEPT ![j] = p]
                          /\ p # job[j] => p = "queued" /\ job[j] = "none"
    <2>1. CASE Proxy!Submit(j)
        BY <1>1, <2>1, Zenon DEF Proxy!Submit, Proxy!Goes, Places, JobInv
    <2>2. CASE UNCHANGED job
        <3>1. job' = [job EXCEPT ![j] = job[j]] /\ job[j] \in Places
            BY <1>1, <2>2, Zenon DEF ProxyTypes
        <3> QED BY <3>1, Zenon
    <2> QED BY <2>1, <2>2, Zenon DEF Proxy!SubmitFails, Proxy!TakeResult, Proxy!Timeout,
               Proxy!ResultExpires
<1>7. /\ job'[j] = p /\ caller'[j] = c /\ results'[j] = q
      /\ \A k \in Jobs \ {j} : job'[k] = job[k] /\ caller'[k] = caller[k] /\ results'[k] = results[k]
    BY <1>1, <1>4, <1>5, <1>6, Zenon DEF ProxyTypes
<1>8. ProxyTypes' BY <1>1, <1>2, <1>4, <1>5, <1>6, Zenon DEF ProxyTypes
<1>9. JobInv(j)'
    <2>1. (Len(results[j]) <= Pushes(j))'
        <3>1. Pushes(j)' = Pushes(j) BY <1>2, <1>6, <1>7, Zenon DEF Pushes
        <3>2. Len(results[j]) <= Pushes(j) BY <1>1, Zenon DEF JobInv
        <3>3. Pushes(j) \in Nat BY PushesBound, Zenon
        <3>4. Len(q) \in Nat /\ Len(q) <= Len(results[j]) BY <1>4, Zenon
        <3>5. Len(q) <= Pushes(j)
            <4>1. Len(results[j]) \in Nat BY <1>3, Zenon
            <4> QED BY <3>2, <3>3, <3>4, <4>1, Shorter, Zenon
        <3> QED BY <3>1, <3>5, <1>7, Zenon
    <2>2. (j \in early \/ job[j] \in Unchecked => caller[j] # "returned" /\ NoSuccess(results[j]))'
        <3>1. job'[j] \in Unchecked => job[j] \in Unchecked BY <1>6, <1>7, Zenon DEF Unchecked
        <3> QED BY <3>1, <1>1, <1>2, <1>4, <1>5, <1>7, Zenon DEF JobInv
    <2>3. (caller[j] = "idle" => job[j] = "none")' BY <1>1, <1>5, <1>7, Zenon DEF JobInv
    <2>4. /\ (job[j] \notin {"communicate", "pop"} => j \notin processes)'
          /\ (job[j] \notin {"started", "communicate"} => proc[j] # "running")'
          /\ (j \in early => job[j] \notin {"write success", "write error"})'
        BY <1>1, <1>2, <1>6, <1>7, Zenon DEF JobInv
    <2> QED BY <2>1, <2>2, <2>3, <2>4, Zenon DEF JobInv
<1> QED BY <1>2, <1>7, <1>8, <1>9, OneJob, Zenon

\* A thread writes its outcome, or the error of its except branch.
LEMMA WriteInv ==
    ASSUME ProxyInv, NEW j \in Jobs,
           \/ Proxy!WriteOutcome(j) \/ Proxy!WriteFails(j) \/ Proxy!Raise(j)
           \/ Proxy!RaiseFails(j)
    PROVE  ProxyInv'
<1>1. ProxyTypes /\ JobInv(j) BY Zenon  DEF ProxyInv
<1>2. /\ UNCHANGED <<proc, canceller, caller, early, cancelled>>
      /\ processes' \in {processes, processes \ {j}}
    BY Zenon  DEF Proxy!WriteOutcome, Proxy!WriteFails, Proxy!Raise, Proxy!RaiseFails
<1>3. results[j] \in Seq({"success", "error", "cancelled"}) /\ Len(results[j]) \in Nat
    BY <1>1, ResultLength, Zenon
<1>4. PICK p \in {"raise", "ended"} :
        /\ job' = [job EXCEPT ![j] = p]
        /\ job[j] \in {"write success", "write error"} \/ (job[j] = "raise" /\ p = "ended")
    BY Zenon  DEF Proxy!WriteOutcome, Proxy!WriteFails, Proxy!Raise, Proxy!RaiseFails, Proxy!At,
       Proxy!Goes
<1>5. PICK q \in Seq({"success", "error", "cancelled"}) :
        /\ results' = [results EXCEPT ![j] = q]
        /\ Len(q) \in Nat /\ Len(q) <= Len(results[j]) + 1
        /\ j \in early => NoSuccess(q)
    <2>1. j \in early => NoSuccess(results[j]) /\ job[j] = "raise" BY <1>1, <1>4, Zenon DEF JobInv
    <2>2. CASE UNCHANGED results
        <3>1. results' = [results EXCEPT ![j] = results[j]] BY <1>1, <2>2, Zenon DEF ProxyTypes
        <3>2. Len(results[j]) <= Len(results[j]) + 1 BY <1>3
        <3> QED BY <1>3, <2>1, <3>1, <3>2, Zenon
    <2>3. ASSUME NEW r \in {"success", "error", "cancelled"}, Proxy!Write(j, r),
                 j \in early => r # "success"
          PROVE  \E x \in Seq({"success", "error", "cancelled"}) :
                    /\ results' = [results EXCEPT ![j] = x]
                    /\ Len(x) \in Nat /\ Len(x) <= Len(results[j]) + 1
                    /\ j \in early => NoSuccess(x)
        <3>1. results' = [results EXCEPT ![j] = <<r>> \o results[j]] BY <2>3, Zenon DEF Proxy!Write
        <3>2. /\ <<r>> \o results[j] \in Seq({"success", "error", "cancelled"})
              /\ Len(<<r>> \o results[j]) = Len(results[j]) + 1
              /\ j \in early => NoSuccess(<<r>> \o results[j])
            BY <1>3, <2>1, <2>3, ResultPushed, Zenon
        <3>3. /\ Len(<<r>> \o results[j]) \in Nat
              /\ Len(<<r>> \o results[j]) <= Len(results[j]) + 1
            BY <1>3, <3>2
        <3> QED BY <3>1, <3>2, <3>3, Zenon
    <2>4. CASE Proxy!Raise(j) BY <2>3, <2>4, Zenon DEF Proxy!Raise
    <2>5. CASE job[j] \in {"write success", "write error"} /\ Proxy!Write(j, Proxy!Status(j))
        <3>1. Proxy!Status(j) \in {"success", "error", "cancelled"} BY Zenon  DEF Proxy!Status
        <3> QED BY <2>1, <2>3, <2>5, <3>1, Zenon
    <2> QED BY <2>2, <2>4, <2>5, Zenon DEF Proxy!WriteOutcome, Proxy!WriteFails, Proxy!RaiseFails
<1>6. /\ job'[j] = p /\ results'[j] = q
      /\ \A k \in Jobs \ {j} : job'[k] = job[k] /\ results'[k] = results[k]
    BY <1>1, <1>4, <1>5, Zenon DEF ProxyTypes
<1>7. ProxyTypes'
    <2>1. p \in Places BY Zenon  DEF Places
    <2> QED BY <1>1, <1>2, <1>4, <1>5, <2>1, Zenon DEF ProxyTypes
<1>8. JobInv(j)'
    <2>1. (Len(results[j]) <= Pushes(j))'
        <3>1. Pushes(j)' >= Pushes(j) + 1 /\ Pushes(j) \in Nat /\ Pushes(j)' \in Nat
            <4>1. canceller'[j] = canceller[j] BY <1>2, Zenon
            <4>2. job'[j] = "ended" \/ (job'[j] = "raise" /\ job[j] # "raise") BY <1>4, <1>6, Zenon
            <4>3. job[j] # "ended" BY <1>4, Zenon
            <4> QED BY <4>1, <4>2, <4>3 DEF Pushes
        <3>2. Len(results[j]) <= Pushes(j) BY <1>1, Zenon DEF JobInv
        <3>3. Len(q) \in Nat /\ Len(q) <= Len(results[j]) + 1 BY <1>5, Zenon
        <3>4. Len(q) <= Pushes(j)' BY <3>1, <3>2, <3>3, <1>3
        <3> QED BY <3>4, <1>6, Zenon
    <2>2. (j \in early \/ job[j] \in Unchecked => caller[j] # "returned" /\ NoSuccess(results[j]))'
        BY <1>1, <1>2, <1>5, <1>6, Zenon DEF JobInv, Unchecked
    <2>3. (caller[j] = "idle" => job[j] = "none")' BY <1>1, <1>2, <1>4, Zenon DEF JobInv
    <2>4. /\ (job[j] \notin {"communicate", "pop"} => j \notin processes)'
          /\ (job[j] \notin {"started", "communicate"} => proc[j] # "running")'
          /\ (j \in early => job[j] \notin {"write success", "write error"})'
        BY <1>1, <1>2, <1>4, <1>6, Zenon DEF JobInv
    <2> QED BY <2>1, <2>2, <2>3, <2>4, Zenon DEF JobInv
<1> QED BY <1>2, <1>6, <1>7, <1>8, OneJob, Zenon


\* The cancel handler.
LEMMA CancelInv ==
    ASSUME ProxyInv, NEW j \in Jobs,
           Proxy!Cancel(j) \/ Proxy!CancelWrites(j) \/ Proxy!CancelTerminates(j)
    PROVE  ProxyInv'
<1>1. ProxyTypes /\ JobInv(j) BY Zenon  DEF ProxyInv
<1>2. UNCHANGED <<job, processes, caller>>
    BY Zenon DEF Proxy!Cancel, Proxy!CancelWrites, Proxy!CancelTerminates
<1>3. results[j] \in Seq({"success", "error", "cancelled"}) /\ Len(results[j]) \in Nat
    BY <1>1, ResultLength, Zenon
<1>4. Len(results[j]) <= Pushes(j) BY <1>1, Zenon DEF JobInv
<1>5. job[j] \in Places BY <1>1, Zenon DEF ProxyTypes
<1>6. CASE Proxy!Cancel(j)
    <2>1. PICK c \in {"write", "write, terminate"} : canceller' = [canceller EXCEPT ![j] = c]
        BY <1>6, Zenon DEF Proxy!Cancel
    <2>2. /\ cancelled' = cancelled \cup {j} /\ UNCHANGED <<proc, results>>
          /\ early' = early \/ (early' = early \cup {j} /\ job[j] \in Unchecked)
          /\ canceller[j] = "idle"
        BY <1>6, Zenon DEF Proxy!Cancel, Unchecked
    <2>3. ProxyTypes' BY <1>1, <1>2, <2>1, <2>2, Zenon DEF ProxyTypes, Cancels
    <2>4. canceller'[j] = c /\ \A k \in Jobs \ {j} : canceller'[k] = canceller[k]
        BY <1>1, <2>1, Zenon DEF ProxyTypes
    <2>5. Pushes(j)' = Pushes(j) BY <1>2, <2>2, <2>4, Zenon DEF Pushes
    <2>6. JobInv(j)' BY <1>1, <1>2, <1>4, <2>2, <2>5, Zenon DEF JobInv, Unchecked
    <2> QED BY <1>2, <2>2, <2>3, <2>4, <2>6, OneJob, Zenon
<1>7. CASE Proxy!CancelWrites(j)
    <2>1. /\ UNCHANGED <<proc, cancelled, early>>
          /\ canceller[j] \in {"write", "write, terminate"}
          /\ results' = [results EXCEPT ![j] = <<"cancelled">> \o results[j]]
        BY <1>7, Zenon DEF Proxy!CancelWrites, Proxy!Write
    <2>2. PICK c \in {"done", "terminate"} : canceller' = [canceller EXCEPT ![j] = c]
        BY <1>7, Zenon DEF Proxy!CancelWrites
    <2>3. PICK q \in Seq({"success", "error", "cancelled"}) : q = <<"cancelled">> \o results[j]
        BY <1>3, ResultPushed, Zenon
    <2>4. Len(q) = Len(results[j]) + 1 /\ (NoSuccess(results[j]) => NoSuccess(q))
        BY <1>3, <2>3, ResultPushed
    <2>5. ProxyTypes' BY <1>1, <1>2, <2>1, <2>2, <2>3, Zenon DEF ProxyTypes, Cancels
    <2>6. /\ canceller'[j] = c /\ results'[j] = q
          /\ \A k \in Jobs \ {j} : canceller'[k] = canceller[k] /\ results'[k] = results[k]
        BY <1>1, <2>1, <2>2, <2>3, Zenon DEF ProxyTypes
    <2>7. Pushes(j)' = Pushes(j) + 1 /\ Pushes(j) \in Nat
        <3>1. job'[j] = job[j] BY <1>2, Zenon
        <3>2. canceller[j] \notin {"terminate", "done"} BY <2>1, Zenon
        <3>3. canceller'[j] \in {"terminate", "done"} BY <2>6, Zenon
        <3> QED BY <3>1, <3>2, <3>3 DEF Pushes
    <2>8. Len(q) <= Pushes(j)' BY <1>3, <1>4, <2>4, <2>7
    <2>9. JobInv(j)' BY <1>1, <1>2, <2>1, <2>4, <2>6, <2>8, Zenon DEF JobInv
    <2> QED BY <1>2, <2>1, <2>5, <2>6, <2>9, OneJob, Zenon
<1>8. CASE Proxy!CancelTerminates(j)
    <2>1. /\ UNCHANGED <<results, cancelled, early>> /\ canceller[j] = "terminate"
          /\ canceller' = [canceller EXCEPT ![j] = "done"]
        BY <1>8, Zenon DEF Proxy!CancelTerminates
    <2>2. PICK o \in {"none", "ok", "bad", "killed"} : proc' = [proc EXCEPT ![j] = o]
        BY <1>1, <1>8, Zenon DEF Proxy!CancelTerminates, ProxyTypes
    <2>3. ProxyTypes' BY <1>1, <1>2, <2>1, <2>2, Zenon DEF ProxyTypes, Cancels
    <2>4. /\ canceller'[j] = "done" /\ proc'[j] = o
          /\ \A k \in Jobs \ {j} : canceller'[k] = canceller[k] /\ proc'[k] = proc[k]
        BY <1>1, <2>1, <2>2, Zenon DEF ProxyTypes
    <2>5. Pushes(j)' = Pushes(j) BY <1>2, <2>1, <2>4, Zenon DEF Pushes
    <2>6. JobInv(j)' BY <1>1, <1>2, <1>4, <2>1, <2>4, <2>5, Zenon DEF JobInv
    <2> QED BY <1>2, <2>1, <2>3, <2>4, <2>6, OneJob, Zenon
<1> QED BY <1>6, <1>7, <1>8, Zenon

LEMMA ProxyInvariant == Proxy!Spec => []ProxyInv
<1>1. Proxy!Init => ProxyInv
    <2> SUFFICES ASSUME Proxy!Init PROVE ProxyInv OBVIOUS
    <2>1. ProxyTypes BY DEF Proxy!Init, ProxyTypes, Places, Cancels
    <2>2. ASSUME NEW j \in Jobs PROVE JobInv(j)
        <3>1. /\ job[j] = "none" /\ proc[j] = "none" /\ processes = {} /\ early = {}
              /\ canceller[j] = "idle" /\ results[j] = <<>> /\ caller[j] = "idle"
            BY Zenon  DEF Proxy!Init
        <3>2. Len(results[j]) = 0 /\ NoSuccess(results[j]) BY <3>1, NoResults, Zenon
        <3>3. Pushes(j) \in Nat BY PushesBound, Zenon
        <3>4. Len(results[j]) <= Pushes(j) BY <3>2, <3>3
        <3> QED BY <3>1, <3>2, <3>4, Zenon DEF JobInv
    <2> QED BY <2>1, <2>2, Zenon DEF ProxyInv
<1>2. ProxyInv /\ [Proxy!Next]_(Proxy!vars) => ProxyInv'
    <2> SUFFICES ASSUME ProxyInv, [Proxy!Next]_(Proxy!vars) PROVE ProxyInv' OBVIOUS
    <2>1. ASSUME NEW j \in Jobs, Proxy!ThreadStep(j) PROVE ProxyInv'
        BY <2>1, ThreadInv, WriteInv, CancelInv, Zenon
           DEF Proxy!ThreadStep, Proxy!Forwarding, Proxy!Executing, Proxy!Cancelling
    <2>2. ASSUME NEW j \in Jobs, Proxy!Worker(j) \/ Proxy!ResultExpires(j) PROVE ProxyInv'
        BY <2>2, WorkerInv, Zenon DEF Proxy!Worker, Proxy!Submission
    <2>3. ASSUME NEW j \in Jobs,
                 \/ Proxy!CannotStart(j) \/ Proxy!Ends(j) \/ Proxy!WriteFails(j)
                 \/ Proxy!RaiseFails(j) \/ Proxy!Cancel(j)
          PROVE  ProxyInv'
        BY <2>3, ThreadInv, WriteInv, CancelInv, Zenon
    <2>4. CASE UNCHANGED Proxy!vars
        <3>1. ProxyTypes' BY <2>4, Zenon DEF Proxy!vars, ProxyInv, ProxyTypes
        <3>2. \A j \in Jobs : JobInv(j)'
            BY <2>4, Zenon DEF Proxy!vars, ProxyInv, JobInv, Pushes
        <3> QED BY <3>1, <3>2, Zenon DEF ProxyInv
    <2> QED BY <2>1, <2>2, <2>3, <2>4, Zenon DEF Proxy!Next
<1> QED BY <1>1, <1>2, PTL DEF Proxy!Spec

\* The command proxy, for any number of jobs, threads and Redis failures: a cancel
\* that came before _execute_and_store looked at _cancelled is final, and a job that
\* has ended is out of the process table with its process over.
THEOREM ProxyCorrect == Proxy!Spec => []ProxySound
<1>1. ProxyInv => ProxySound
    <2> SUFFICES ASSUME ProxyInv PROVE Proxy!EarlyCancelIsFinal /\ Proxy!TableIsCurrent
        BY Zenon  DEF ProxySound
    <2>1. \A j \in Jobs : JobInv(j) BY Zenon  DEF ProxyInv
    <2>2. ASSUME NEW j \in early
          PROVE  caller[j] # "returned" /\ \A k \in 1..Len(results[j]) : results[j][k] # "success"
        <3>1. j \in Jobs BY Zenon  DEF ProxyInv, ProxyTypes
        <3> QED BY <2>1, <3>1, Zenon DEF JobInv, NoSuccess
    <2>3. Proxy!TableIsCurrent BY <2>1, Zenon DEF JobInv, Proxy!TableIsCurrent, Proxy!At
    <2> QED BY <2>2, <2>3, Zenon DEF Proxy!EarlyCancelIsFinal
<1> QED BY <1>1, ProxyInvariant, PTL

\* Over the life of a job at most three results are pushed to its list: its own, the
\* error after a failed write of it, and the one of a cancel.
THEOREM ProxyTypeCorrect == Proxy!Spec => []Proxy!TypeOK
<1>1. ProxyInv => Proxy!TypeOK
    <2> SUFFICES ASSUME ProxyInv PROVE Proxy!TypeOK OBVIOUS
    <2>1. ProxyTypes BY Zenon  DEF ProxyInv
    <2>2. ASSUME NEW j \in Jobs PROVE Len(results[j]) <= 3
        <3>1. Len(results[j]) \in Nat BY <2>1, ResultLength, Zenon
        <3>2. Len(results[j]) <= Pushes(j) BY Zenon DEF ProxyInv, JobInv
        <3>3. Pushes(j) \in Nat /\ Pushes(j) <= 3 BY PushesBound, Zenon
        <3> QED BY <3>1, <3>2, <3>3
    <2> QED BY <2>1, <2>2, Zenon DEF ProxyTypes, Proxy!TypeOK
<1> QED BY <1>1, ProxyInvariant, PTL

=============================================================================
