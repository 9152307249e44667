------------------------- MODULE QueueManagerProofs -------------------------
(***************************************************************************)
(* The safety properties of the breaker, of the capability queue and of    *)
(* the slots for every set of tasks, clients and steps and every           *)
(* configuration.                                                          *)
(***************************************************************************)
EXTENDS QueueManager, ConcurrencySlots, FiniteSetTheorems, TLAPS

-----------------------------------------------------------------------------
(* Facts about sorted sets that the proofs of the components share.        *)

\* ZADD of a member of S keeps a sorted set over S and adds that member.
LEMMA ZAddFacts ==
    ASSUME NEW S, NEW z, IsZSet(z, S), NEW m \in S, NEW score \in Nat
    PROVE  /\ IsZSet(ZAdd(z, m, score), S)
           /\ DOMAIN ZAdd(z, m, score) = DOMAIN z \cup {m}
           /\ ZAdd(z, m, score)[m] = score
  BY DEF IsZSet, ZAdd

\* ZREM keeps a sorted set over S, without the removed members.
LEMMA ZRemFacts ==
    ASSUME NEW S, NEW z, IsZSet(z, S), NEW M
    PROVE  /\ IsZSet(ZRem(z, M), S)
           /\ DOMAIN ZRem(z, M) = DOMAIN z \ M
  BY DEF IsZSet, ZRem

\* The absent key is a sorted set over any S.
LEMMA EmptyZSetFacts ==
    ASSUME NEW S
    PROVE  IsZSet(EmptyZSet, S) /\ DOMAIN EmptyZSet = {}
  BY DEF IsZSet, EmptyZSet

\* ZADD grows the cardinality by at most one.
LEMMA ZAddCard ==
    ASSUME NEW S, IsFiniteSet(S), NEW z, IsZSet(z, S), NEW m \in S,
           NEW score \in Nat
    PROVE  ZCard(ZAdd(z, m, score)) <= ZCard(z) + 1 /\ ZCard(z) \in Nat
  <1>1. IsFiniteSet(DOMAIN z)
    BY FS_Subset DEF IsZSet
  <1>2. Cardinality(DOMAIN z) \in Nat
    BY <1>1, FS_CardinalityType
  <1>3. Cardinality(DOMAIN z \cup {m}) <= Cardinality(DOMAIN z) + 1
    <2>1. CASE m \in DOMAIN z
      <3>1. DOMAIN z \cup {m} = DOMAIN z
        BY <2>1
      <3> QED
        BY <3>1, <1>2
    <2>2. CASE m \notin DOMAIN z
      <3>1. Cardinality(DOMAIN z \cup {m}) = Cardinality(DOMAIN z) + 1
        BY <2>2, <1>1, FS_AddElement, Zenon
      <3> QED
        BY <3>1, <1>2
    <2> QED
      BY <2>1, <2>2
  <1>4. DOMAIN ZAdd(z, m, score) = DOMAIN z \cup {m}
    BY DEF ZAdd
  <1> QED
    BY <1>2, <1>3, <1>4 DEF ZCard

\* ZREM does not grow the cardinality.
LEMMA ZRemCard ==
    ASSUME NEW S, IsFiniteSet(S), NEW z, IsZSet(z, S), NEW M
    PROVE  ZCard(ZRem(z, M)) <= ZCard(z) /\ ZCard(ZRem(z, M)) \in Nat
  <1>1. IsFiniteSet(DOMAIN z)
    BY FS_Subset DEF IsZSet
  <1>2. DOMAIN ZRem(z, M) \subseteq DOMAIN z
    BY DEF ZRem
  <1>3. /\ IsFiniteSet(DOMAIN ZRem(z, M))
        /\ Cardinality(DOMAIN ZRem(z, M)) <= Cardinality(DOMAIN z)
    BY <1>1, <1>2, FS_Subset
  <1> QED
    BY <1>3, FS_CardinalityType DEF ZCard

\* The cardinality of a sorted set over a finite set is a natural number.
LEMMA ZCardType ==
    ASSUME NEW S, IsFiniteSet(S), NEW z, IsZSet(z, S)
    PROVE  ZCard(z) \in Nat /\ IsFiniteSet(DOMAIN z)
  BY FS_Subset, FS_CardinalityType DEF IsZSet, ZCard

\* The conditional refresh keeps half of the TTL, whatever was left before.
LEMMA RenewedHalf ==
    ASSUME NEW e \in Nat, NEW t \in Nat, NEW ttl \in Nat \ {0}
    PROVE  /\ RenewExpiry(e, t, ttl) \in Nat
           /\ t < RenewExpiry(e, t, ttl)
           /\ 2 * (RenewExpiry(e, t, ttl) - t) >= ttl
           /\ RenewExpiry(e, t, ttl) # NoExpiry
  BY DEF RenewExpiry, NoExpiry

-----------------------------------------------------------------------------
(* The breaker.  None of its properties is inductive alone: that an open   *)
(* key expires in time needs the type of the clock, that the count stays   *)
(* below the threshold needs that a half-open breaker does not exist.      *)
(* CBInv is their conjunction with the type invariant; every script and    *)
(* every unit of time preserves it.                                        *)

\* The inductive invariant: the four properties together.
CBInv ==
    /\ CBTypeOK
    /\ OpenAlwaysExpires
    /\ FailureCountSound
    /\ HalfOpenNeverEntered

\* The keys of a breaker nobody has used satisfy the invariant.
LEMMA CBInitial == CBInit => CBInv
  BY BreakerAssumption
  DEF CBInit, CBInv, CBTypeOK, BreakerStates, OpenAlwaysExpires,
      FailureCountSound, HalfOpenNeverEntered, NoExpiry

\* get_state preserves the invariant: no probe is counted outside half_open.
LEMMA CBCheckStep ==
    ASSUME CBInv, CheckState, now' = now
    PROVE  CBInv'
  <1>1. ~HalfOpenProbe
    BY Zenon DEF CBInv, HalfOpenNeverEntered, HalfOpenProbe
  <1>2. UNCHANGED <<cbProbes, cbState, cbStateExp, cbFailures, cbFailuresExp>>
    BY <1>1 DEF CheckState, CBInv, CBTypeOK
  <1> QED
    BY <1>2, Zenon
    DEF CBInv, CBTypeOK, OpenAlwaysExpires, FailureCountSound,
        HalfOpenNeverEntered

\* record_failure preserves the invariant, whether it is ignored by an open
\* breaker, opens it, or is counted below the threshold.
LEMMA CBFailureStep ==
    ASSUME CBInv, RecordFailure, now' = now
    PROVE  CBInv'
  <1> USE BreakerAssumption
      DEF CBInv, CBTypeOK, OpenAlwaysExpires, FailureCountSound,
          HalfOpenNeverEntered, BreakerStates, NoExpiry
  <1>1. CASE cbState = "open" /\ UNCHANGED cbVars
    BY <1>1, Zenon DEF cbVars
  <1>2. CASE /\ cbState # "open"
             /\ Trips
             /\ cbState' = "open"
             /\ cbStateExp' = now + OpenDuration
             /\ cbFailures' = 0
             /\ cbFailuresExp' = NoExpiry
             /\ UNCHANGED cbProbes
    BY <1>2
  <1>3. CASE /\ cbState # "open"
             /\ ~Trips
             /\ cbFailures' = cbFailures + 1
             /\ cbFailuresExp' = now + 4 * OpenDuration
             /\ UNCHANGED <<cbState, cbStateExp, cbProbes>>
    BY <1>3 DEF Trips
  <1> QED
    BY <1>1, <1>2, <1>3, Zenon DEF RecordFailure

\* record_success preserves the invariant: it only forgets failures.
LEMMA CBSuccessStep ==
    ASSUME CBInv, RecordSuccess, now' = now
    PROVE  CBInv'
  BY BreakerAssumption
  DEF RecordSuccess, CBInv, CBTypeOK, OpenAlwaysExpires, FailureCountSound,
      HalfOpenNeverEntered, NoExpiry

\* The passing of time preserves the invariant: a key is dropped at the
\* instant its expiry is reached, together with its expiry.
LEMMA CBTickStep ==
    ASSUME CBInv, CBTick
    PROVE  CBInv'
  BY BreakerAssumption
  DEF CBTick, CBExpireKeys, Expired, CBInv, CBTypeOK, BreakerStates,
      OpenAlwaysExpires, FailureCountSound, HalfOpenNeverEntered, NoExpiry

\* Steps that leave the breaker alone preserve its invariant.
LEMMA CBStutterStep ==
    ASSUME CBInv, UNCHANGED <<now, cbVars>>
    PROVE  CBInv'
  BY Zenon DEF cbVars, CBInv, CBTypeOK, OpenAlwaysExpires, FailureCountSound,
         HalfOpenNeverEntered

\* CBInv is an invariant of the breaker.
THEOREM CBInvariance == CBSpec => []CBInv
  <1>1. CBInv /\ [CBNext]_<<now, cbVars>> => CBInv'
    BY CBCheckStep, CBFailureStep, CBSuccessStep, CBTickStep, CBStutterStep, Zenon
    DEF CBNext
  <1> QED
    BY CBInitial, <1>1, PTL DEF CBSpec

\* Type correctness of the breaker's keys.
THEOREM CBTypeCorrect == CBSpec => []CBTypeOK
  BY CBInvariance, PTL DEF CBInv

\* An open breaker always carries an expiry at most open_duration_seconds
\* ahead, for every threshold and duration.
THEOREM CBOpenExpires == CBSpec => []OpenAlwaysExpires
  BY CBInvariance, PTL DEF CBInv

\* The failure count stays below the threshold and is forgotten on opening.
THEOREM CBCountSound == CBSpec => []FailureCountSound
  BY CBInvariance, PTL DEF CBInv

\* The half-open state of _LUA_CHECK_STATE is unreachable.
THEOREM CBNeverHalfOpen == CBSpec => []HalfOpenNeverEntered
  BY CBInvariance, PTL DEF CBInv

-----------------------------------------------------------------------------
(* The breaker inside the queue.                                           *)

\* Every step of the queue is a step of its breaker or leaves it alone.
LEMMA BreakerStep == [Next]_vars => [CBNext]_<<now, cbVars>>
  <1> SUFFICES ASSUME [Next]_vars PROVE [CBNext]_<<now, cbVars>>
    OBVIOUS
  <1>1. CASE UNCHANGED vars
    BY <1>1, Zenon DEF vars
  <1>2. CASE Tick
    BY <1>2, Zenon DEF Tick, CBNext
  <1>3. CASE AdjustConcurrent \/ TryRecoverConcurrent
    BY <1>3, Zenon DEF AdjustConcurrent, TryRecoverConcurrent
  <1>4. ASSUME NEW t \in Tasks, Cancel(t) PROVE UNCHANGED <<now, cbVars>>
    BY <1>4, Zenon DEF Cancel
  <1>5. ASSUME NEW c \in Clients, ClientStep(c)
        PROVE  [CBNext]_<<now, cbVars>>
    <2>1. ASSUME NEW t \in Tasks, NEW p \in Priorities, NEW d \in Delays,
                 EnqueueCheck(c, t, p, d)
          PROVE  [CBNext]_<<now, cbVars>>
      BY <2>1, Zenon DEF EnqueueCheck, CBNext
    <2>2. CASE DequeueCheck(c)
      BY <2>2, Zenon DEF DequeueCheck, CBNext
    <2>3. CASE CompleteRecord(c)
      BY <2>3, Zenon DEF CompleteRecord, CBNext
    <2>4. CASE FailRecord(c)
      BY <2>4, Zenon DEF FailRecord, CBNext
    <2>5. CASE EnqueueFull(c) \/ EnqueueScript(c) \/ DequeueNil(c) \/ DequeueScript(c)
      BY <2>5, Zenon DEF EnqueueFull, EnqueueScript, DequeueNil, DequeueScript
    <2>6. CASE CleanupScan(c) \/ CleanupRemove(c) \/ Crash(c)
      BY <2>6, Zenon DEF CleanupScan, CleanupRemove, Crash
    <2>7. ASSUME NEW t \in Tasks, Complete(c, t) \/ Fail(c, t) \/ ReleaseRunningSlot(c, t)
          PROVE  UNCHANGED <<now, cbVars>>
      BY <2>7, Zenon DEF Complete, Fail, Finish, ReleaseRunningSlot
    <2> QED
      BY <1>5, <2>1, <2>2, <2>3, <2>4, <2>5, <2>6, <2>7, Zenon DEF ClientStep
  <1> QED
    BY <1>1, <1>2, <1>3, <1>4, <1>5, Zenon DEF Next

\* The queue implements the breaker's specification: wired into the queue,
\* with its calls interleaved with everything else, it behaves as alone.
THEOREM QueueImplementsBreaker == Spec => CBSpec
  <1>1. Init => CBInit
    BY Zenon DEF Init
  <1> QED
    BY <1>1, BreakerStep, PTL DEF Spec, CBSpec

-----------------------------------------------------------------------------
(* Types, and the accounting of deliveries.  The two need each other: owed *)
(* stays a natural number because a task is only delivered while it is     *)
(* pending, and then it is owed.                                           *)

TypeInv ==
    /\ CBInv
    /\ TypeOK
    /\ DeliveredOncePerEnqueue

\* A call a client is about to make is well typed.
LEMMA CallType ==
    ASSUME TypeOK, NEW c \in Clients, NEW pc \in PCs,
           NEW ts \in SUBSET Tasks, NEW n \in Nat, Call(c, pc, ts, n)
    PROVE  op' \in [Clients -> [pc : PCs, tasks : SUBSET Tasks, num : Nat]]
  BY Zenon DEF TypeOK, Call

\* Returning from a call leaves a well-typed client.
LEMMA ReturnType ==
    ASSUME TypeOK, NEW c \in Clients, Return(c)
    PROVE  op' \in [Clients -> [pc : PCs, tasks : SUBSET Tasks, num : Nat]]
  BY Zenon DEF TypeOK, Return, Idle, PCs

\* The scores enqueue may compute are natural numbers.
LEMMA ScoresType ==
    ASSUME NEW n \in Nat, now \in Nat
    PROVE  Scores(n) \subseteq Nat
  <1>1. /\ Scale \in Nat /\ Scale > 0
        /\ n \div Scale \in Nat
        /\ n % Scale \in Nat
    BY QueueAssumption
  <1>2. ASSUME NEW ms \in (n % Scale) .. now
        PROVE  (n \div Scale) * Scale + ms \in Nat
    <2>1. ms \in Nat
      BY <1>1, <1>2
    <2> QED
      BY <1>1, <2>1
  <1> QED
    BY <1>2, Zenon DEF Scores, ClockReads

\* What a dequeue may hand out is a pending task that is ready and has the
\* lowest score among the scanned ready ones.
LEMMA NextReadyPending ==
    ASSUME NEW ms, NEW t \in NextReady(ms)
    PROVE  /\ t \in DOMAIN pending
           /\ Scanned(t)
           /\ ReadyTime(pending[t]) <= ms
           /\ \A u \in ReadyCandidates(ms) : pending[t] <= pending[u]
  BY Zenon DEF NextReady, ReadyCandidates

\* Taking a task out of the pending set.
LEMMA RemovePendingFacts ==
    ASSUME TypeOK, NEW t, RemovePending(t)
    PROVE  /\ IsZSet(pending', Tasks)
           /\ DOMAIN pending' = DOMAIN pending \ {t}
           /\ pendingExp' \in Nat
  BY ZRemFacts, Zenon DEF TypeOK, RemovePending, NoExpiry

\* The queue's own part of the type invariant and the accounting, without
\* the breaker's keys.
QueueTypeOK ==
    /\ IsZSet(pending, Tasks)
    /\ pendingExp \in Nat
    /\ IsZSet(running, Tasks)
    /\ limit \in Nat
    /\ limitExp \in Nat
    /\ op \in [Clients -> [pc : PCs, tasks : SUBSET Tasks, num : Nat]]
    /\ held \in [Clients -> SUBSET Tasks]
    /\ owed \in [Tasks -> Nat]
    /\ lastEnqueue \in Nat
    /\ DeliveredOncePerEnqueue

\* Every step of a client preserves the queue's types and accounting.
LEMMA ClientTypeStep ==
    ASSUME TypeInv, NEW c \in Clients, ClientStep(c)
    PROVE  QueueTypeOK'
  <1> USE QueueAssumption
      DEF TypeInv, TypeOK, CBTypeOK, QueueTypeOK, queueVars, clientVars,
          history, NoExpiry
  <1>1. ASSUME NEW t \in Tasks, NEW p \in Priorities, NEW d \in Delays,
               EnqueueCheck(c, t, p, d)
        PROVE  QueueTypeOK'
    <2>1. p * Scale + now + d \in Nat
      OBVIOUS
    <2>2. op' \in [Clients -> [pc : PCs, tasks : SUBSET Tasks, num : Nat]]
      <3>1. CASE Call(c, "enqueue", {t}, p * Scale + now + d)
        BY <3>1, <2>1, CallType, Zenon DEF PCs
      <3>2. CASE UNCHANGED op
        BY <3>2, Zenon
      <3> QED
        BY <1>1, <3>1, <3>2, Zenon DEF EnqueueCheck
    <2> QED
      BY <1>1, <2>2, Zenon DEF EnqueueCheck, DeliveredOncePerEnqueue
  <1>2. CASE EnqueueFull(c)
    BY <1>2, ReturnType, Zenon DEF EnqueueFull, DeliveredOncePerEnqueue
  <1>3. CASE EnqueueScript(c)
    <2>1. PICK t \in op[c].tasks, score \in Scores(op[c].num) :
             /\ pending' = ZAdd(pending, t, score)
             /\ owed' = [owed EXCEPT ![t] = @ + 1]
      BY <1>3, Zenon DEF EnqueueScript
    <2>2. t \in Tasks /\ score \in Nat
      BY ScoresType, Zenon
    <2>3. IsZSet(pending', Tasks) /\ DOMAIN pending' = DOMAIN pending \cup {t}
      <3>1. IsZSet(ZAdd(pending, t, score), Tasks)
        BY <2>2, ZAddFacts, Zenon
      <3>2. DOMAIN ZAdd(pending, t, score) = DOMAIN pending \cup {t}
        BY Zenon DEF ZAdd
      <3> QED
        BY <2>1, <3>1, <3>2, Zenon
    <2>4. owed' \in [Tasks -> Nat] /\ DeliveredOncePerEnqueue'
      BY <2>1, <2>2, <2>3 DEF DeliveredOncePerEnqueue, IsZSet
    <2>5. pendingExp' \in Nat /\ limitExp' \in Nat
      BY <1>3 DEF EnqueueScript, RenewExpiry
    <2> QED
      BY <1>3, <2>3, <2>4, <2>5, ReturnType, Zenon DEF EnqueueScript
  <1>4. CASE DequeueCheck(c)
    <2>1. op' \in [Clients -> [pc : PCs, tasks : SUBSET Tasks, num : Nat]]
      <3>1. CASE Call(c, "dequeue", {}, now)
        BY <3>1, CallType, Zenon DEF PCs
      <3>2. CASE UNCHANGED op
        BY <3>2, Zenon
      <3> QED
        BY <1>4, <3>1, <3>2, Zenon DEF DequeueCheck
    <2> QED
      BY <1>4, <2>1, Zenon DEF DequeueCheck, DeliveredOncePerEnqueue
  <1>5. CASE DequeueNil(c)
    BY <1>5, ReturnType, Zenon DEF DequeueNil, DeliveredOncePerEnqueue
  <1>6. CASE DequeueScript(c)
    <2>1. PICK ms \in ClockReads(op[c].num) : \E t \in NextReady(ms) :
             /\ RemovePending(t)
             /\ running' = ZAdd(running, t, ms)
             /\ held' = [held EXCEPT ![c] = @ \cup {t}]
             /\ owed' = [owed EXCEPT ![t] = @ - 1]
      BY <1>6, Zenon DEF DequeueScript
    <2>2. PICK t \in NextReady(ms) :
             /\ RemovePending(t)
             /\ running' = ZAdd(running, t, ms)
             /\ held' = [held EXCEPT ![c] = @ \cup {t}]
             /\ owed' = [owed EXCEPT ![t] = @ - 1]
      BY <2>1, Zenon
    <2>3. t \in Tasks /\ owed[t] > 0 /\ ms \in Nat
      BY NextReadyPending DEF IsZSet, DeliveredOncePerEnqueue, ClockReads
    <2>4. /\ IsZSet(pending', Tasks)
          /\ DOMAIN pending' = DOMAIN pending \ {t}
          /\ pendingExp' \in Nat
      BY <2>2, RemovePendingFacts, Zenon
    <2>5. IsZSet(running', Tasks)
      BY <2>2, <2>3, ZAddFacts, Zenon
    <2>6. owed' \in [Tasks -> Nat] /\ DeliveredOncePerEnqueue'
      BY <2>2, <2>3, <2>4 DEF DeliveredOncePerEnqueue, IsZSet
    <2>7. held' \in [Clients -> SUBSET Tasks]
      BY <2>2, <2>3, Zenon
    <2> QED
      BY <1>6, <2>4, <2>5, <2>6, <2>7, ReturnType, Zenon DEF DequeueScript
  <1>7. ASSUME NEW t \in Tasks, NEW pc \in {"success", "failure"}, Finish(c, t, pc)
        PROVE  QueueTypeOK'
    <2>1. IsZSet(running', Tasks)
      BY <1>7, ZRemFacts, Zenon DEF Finish
    <2>2. op' \in [Clients -> [pc : PCs, tasks : SUBSET Tasks, num : Nat]]
      <3>1. pc \in PCs /\ {} \in SUBSET Tasks /\ 0 \in Nat
        BY <1>7, Zenon DEF PCs
      <3> QED
        BY <1>7, <3>1, CallType, Zenon DEF Finish
    <2> QED
      BY <1>7, <2>1, <2>2, Zenon DEF Finish, DeliveredOncePerEnqueue
  <1>8. CASE CompleteRecord(c) \/ FailRecord(c)
    BY <1>8, ReturnType, Zenon DEF CompleteRecord, FailRecord, DeliveredOncePerEnqueue
  <1>9. ASSUME NEW t \in Tasks, ReleaseRunningSlot(c, t)
        PROVE  QueueTypeOK'
    <2>1. IsZSet(running', Tasks)
      BY <1>9, ZRemFacts, Zenon DEF ReleaseRunningSlot
    <2> QED
      BY <1>9, <2>1, Zenon DEF ReleaseRunningSlot, DeliveredOncePerEnqueue
  <1>10. CASE CleanupScan(c)
    <2>1. ZUpTo(running, now - MaxAge) \in SUBSET Tasks
      BY Zenon DEF ZUpTo, IsZSet
    <2>2. op' \in [Clients -> [pc : PCs, tasks : SUBSET Tasks, num : Nat]]
      <3>1. "cleanup" \in PCs /\ 0 \in Nat
        BY Zenon DEF PCs
      <3>2. Call(c, "cleanup", ZUpTo(running, now - MaxAge), 0)
        BY <1>10, Zenon DEF CleanupScan
      <3> QED
        BY <2>1, <3>1, <3>2, CallType, Zenon
    <2> QED
      BY <1>10, <2>2, Zenon DEF CleanupScan, DeliveredOncePerEnqueue
  <1>11. CASE CleanupRemove(c)
    <2>1. IsZSet(running', Tasks)
      BY <1>11, ZRemFacts, Zenon DEF CleanupRemove
    <2> QED
      BY <1>11, <2>1, ReturnType, Zenon DEF CleanupRemove, DeliveredOncePerEnqueue
  <1>12. CASE Crash(c)
    BY <1>12, ReturnType, Zenon DEF Crash, Return, DeliveredOncePerEnqueue
  <1> QED
    BY <1>1, <1>2, <1>3, <1>4, <1>5, <1>6, <1>7, <1>8, <1>9, <1>10, <1>11, <1>12, Zenon
    DEF ClientStep, Complete, Fail

\* Every step of the queue preserves the type invariant.
LEMMA TypeStep == TypeInv /\ [Next]_vars => TypeInv'
  <1> SUFFICES ASSUME TypeInv, [Next]_vars PROVE TypeInv'
    OBVIOUS
  <1>1. CBInv'
    BY BreakerStep, CBCheckStep, CBFailureStep, CBSuccessStep, CBTickStep,
       CBStutterStep, Zenon
    DEF CBNext, TypeInv
  <1>2. QueueTypeOK'
    <2> USE DEF TypeInv, TypeOK, CBTypeOK, QueueTypeOK, DeliveredOncePerEnqueue
    <2>1. CASE UNCHANGED vars
      BY <2>1, Zenon DEF vars, queueVars, clientVars, history
    <2>2. CASE Tick
      BY <2>2, EmptyZSetFacts, Zenon DEF Tick, clientVars, NoExpiry
    <2>3. CASE AdjustConcurrent \/ TryRecoverConcurrent
      BY <2>3, QueueAssumption
      DEF AdjustConcurrent, TryRecoverConcurrent, LoweredLimit, RaisedLimit,
          MaxConcurrent, clientVars, history
    <2>4. ASSUME NEW t \in Tasks, Cancel(t) PROVE QueueTypeOK'
      <3>1. CASE t \in DOMAIN pending /\ RemovePending(t) /\ UNCHANGED running
        BY <2>4, <3>1, RemovePendingFacts, Zenon DEF Cancel, clientVars, history
      <3>2. CASE /\ running' = ZRem(running, {t})
                 /\ UNCHANGED <<pending, pendingExp>>
        <4>1. IsZSet(running', Tasks)
          BY <3>2, ZRemFacts, Zenon
        <4> QED
          BY <2>4, <3>2, <4>1, Zenon DEF Cancel, clientVars, history
      <3> QED
        BY <2>4, <3>1, <3>2, Zenon DEF Cancel
    <2> HIDE DEF TypeInv, QueueTypeOK
    <2> QED
      BY <2>1, <2>2, <2>3, <2>4, ClientTypeStep, Zenon DEF Next
  <1> QED
    BY <1>1, <1>2, Zenon DEF TypeInv, CBInv, TypeOK, QueueTypeOK

\* The initial queue satisfies the type invariant.
LEMMA TypeInitial == Init => TypeInv
  <1> SUFFICES ASSUME Init PROVE TypeInv
    OBVIOUS
  <1>1. CBInv
    BY CBInitial, Zenon DEF Init
  <1>2. IsZSet(pending, Tasks) /\ IsZSet(running, Tasks) /\ DOMAIN pending = {}
    BY EmptyZSetFacts, Zenon DEF Init
  <1> QED
    BY <1>1, <1>2, Zenon
    DEF Init, TypeInv, CBInv, TypeOK, DeliveredOncePerEnqueue, Idle, PCs, NoExpiry

\* Types and accounting hold in every reachable state.
THEOREM TypeInvariance == Spec => []TypeInv
  BY TypeInitial, TypeStep, PTL DEF Spec

\* Type correctness of the queue, for all tasks, clients and limits.
THEOREM TypeCorrect == Spec => []TypeOK
  BY TypeInvariance, PTL DEF TypeInv

\* No interleaving of racing consumers, requeues, cancels, stale cleanups,
\* crashes and expiries makes an accepted enqueue be delivered twice.
THEOREM OneDeliveryPerEnqueue == Spec => []DeliveredOncePerEnqueue
  BY TypeInvariance, PTL DEF TypeInv

-----------------------------------------------------------------------------
(* The depth and the expiry of the pending set.                            *)

\* An enqueue that the script accepts.
Accepts ==
    /\ ~QueueFull
    /\ \E t \in Tasks, score \in Nat : pending' = ZAdd(pending, t, score)
    /\ pendingExp' = RenewExpiry(pendingExp, now, TTL)
    /\ lastEnqueue' = now
    /\ now' = now

\* All a step of the queue can do to the pending set: nothing, take a task
\* out, accept one, or let time pass.
LEMMA PendingChange ==
    ASSUME TypeInv, [Next]_vars
    PROVE  \/ UNCHANGED <<pending, pendingExp, lastEnqueue, now>>
           \/ \E t \in Tasks : RemovePending(t) /\ UNCHANGED <<lastEnqueue, now>>
           \/ Accepts
           \/ Tick
  <1> DEFINE Goal == \/ UNCHANGED <<pending, pendingExp, lastEnqueue, now>>
                     \/ \E t \in Tasks :
                           RemovePending(t) /\ UNCHANGED <<lastEnqueue, now>>
                     \/ Accepts
                     \/ Tick
  <1>1. CASE UNCHANGED vars
    BY <1>1, Zenon DEF vars, queueVars, history
  <1>2. CASE AdjustConcurrent \/ TryRecoverConcurrent
    BY <1>2, Zenon DEF AdjustConcurrent, TryRecoverConcurrent, history
  <1>3. ASSUME NEW t \in Tasks, Cancel(t) PROVE Goal
    BY <1>3, Zenon DEF Cancel, history
  <1>4. ASSUME NEW c \in Clients, ClientStep(c) PROVE Goal
    <2>1. CASE EnqueueScript(c)
      <3>1. PICK t \in op[c].tasks, score \in Scores(op[c].num) :
               pending' = ZAdd(pending, t, score)
        BY <2>1, Zenon DEF EnqueueScript
      <3>2. t \in Tasks /\ score \in Nat
        BY ScoresType, Zenon DEF TypeInv, TypeOK, CBTypeOK
      <3> QED
        BY <2>1, <3>1, <3>2, Zenon DEF EnqueueScript, Accepts
    <2>2. CASE DequeueScript(c)
      <3>1. PICK ms \in ClockReads(op[c].num) :
               \E t \in NextReady(ms) : RemovePending(t)
        BY <2>2, Zenon DEF DequeueScript
      <3>2. PICK t \in NextReady(ms) : RemovePending(t)
        BY <3>1, Zenon
      <3>3. t \in Tasks
        BY NextReadyPending, Zenon DEF TypeInv, TypeOK, IsZSet
      <3> QED
        BY <2>2, <3>2, <3>3, Zenon DEF DequeueScript
    <2>3. ASSUME NEW t \in Tasks, NEW p \in Priorities, NEW d \in Delays,
                 EnqueueCheck(c, t, p, d)
          PROVE  Goal
      BY <2>3, Zenon DEF EnqueueCheck, queueVars, history
    <2>4. CASE EnqueueFull(c) \/ DequeueCheck(c) \/ DequeueNil(c)
      BY <2>4, Zenon DEF EnqueueFull, DequeueCheck, DequeueNil, queueVars, history
    <2>5. CASE CompleteRecord(c) \/ FailRecord(c) \/ Crash(c)
      BY <2>5, Zenon DEF CompleteRecord, FailRecord, Crash, queueVars, history
    <2>6. CASE CleanupScan(c) \/ CleanupRemove(c)
      BY <2>6, Zenon DEF CleanupScan, CleanupRemove, queueVars, history
    <2>7. ASSUME NEW t \in Tasks, Complete(c, t) \/ Fail(c, t) \/ ReleaseRunningSlot(c, t)
          PROVE  Goal
      BY <2>7, Zenon DEF Complete, Fail, Finish, ReleaseRunningSlot, history
    <2> QED
      BY <1>4, <2>1, <2>2, <2>3, <2>4, <2>5, <2>6, <2>7, Zenon DEF ClientStep
  <1> QED
    BY <1>1, <1>2, <1>3, <1>4, Zenon DEF Next

\* The depth bound is inductive given the types.
LEMMA DepthStep ==
    TypeInv /\ WithinDepth /\ [Next]_vars => WithinDepth'
  <1> SUFFICES ASSUME TypeInv, WithinDepth, [Next]_vars PROVE WithinDepth'
    OBVIOUS
  <1> USE QueueAssumption
  <1>0. IsZSet(pending, Tasks)
    BY Zenon DEF TypeInv, TypeOK
  <1>1. CASE UNCHANGED pending
    BY <1>1, Zenon DEF WithinDepth, ZCard
  <1>2. ASSUME NEW t \in Tasks, RemovePending(t) PROVE WithinDepth'
    <2>1. ZCard(ZRem(pending, {t})) <= ZCard(pending) /\ ZCard(ZRem(pending, {t})) \in Nat
      BY <1>0, ZRemCard, Zenon
    <2>2. ZCard(pending) \in Nat
      BY <1>0, FS_Subset, FS_CardinalityType, Zenon DEF IsZSet, ZCard
    <2>3. ZCard(pending') = ZCard(ZRem(pending, {t}))
      BY <1>2, Zenon DEF RemovePending
    <2> QED
      BY <2>1, <2>2, <2>3 DEF WithinDepth
  <1>3. CASE Accepts
    <2>1. PICK t \in Tasks, score \in Nat : pending' = ZAdd(pending, t, score)
      BY <1>3, Zenon DEF Accepts
    <2>2. ZCard(ZAdd(pending, t, score)) <= ZCard(pending) + 1 /\ ZCard(pending) \in Nat
      BY <1>0, ZAddCard, Zenon
    <2>3. ZCard(pending) < DefaultDepth
      BY <1>3, <2>2 DEF Accepts, QueueFull
    <2>4. ZCard(pending') \in Nat
      <3>1. IsZSet(ZAdd(pending, t, score), Tasks)
        BY <1>0, ZAddFacts, Zenon
      <3> QED
        BY <2>1, <3>1, FS_Subset, FS_CardinalityType, Zenon DEF IsZSet, ZCard
    <2> QED
      BY <2>1, <2>2, <2>3, <2>4 DEF WithinDepth
  <1>4. CASE Tick
    <2>1. CASE pending' = EmptyZSet
      BY <2>1, EmptyZSetFacts, FS_EmptySet DEF WithinDepth, ZCard
    <2> QED
      BY <1>1, <1>4, <2>1, Zenon DEF Tick
  <1> QED
    BY <1>1, <1>2, <1>3, <1>4, PendingChange, Zenon

\* enqueue keeps the pending set within max_queue_depth, for every depth.
THEOREM DepthBound == Spec => []WithinDepth
  <1>1. Init => WithinDepth
    BY EmptyZSetFacts, FS_EmptySet, QueueAssumption DEF Init, WithinDepth, ZCard
  <1> QED
    BY <1>1, DepthStep, TypeInvariance, PTL DEF Spec

\* PendingKeptHalfTTL needs that the last enqueue is not in the future.
ExpiryInv == PendingKeptHalfTTL /\ lastEnqueue <= now

\* Every step preserves the expiry invariant.
LEMMA ExpiryStep == TypeInv /\ ExpiryInv /\ [Next]_vars => ExpiryInv'
  <1> SUFFICES ASSUME TypeInv, ExpiryInv, [Next]_vars PROVE ExpiryInv'
    OBVIOUS
  <1> USE QueueAssumption
      DEF ExpiryInv, PendingKeptHalfTTL, TypeInv, TypeOK, CBTypeOK, NoExpiry
  <1>1. CASE UNCHANGED <<pending, pendingExp, lastEnqueue, now>>
    BY <1>1, Zenon
  <1>2. ASSUME NEW t \in Tasks, RemovePending(t), UNCHANGED <<lastEnqueue, now>>
        PROVE  ExpiryInv'
    <2>1. DOMAIN pending' = DOMAIN pending \ {t}
      BY <1>2, RemovePendingFacts, Zenon
    <2>2. CASE DOMAIN pending = {t}
      BY <1>2, <2>1, <2>2, Zenon
    <2>3. CASE DOMAIN pending # {t}
      BY <1>2, <2>1, <2>3, Zenon DEF RemovePending
    <2> QED
      BY <2>2, <2>3, Zenon
  <1>3. CASE Accepts
    BY <1>3, RenewedHalf DEF Accepts
  <1>4. CASE Tick
    <2>1. CASE Expired(pendingExp, now + 1)
      <3>1. pending' = EmptyZSet /\ lastEnqueue' = lastEnqueue /\ now' = now + 1
        BY <1>4, <2>1, Zenon DEF Tick, CBTick
      <3>2. DOMAIN pending' = {}
        BY <3>1, EmptyZSetFacts, Zenon
      <3> QED
        BY <3>1, <3>2
    <2>2. CASE ~Expired(pendingExp, now + 1)
      <3>1. pending' = pending /\ pendingExp' = pendingExp /\ lastEnqueue' = lastEnqueue
        BY <1>4, <2>2, Zenon DEF Tick
      <3>2. now' = now + 1 /\ (pendingExp = 0 \/ now + 1 < pendingExp)
        BY <1>4, <2>2 DEF Tick, CBTick, Expired
      <3> QED
        BY <3>1, <3>2
    <2> QED
      BY <2>1, <2>2, Zenon
  <1> QED
    BY <1>1, <1>2, <1>3, <1>4, PendingChange, Zenon

\* After the last accepted enqueue the pending set lives at least TTL / 2,
\* for every TTL: the refresh below half never lets an expiry slip through.
THEOREM PendingKept == Spec => []PendingKeptHalfTTL
  <1>1. Init => ExpiryInv
    BY EmptyZSetFacts DEF Init, CBInit, ExpiryInv, PendingKeptHalfTTL
  <1>2. ExpiryInv => PendingKeptHalfTTL
    BY Zenon DEF ExpiryInv
  <1> QED
    BY <1>1, <1>2, ExpiryStep, TypeInvariance, PTL DEF Spec

-----------------------------------------------------------------------------
(* The running set and the concurrency limit.                              *)

\* The stored limit never passes the baseline; 0 stands for no field.
LimitInv == limit <= DefaultMC

\* All a step can do to the running set and the limit.
LEMMA RunningChange ==
    ASSUME TypeInv, [Next]_vars
    PROVE  \/ /\ UNCHANGED running
              /\ limit' \in {limit, 0, LoweredLimit, RaisedLimit}
           \/ \E M : running' = ZRem(running, M) /\ limit' = limit
           \/ /\ ~AtCapacity
              /\ \E t \in Tasks, ms \in Nat : running' = ZAdd(running, t, ms)
              /\ limit' = limit
  <1> DEFINE Goal ==
           \/ /\ UNCHANGED running
              /\ limit' \in {limit, 0, LoweredLimit, RaisedLimit}
           \/ \E M : running' = ZRem(running, M) /\ limit' = limit
           \/ /\ ~AtCapacity
              /\ \E t \in Tasks, ms \in Nat : running' = ZAdd(running, t, ms)
              /\ limit' = limit
  <1>1. CASE UNCHANGED vars
    BY <1>1, Zenon DEF vars, queueVars
  <1>2. CASE AdjustConcurrent \/ TryRecoverConcurrent
    BY <1>2, Zenon DEF AdjustConcurrent, TryRecoverConcurrent
  <1>3. ASSUME NEW t \in Tasks, Cancel(t) PROVE Goal
    BY <1>3, Zenon DEF Cancel
  <1>4. CASE Tick
    BY <1>4, Zenon DEF Tick
  <1>5. ASSUME NEW c \in Clients, ClientStep(c) PROVE Goal
    <2>1. CASE DequeueScript(c)
      <3>1. PICK ms \in ClockReads(op[c].num) :
               \E t \in NextReady(ms) : running' = ZAdd(running, t, ms)
        BY <2>1, Zenon DEF DequeueScript
      <3>2. PICK t \in NextReady(ms) : running' = ZAdd(running, t, ms)
        BY <3>1, Zenon
      <3>3. t \in Tasks /\ ms \in Nat
        BY NextReadyPending DEF TypeInv, TypeOK, CBTypeOK, IsZSet, ClockReads
      <3> QED
        BY <2>1, <3>2, <3>3, Zenon DEF DequeueScript
    <2>2. ASSUME NEW t \in Tasks, NEW p \in Priorities, NEW d \in Delays,
                 EnqueueCheck(c, t, p, d)
          PROVE  Goal
      BY <2>2, Zenon DEF EnqueueCheck, queueVars
    <2>3. CASE EnqueueFull(c) \/ EnqueueScript(c) \/ DequeueCheck(c) \/ DequeueNil(c)
      BY <2>3, Zenon DEF EnqueueFull, EnqueueScript, DequeueCheck, DequeueNil, queueVars
    <2>4. CASE CompleteRecord(c) \/ FailRecord(c) \/ Crash(c) \/ CleanupScan(c)
      BY <2>4, Zenon DEF CompleteRecord, FailRecord, Crash, CleanupScan, queueVars
    <2>5. CASE CleanupRemove(c)
      BY <2>5, Zenon DEF CleanupRemove
    <2>6. ASSUME NEW t \in Tasks, Complete(c, t) \/ Fail(c, t) \/ ReleaseRunningSlot(c, t)
          PROVE  Goal
      BY <2>6, Zenon DEF Complete, Fail, Finish, ReleaseRunningSlot
    <2> QED
      BY <1>5, <2>1, <2>2, <2>3, <2>4, <2>5, <2>6, Zenon DEF ClientStep
  <1> QED
    BY <1>1, <1>2, <1>3, <1>4, <1>5, Zenon DEF Next

\* The limit stays within the baseline.
LEMMA LimitStep == TypeInv /\ LimitInv /\ [Next]_vars => LimitInv'
  <1> SUFFICES ASSUME TypeInv, LimitInv, [Next]_vars PROVE LimitInv'
    OBVIOUS
  <1>1. limit' \in {limit, 0, LoweredLimit, RaisedLimit}
    BY RunningChange, Zenon
  <1> QED
    BY <1>1, QueueAssumption
    DEF LimitInv, LoweredLimit, RaisedLimit, MaxConcurrent, TypeInv, TypeOK

\* The running set stays within the baseline: a dequeue only adds below the
\* limit of that moment, which is itself within the baseline.
LEMMA RunningStep ==
    TypeInv /\ LimitInv /\ RunningWithinBaseline /\ [Next]_vars
       => RunningWithinBaseline'
  <1> SUFFICES ASSUME TypeInv, LimitInv, RunningWithinBaseline, [Next]_vars
               PROVE  RunningWithinBaseline'
    OBVIOUS
  <1> USE QueueAssumption
  <1>0. IsZSet(running, Tasks) /\ limit \in Nat
    BY Zenon DEF TypeInv, TypeOK
  <1>1. ZCard(running) \in Nat
    BY <1>0, FS_Subset, FS_CardinalityType, Zenon DEF IsZSet, ZCard
  <1>2. CASE UNCHANGED running
    BY <1>2, Zenon DEF RunningWithinBaseline, ZCard
  <1>3. ASSUME NEW M, running' = ZRem(running, M) PROVE RunningWithinBaseline'
    <2>1. ZCard(ZRem(running, M)) <= ZCard(running) /\ ZCard(ZRem(running, M)) \in Nat
      BY <1>0, ZRemCard, Zenon
    <2> QED
      BY <1>1, <1>3, <2>1 DEF RunningWithinBaseline
  <1>4. ASSUME ~AtCapacity, NEW t \in Tasks, NEW ms \in Nat,
               running' = ZAdd(running, t, ms)
        PROVE  RunningWithinBaseline'
    <2>1. ZCard(ZAdd(running, t, ms)) <= ZCard(running) + 1
      BY <1>0, ZAddCard, Zenon
    <2>2. ZCard(running) < DefaultMC
      BY <1>0, <1>1, <1>4 DEF AtCapacity, MaxConcurrent, LimitInv
    <2>3. ZCard(running') \in Nat
      <3>1. IsZSet(ZAdd(running, t, ms), Tasks)
        BY <1>0, ZAddFacts, Zenon
      <3> QED
        BY <1>4, <3>1, FS_Subset, FS_CardinalityType, Zenon DEF IsZSet, ZCard
    <2> QED
      BY <1>1, <1>4, <2>1, <2>2, <2>3 DEF RunningWithinBaseline
  <1> QED
    BY <1>2, <1>3, <1>4, RunningChange, Zenon

\* Back-pressure keeps max_concurrent between one and the baseline.
THEOREM LimitRange == Spec => []LimitInRange
  <1>1. Init => LimitInv
    BY QueueAssumption DEF Init, LimitInv
  <1>2. TypeInv /\ LimitInv => LimitInRange
    BY QueueAssumption DEF TypeInv, TypeOK, LimitInv, LimitInRange, MaxConcurrent
  <1> QED
    BY <1>1, <1>2, LimitStep, TypeInvariance, PTL DEF Spec

\* The running set never exceeds the baseline concurrency, however the limit
\* moves and whichever entries cancel, cleanup and completions remove.
THEOREM RunningBound == Spec => []RunningWithinBaseline
  <1>1. Init => LimitInv /\ RunningWithinBaseline
    BY EmptyZSetFacts, FS_EmptySet, QueueAssumption
    DEF Init, LimitInv, RunningWithinBaseline, ZCard
  <1> QED
    BY <1>1, LimitStep, RunningStep, TypeInvariance, PTL DEF Spec

-----------------------------------------------------------------------------
(* The order of delivery.                                                  *)

\* Scores order tasks by priority rank first and by ready time second.
LEMMA ScoreOrder ==
    ASSUME NEW a \in Nat, NEW b \in Nat, a <= b
    PROVE  \/ a \div Scale < b \div Scale
           \/ /\ a \div Scale = b \div Scale
              /\ ReadyTime(a) <= ReadyTime(b)
  <1> DEFINE qa == a \div Scale
             qb == b \div Scale
             ra == a % Scale
             rb == b % Scale
  <1>1. /\ Scale \in Nat /\ Scale > 0
        /\ qa \in Nat /\ qb \in Nat
        /\ ra \in 0 .. Scale - 1 /\ rb \in 0 .. Scale - 1
    BY QueueAssumption
  <1>2. a = Scale * qa + ra /\ b = Scale * qb + rb
    BY QueueAssumption
  <1>3. CASE qb < qa
    <2> HIDE DEF qa, qb, ra, rb
    <2>1. PICK k \in Nat : qa = qb + 1 + k
      <3>1. qa - qb - 1 \in Nat /\ qa = qb + 1 + (qa - qb - 1)
        BY <1>1, <1>3
      <3> QED
        BY <3>1, Zenon
    <2>2. Scale * qa = Scale * qb + Scale + Scale * k /\ Scale * k \in Nat
      BY <1>1, <2>1
    <2> QED
      BY <1>1, <1>2, <2>1, <2>2
  <1>4. CASE qa = qb
    <2> HIDE DEF qa, qb, ra, rb
    <2>1. ra <= rb
      BY <1>1, <1>2, <1>4
    <2> QED
      BY <2>1, <1>4, Zenon DEF qa, qb, ra, rb, ReadyTime
  <1> QED
    BY <1>1, <1>3, <1>4

\* A pending task outside the scanned prefix has a higher score than one
\* inside it: fewer tasks precede the latter.
LEMMA UnscannedIsLater ==
    ASSUME TypeOK, NEW t \in DOMAIN pending, NEW u \in DOMAIN pending,
           Scanned(t), ~Scanned(u)
    PROVE  pending[t] <= pending[u]
  <1> DEFINE Before(v) == {w \in DOMAIN pending : pending[w] < pending[v]}
  <1>1. pending[t] \in Nat /\ pending[u] \in Nat
    BY Zenon DEF TypeOK, IsZSet
  <1>2. IsFiniteSet(DOMAIN pending)
    BY FS_Subset, QueueAssumption, Zenon DEF TypeOK, IsZSet
  <1>3. IsFiniteSet(Before(t)) /\ IsFiniteSet(Before(u))
    BY <1>2, FS_Subset, Zenon
  <1>4. ASSUME pending[u] < pending[t] PROVE FALSE
    <2>1. Before(u) \subseteq Before(t)
      BY <1>1, <1>4 DEF TypeOK, IsZSet
    <2>2. Cardinality(Before(u)) <= Cardinality(Before(t))
      BY <1>3, <2>1, FS_Subset, Zenon
    <2>3. Cardinality(Before(u)) \in Nat /\ Cardinality(Before(t)) \in Nat
      BY <1>3, FS_CardinalityType, Zenon
    <2>4. Cardinality(Before(t)) < ScanLimit /\ ~(Cardinality(Before(u)) < ScanLimit)
      BY Zenon DEF Scanned
    <2> QED
      BY <2>2, <2>3, <2>4, QueueAssumption
  <1> QED
    BY <1>1, <1>4

\* A step in which client c's script hands out t hands out a task that was
\* ready at a time the clock showed during the call, with the lowest score
\* of all tasks ready when the call began.
LEMMA DeliveryFacts ==
    ASSUME TypeInv, Next, NEW c \in Clients, NEW t \in DOMAIN pending,
           Delivers(c, t)
    PROVE  /\ ReadyTime(pending[t]) <= now
           /\ \A u \in DOMAIN pending :
                 ReadyTime(pending[u]) <= op[c].num => pending[t] <= pending[u]
  <1> USE DEF TypeInv, TypeOK, CBTypeOK
  <1>1. DequeueScript(c)
    <2>1. pending' # pending
      BY Zenon DEF Delivers
    <2>2. op'[c] # op[c]
      BY SMTT(30) DEF Delivers, Idle
    <2>3. ASSUME NEW e \in Clients, ClientStep(e)
          PROVE  DequeueScript(c)
      <3>1. e = c
        <4>1. CASE UNCHANGED op
          BY <2>2, <4>1, Zenon
        <4>2. CASE Return(e)
          BY <2>2, <4>2, Zenon DEF Return
        <4>3. ASSUME NEW pc, NEW ts, NEW n, Call(e, pc, ts, n) PROVE e = c
          BY <2>2, <4>3, Zenon DEF Call
        <4> QED
          BY <2>3, <4>1, <4>2, <4>3, Zenon
          DEF ClientStep, EnqueueCheck, EnqueueFull, EnqueueScript,
              DequeueCheck, DequeueNil, DequeueScript, Complete, Fail, Finish,
              CompleteRecord, FailRecord, ReleaseRunningSlot, CleanupScan,
              CleanupRemove, Crash, Return
      <3>2. op[c].pc = "dequeue"
        BY Zenon DEF Delivers
      <3> QED
        BY <2>1, <2>3, <3>1, <3>2, Zenon
        DEF ClientStep, EnqueueCheck, EnqueueFull, EnqueueScript, DequeueCheck,
            DequeueNil, Complete, Fail, Finish, CompleteRecord, FailRecord,
            ReleaseRunningSlot, CleanupScan, CleanupRemove, Crash, queueVars
    <2>4. ~Tick /\ ~AdjustConcurrent /\ ~TryRecoverConcurrent
      BY <2>2, Zenon DEF Tick, AdjustConcurrent, TryRecoverConcurrent, clientVars
    <2>5. ASSUME NEW v \in Tasks PROVE ~Cancel(v)
      BY <2>2, Zenon DEF Cancel, clientVars
    <2> QED
      BY <2>3, <2>4, <2>5, Zenon DEF Next
  <1>2. PICK ms \in ClockReads(op[c].num) : \E v \in NextReady(ms) : RemovePending(v)
    BY <1>1, Zenon DEF DequeueScript
  <1>3. PICK v \in NextReady(ms) : RemovePending(v)
    BY <1>2, Zenon
  <1>4. v = t
    BY <1>3, RemovePendingFacts, Zenon DEF Delivers
  <1>5. ms \in Nat /\ op[c].num <= ms /\ ms <= now /\ op[c].num \in Nat
    BY DEF ClockReads
  <1>6. /\ Scanned(t)
        /\ ReadyTime(pending[t]) <= ms
        /\ \A u \in ReadyCandidates(ms) : pending[t] <= pending[u]
    BY <1>4, NextReadyPending, Zenon
  <1>7. \A u \in DOMAIN pending : pending[u] \in Nat /\ ReadyTime(pending[u]) \in Nat
    BY QueueAssumption DEF IsZSet, ReadyTime
  <1>8. ReadyTime(pending[t]) <= now
    BY <1>5, <1>6, <1>7
  <1>9. ASSUME NEW u \in DOMAIN pending, ReadyTime(pending[u]) <= op[c].num
        PROVE  pending[t] <= pending[u]
    <2>1. ReadyTime(pending[u]) <= ms
      BY <1>5, <1>7, <1>9
    <2>2. CASE Scanned(u)
      BY <1>6, <2>1, <2>2, Zenon DEF ReadyCandidates
    <2>3. CASE ~Scanned(u)
      BY <1>6, <2>3, UnscannedIsLater, Zenon
    <2> QED
      BY <2>2, <2>3, Zenon
  <1> QED
    BY <1>8, <1>9, Zenon

\* dequeue_ready never hands out a task before its time, and never out of
\* order: no pending task that was ready when the call began has a better
\* rank, or the same rank and an earlier time, whatever the scan limit.
THEOREM DeliveryOrder == Spec => ReadyAndFirst
  <1> DEFINE Ordered(c, t) ==
         /\ ReadyTime(pending[t]) <= now
         /\ \A u \in DOMAIN pending :
               ReadyTime(pending[u]) <= op[c].num =>
                  \/ pending[t] \div Scale < pending[u] \div Scale
                  \/ /\ pending[t] \div Scale = pending[u] \div Scale
                     /\ ReadyTime(pending[t]) <= ReadyTime(pending[u])
      Step == \A c \in Clients : \A t \in DOMAIN pending :
                 Delivers(c, t) => Ordered(c, t)
  <1>1. TypeInv /\ [Next]_vars => [Step]_vars
    <2> SUFFICES ASSUME TypeInv, Next, NEW c \in Clients,
                        NEW t \in DOMAIN pending, Delivers(c, t)
                 PROVE  Ordered(c, t)
      OBVIOUS
    <2>1. \A u \in DOMAIN pending : pending[u] \in Nat
      BY Zenon DEF TypeInv, TypeOK, IsZSet
    <2>2. ReadyTime(pending[t]) <= now
      BY DeliveryFacts, Zenon
    <2>3. ASSUME NEW u \in DOMAIN pending, ReadyTime(pending[u]) <= op[c].num
          PROVE  \/ pending[t] \div Scale < pending[u] \div Scale
                 \/ /\ pending[t] \div Scale = pending[u] \div Scale
                    /\ ReadyTime(pending[t]) <= ReadyTime(pending[u])
      <3>1. pending[t] <= pending[u]
        BY <2>3, DeliveryFacts, Zenon
      <3> QED
        BY <2>1, <3>1, ScoreOrder, Zenon
    <2> QED
      BY <2>2, <2>3, Zenon
  <1> QED
    BY <1>1, TypeInvariance, PTL DEF Spec, ReadyAndFirst

-----------------------------------------------------------------------------
(* The slots.  Steps shorter than half of the TTL and than max_age_seconds *)
(* never exceed the concurrency limit, for any number of steps, slots,     *)
(* crashes and cleanups.  The limit bounds the sorted set; that it also    *)
(* bounds the steps needs every living holder to keep its entry, and that  *)
(* in turn needs the expiry of the set to lie beyond the end of every      *)
(* holder, and the stale entries a cleanup carries from its scan to its    *)
(* removal to belong to steps that are over.                               *)

\* The stored limit and the size of the set are within the default.
SizeInv ==
    /\ slotLimit <= SlotDefault
    /\ ZCard(slots) <= SlotDefault

\* Steps keep to their time.
TimeInv ==
    \A s \in SlotIds : stage[s] \in {"asking", "holding"} =>
       since[s] <= slotNow /\ slotNow <= since[s] + MaxHold

\* A holder has its entry, and the set outlives the holder.
HolderInv ==
    \A s \in SlotIds : stage[s] = "holding" =>
       s \in DOMAIN slots /\ since[s] + MaxHold < slotsExp

\* Entries carry the time of their acquirer, which has acquired.
EntryInv ==
    \A s \in DOMAIN slots : stage[s] \in {"holding", "over"} /\ slots[s] = since[s]

\* What a cleanup is about to remove belongs to nobody.
BatchInv == \A s \in batch : stage[s] = "over"

\* The inductive invariant.
SlotInv == SlotsTypeOK /\ SizeInv /\ TimeInv /\ HolderInv /\ EntryInv /\ BatchInv

\* Every step keeps the types.
LEMMA SlotTypeStep ==
    ASSUME SlotsTypeOK, [SlotsNext]_slotVars
    PROVE  SlotsTypeOK'
  <1> USE SlotAssumption DEF SlotsTypeOK, redisVars, NoExpiry, Stages
  <1>1. CASE UNCHANGED slotVars
    BY <1>1, Zenon DEF slotVars
  <1>2. ASSUME NEW s \in SlotIds, ReadClock(s) PROVE SlotsTypeOK'
    BY <1>2, Zenon DEF ReadClock
  <1>3. ASSUME NEW s \in SlotIds, ReleaseSlot(s) PROVE SlotsTypeOK'
    BY <1>3, ZRemFacts, Zenon DEF ReleaseSlot, RemoveSlots
  <1>4. ASSUME NEW s \in SlotIds, StepDies(s) PROVE SlotsTypeOK'
    BY <1>4, Zenon DEF StepDies
  <1>5. ASSUME NEW s \in SlotIds, NEW mc \in Limits, AcquireFull(s, mc) PROVE SlotsTypeOK'
    BY <1>5, Zenon DEF AcquireFull
  <1>6. ASSUME NEW s \in SlotIds, NEW mc \in Limits, AcquireSlot(s, mc) PROVE SlotsTypeOK'
    <2>1. IsZSet(ZAdd(slots, s, since[s]), SlotIds)
      BY ZAddFacts, Zenon
    <2>2. slotsExp' \in Nat /\ slotLimitExp' \in Nat
      BY <1>6, RenewedHalf DEF AcquireSlot, RenewSlots
    <2> QED
      BY <1>6, <2>1, <2>2, Zenon DEF AcquireSlot
  <1>7. CASE AdjustSlotLimit
    BY <1>7 DEF AdjustSlotLimit, SlotMax
  <1>8. CASE ScanSlots
    BY <1>8, Zenon DEF ScanSlots, Stale, ZUpTo, IsZSet
  <1>9. CASE RemoveStale
    BY <1>9, ZRemFacts, Zenon DEF RemoveStale, RemoveSlots
  <1>10. CASE SlotTick
    BY <1>10, EmptyZSetFacts DEF SlotTick
  <1> QED
    BY <1>1, <1>2, <1>3, <1>4, <1>5, <1>6, <1>7, <1>8, <1>9, <1>10, Zenon DEF SlotsNext

\* The slots and the steps keep their types, also when steps outlive the TTL.
THEOREM SlotTypeCorrect == SlotsSpec => []SlotsTypeOK
  <1>1. SlotsInit => SlotsTypeOK
    BY EmptyZSetFacts, SlotAssumption DEF SlotsInit, SlotsTypeOK, Stages, NoExpiry
  <1>2. SlotsTypeOK /\ [SlotsNext]_slotVars => SlotsTypeOK'
    BY SlotTypeStep, Zenon
  <1> QED
    BY <1>1, <1>2, PTL DEF SlotsSpec

\* Every step keeps the set within the limit.
LEMMA SlotSizeStep ==
    ASSUME SlotsTypeOK, SizeInv, [SlotsNext]_slotVars
    PROVE  SizeInv'
  <1> USE SlotAssumption DEF SlotsTypeOK, SizeInv, redisVars
  <1>0. ZCard(slots) \in Nat
    BY ZCardType, Zenon
  <1>1. ASSUME UNCHANGED <<slots, slotLimit>> PROVE SizeInv'
    BY <1>1, Zenon DEF ZCard
  <1>2. ASSUME NEW S, RemoveSlots(S), UNCHANGED slotLimit PROVE SizeInv'
    <2>1. ZCard(ZRem(slots, S)) <= ZCard(slots) /\ ZCard(ZRem(slots, S)) \in Nat
      BY ZRemCard, Zenon
    <2> QED
      BY <1>0, <1>2, <2>1 DEF RemoveSlots
  <1>3. ASSUME NEW s \in SlotIds, NEW mc \in Limits, AcquireSlot(s, mc) PROVE SizeInv'
    <2>1. ZCard(ZAdd(slots, s, since[s])) <= ZCard(slots) + 1
      BY ZAddCard, Zenon
    <2>2. ZCard(slots) < SlotDefault
      BY <1>0, <1>3 DEF AcquireSlot, SlotMax
    <2>3. ZCard(ZAdd(slots, s, since[s])) \in Nat
      <3>1. IsZSet(ZAdd(slots, s, since[s]), SlotIds)
        BY ZAddFacts, Zenon
      <3> QED
        BY <3>1, ZCardType, Zenon
    <2> QED
      BY <1>0, <1>3, <2>1, <2>2, <2>3 DEF AcquireSlot
  <1>4. CASE AdjustSlotLimit
    BY <1>4 DEF AdjustSlotLimit, SlotMax, ZCard
  <1>5. CASE SlotTick
    <2>1. slotLimit' <= SlotDefault
      BY <1>5 DEF SlotTick
    <2>2. ZCard(slots') <= SlotDefault
      <3>1. CASE slots' = EmptyZSet
        BY <3>1, EmptyZSetFacts, FS_EmptySet DEF ZCard
      <3>2. CASE slots' = slots
        BY <3>2, Zenon DEF ZCard
      <3> QED
        BY <1>5, <3>1, <3>2, Zenon DEF SlotTick
    <2> QED
      BY <2>1, <2>2, Zenon
  <1> QED
    BY <1>1, <1>2, <1>3, <1>4, <1>5, Zenon
    DEF SlotsNext, slotVars, ReadClock, ReleaseSlot, StepDies, AcquireFull, ScanSlots,
        RemoveStale

\* Half of the TTL is longer than a short step.
LEMMA HoldEndsBefore ==
    ASSUME ShortSteps, NEW a \in Nat, NEW t \in Nat, NEW e \in Nat,
           a <= t, 2 * (e - t) >= SlotTTL
    PROVE  a + MaxHold < e
  BY SlotAssumption DEF ShortSteps

\* Every step keeps the steps' times, the holders' entries and what belongs
\* to whom, when steps are short.
LEMMA SlotHolderStep ==
    ASSUME ShortSteps, SlotInv, [SlotsNext]_slotVars
    PROVE  TimeInv' /\ HolderInv' /\ EntryInv' /\ BatchInv'
  <1> USE SlotAssumption
      DEF SlotInv, SlotsTypeOK, TimeInv, HolderInv, EntryInv, BatchInv, redisVars,
          Stages, NoExpiry
  <1>1. CASE UNCHANGED slotVars
    BY <1>1, Zenon DEF slotVars
  <1>2. ASSUME NEW s \in SlotIds, ReadClock(s)
        PROVE  TimeInv' /\ HolderInv' /\ EntryInv' /\ BatchInv'
    <2>1. s \notin DOMAIN slots /\ s \notin batch
      BY <1>2, Zenon DEF ReadClock
    <2> QED
      BY <1>2, <2>1 DEF ReadClock, IsZSet
  <1>3. ASSUME NEW s \in SlotIds, ReleaseSlot(s)
        PROVE  TimeInv' /\ HolderInv' /\ EntryInv' /\ BatchInv'
    <2>1. DOMAIN slots' = DOMAIN slots \ {s} /\ \A u \in DOMAIN slots' : slots'[u] = slots[u]
      BY <1>3, Zenon DEF ReleaseSlot, RemoveSlots, ZRem
    <2>2. HolderInv'
      BY <1>3, <2>1, Zenon DEF ReleaseSlot, RemoveSlots
    <2> QED
      BY <1>3, <2>1, <2>2, Zenon DEF ReleaseSlot, IsZSet
  <1>4. ASSUME NEW s \in SlotIds,
               StepDies(s) \/ \E mc \in Limits : AcquireFull(s, mc)
        PROVE  TimeInv' /\ HolderInv' /\ EntryInv' /\ BatchInv'
    <2>1. CASE stage[s] = "asking"
      <3>1. s \notin DOMAIN slots
        BY <2>1, Zenon
      <3> QED
        BY <1>4, <2>1, <3>1 DEF StepDies, AcquireFull, IsZSet
    <2>2. CASE stage[s] = "holding"
      BY <1>4, <2>2 DEF StepDies, AcquireFull, IsZSet
    <2> QED
      BY <1>4, <2>1, <2>2, Zenon DEF StepDies, AcquireFull
  <1>5. ASSUME NEW s \in SlotIds, NEW mc \in Limits, AcquireSlot(s, mc)
        PROVE  TimeInv' /\ HolderInv' /\ EntryInv' /\ BatchInv'
    <2>1. /\ DOMAIN slots' = DOMAIN slots \cup {s}
          /\ slots'[s] = since[s]
          /\ \A u \in DOMAIN slots : u # s => slots'[u] = slots[u]
      BY <1>5, Zenon DEF AcquireSlot, ZAdd
    <2>2. /\ slotsExp' \in Nat
          /\ slotsExp <= slotsExp'
          /\ 2 * (slotsExp' - slotNow) >= SlotTTL
      BY <1>5 DEF AcquireSlot, RenewSlots, RenewExpiry
    <2>3. since[s] + MaxHold < slotsExp'
      <3>1. since[s] <= slotNow /\ since[s] \in Nat /\ slotNow \in Nat
        BY <1>5, Zenon DEF AcquireSlot
      <3> QED
        BY <2>2, <3>1, HoldEndsBefore, Zenon
    <2>4. stage' = [stage EXCEPT ![s] = "holding"] /\ UNCHANGED <<slotNow, since, batch>>
      BY <1>5, Zenon DEF AcquireSlot
    <2>5. s \notin batch
      BY <1>5, Zenon DEF AcquireSlot
    <2>6. HolderInv'
      BY <2>1, <2>2, <2>3, <2>4
    <2> QED
      BY <1>5, <2>1, <2>4, <2>5, <2>6 DEF AcquireSlot, IsZSet
  <1>6. CASE AdjustSlotLimit
    BY <1>6, Zenon DEF AdjustSlotLimit
  <1>7. CASE ScanSlots
    <2>1. ASSUME NEW s \in Stale PROVE stage[s] = "over"
      <3>1. s \in DOMAIN slots /\ since[s] <= slotNow - SlotMaxAge /\ s \in SlotIds
        BY Zenon DEF Stale, ZUpTo, IsZSet
      <3> QED
        BY <1>7, <3>1 DEF ScanSlots, ShortSteps
    <2> QED
      BY <1>7, <2>1, Zenon DEF ScanSlots
  <1>8. CASE RemoveStale
    <2>1. DOMAIN slots' = DOMAIN slots \ batch /\ \A u \in DOMAIN slots' : slots'[u] = slots[u]
      BY <1>8, Zenon DEF RemoveStale, RemoveSlots, ZRem
    <2> QED
      BY <1>8, <2>1, Zenon DEF RemoveStale, RemoveSlots
  <1>9. CASE SlotTick
    <2>1. TimeInv'
      BY <1>9 DEF SlotTick
    <2>2. CASE Expired(slotsExp, slotNow + 1)
      <3>1. ASSUME NEW s \in SlotIds, stage[s] = "holding" PROVE FALSE
        BY <1>9, <2>2, <3>1 DEF SlotTick, Expired
      <3> QED
        BY <1>9, <2>1, <2>2, <3>1, EmptyZSetFacts, Zenon DEF SlotTick
    <2>3. CASE ~Expired(slotsExp, slotNow + 1)
      BY <1>9, <2>1, <2>3, Zenon DEF SlotTick
    <2> QED
      BY <2>2, <2>3, Zenon
  <1> QED
    BY <1>1, <1>2, <1>3, <1>4, <1>5, <1>6, <1>7, <1>8, <1>9, Zenon DEF SlotsNext

\* The invariant holds of short steps in every reachable state.
THEOREM SlotInvariance ==
    ASSUME ShortSteps
    PROVE  SlotsSpec => []SlotInv
  <1>1. SlotsInit => SlotInv
    <2> SUFFICES ASSUME SlotsInit PROVE SlotInv
      OBVIOUS
    <2>1. IsZSet(slots, SlotIds) /\ DOMAIN slots = {} /\ ZCard(slots) = 0
      BY EmptyZSetFacts, FS_EmptySet, Zenon DEF SlotsInit, ZCard
    <2> QED
      BY <2>1, SlotAssumption
      DEF SlotsInit, SlotInv, SlotsTypeOK, SizeInv, TimeInv, HolderInv, EntryInv,
          BatchInv, Stages, NoExpiry
  <1>2. SlotInv /\ [SlotsNext]_slotVars => SlotInv'
    BY SlotTypeStep, SlotSizeStep, SlotHolderStep, Zenon DEF SlotInv
  <1> QED
    BY <1>1, <1>2, PTL DEF SlotsSpec

\* Every living holder keeps its entry in the sorted set.
THEOREM HoldersKeepEntries ==
    ASSUME ShortSteps
    PROVE  SlotsSpec => []HolderKeepsEntry
  <1>1. SlotInv => HolderKeepsEntry
    BY Zenon DEF SlotInv, HolderInv, HolderKeepsEntry, Holders
  <1> QED
    BY <1>1, SlotInvariance, PTL

\* At most default_max_concurrent steps hold a slot at any time.
THEOREM HoldersBounded ==
    ASSUME ShortSteps
    PROVE  SlotsSpec => []HoldersWithinLimit
  <1>1. SlotInv => HoldersWithinLimit
    <2> SUFFICES ASSUME SlotInv PROVE HoldersWithinLimit
      OBVIOUS
    <2>1. Holders \subseteq DOMAIN slots
      BY Zenon DEF SlotInv, HolderInv, Holders
    <2>2. IsFiniteSet(DOMAIN slots) /\ ZCard(slots) \in Nat
      BY ZCardType, SlotAssumption, Zenon DEF SlotInv, SlotsTypeOK
    <2>3. Cardinality(Holders) <= Cardinality(DOMAIN slots) /\ IsFiniteSet(Holders)
      BY <2>1, <2>2, FS_Subset, Zenon
    <2>4. Cardinality(Holders) \in Nat
      BY <2>3, FS_CardinalityType, Zenon
    <2> QED
      BY <2>2, <2>3, <2>4, SlotAssumption
      DEF SlotInv, SizeInv, ZCard, HoldersWithinLimit
  <1> QED
    BY <1>1, SlotInvariance, PTL

=============================================================================
