------------------------------ MODULE Dispatch ------------------------------
(***************************************************************************)
(* The parts that bring a task to execution: the executor's lock, the cron *)
(* scheduler and the consumer. They share no state. Their properties are   *)
(* stated and proved here for every value of the constants the assumptions *)
(* allow.                                                                  *)
(***************************************************************************)
EXTENDS TaskExecutor, TLAPS

(***************************************************************************)
(* The executor's lock, for every number of executions, TTL and renewal    *)
(* interval: types and ownership in every behaviour, failures and late     *)
(* renewals included, and mutual exclusion given that renewals reach Redis *)
(* before the key expires.                                                 *)
(***************************************************************************)
\* The type invariant is inductive: a renewal loop stops counting when it is
\* due and late, and the key never has more than its TTL left.
THEOREM ExecutorTypeCorrect == Spec => []TypeOK
<1>1. Init => TypeOK
  <2>1. 0 \in 0 .. LockTTL /\ 0 \in 0 .. RenewInterval + MaxDelay
    BY ExecutorAssumption
  <2> QED BY <2>1, ZenonT(30) DEF Init, TypeOK, Stages, Results
<1>2. ASSUME TypeOK, [Next]_vars PROVE TypeOK'
  <2> USE ExecutorAssumption
  <2>1. CASE RequestCancel
    BY <1>2, <2>1, Zenon DEF TypeOK, RequestCancel, lock, loop
  <2>2. CASE Tick
    <3>1. age' \in [Runs -> 0 .. RenewInterval + MaxDelay]
      BY <1>2, <2>2 DEF TypeOK, Tick
    <3>2. /\ left' \in 0 .. LockTTL
          /\ owner' \in Runs \cup {NoRun}
          /\ owner' # NoRun => left' > 0
      BY <1>2, <2>2 DEF TypeOK, Tick
    <3> QED BY <1>2, <2>2, <3>1, <3>2, Zenon DEF TypeOK, Tick
  <2>3. ASSUME NEW r \in Runs, Step(r) PROVE TypeOK'
    <3> USE <1>2, <2>3 DEF TypeOK, Stages, Results, lock, loop
    <3>1. CASE Acquire(r) BY <3>1 DEF Acquire, TakeLock
    <3>2. CASE Refuse(r) BY <3>2, Zenon DEF Refuse
    <3>3. CASE AcquireError(r) BY <3>3 DEF AcquireError, TakeLock
    <3>4. CASE StartDag(r) BY <3>4, Zenon DEF StartDag
    <3>5. ASSUME NEW res \in Results, Close(r, res) PROVE TypeOK'
      BY <3>5 DEF Close
    <3>6. CASE SeeCancel(r) BY <3>5, <3>6, Zenon DEF SeeCancel
    <3>7. CASE CheckError(r) BY <3>5, <3>7, Zenon DEF CheckError
    <3>8. CASE DagReturns(r) BY <3>5, <3>8, Zenon DEF DagReturns
    <3>9. CASE DagRaises(r) BY <3>5, <3>9, Zenon DEF DagRaises
    <3>10. CASE Cancel(r) BY <3>5, <3>10, Zenon DEF Cancel
    <3>11. CASE AwaitRenewal(r) BY <3>11, Zenon DEF AwaitRenewal
    <3>12. CASE Release(r) BY <3>12 DEF Release, DeleteOwnLock
    <3>13. CASE ReleaseError(r) BY <3>13, Zenon DEF ReleaseError
    <3>14. CASE Callback(r) BY <3>14, Zenon DEF Callback
    <3>15. CASE CancelFinally(r) BY <3>15 DEF CancelFinally, DeleteOwnLock
    <3>16. CASE RenewLock(r) BY <3>16 DEF RenewLock
    <3>17. CASE RenewLost(r) BY <3>17 DEF RenewLost
    <3>18. CASE RenewError(r) BY <3>18 DEF RenewError
    <3>19. CASE Crash(r) BY <3>19 DEF Crash
    <3> QED
      BY <2>3, <3>1, <3>2, <3>3, <3>4, <3>6, <3>7, <3>8, <3>9, <3>10, <3>11,
         <3>12, <3>13, <3>14, <3>15, <3>16, <3>17, <3>18, <3>19, Zenon DEF Step
  <2>4. CASE UNCHANGED vars
    BY <1>2, <2>4, Zenon DEF TypeOK, vars, lock, loop
  <2> QED BY <1>2, <2>1, <2>2, <2>3, <2>4, Zenon DEF Next
<1> QED BY <1>1, <1>2, PTL DEF Spec

-----------------------------------------------------------------------------
\* Until its last renewal is as old as the TTL an execution owns the key, and
\* the key has exactly the part of the TTL left that has not passed since.
THEOREM OwnershipKept == Spec => []FreshOwnsLock
<1> DEFINE Owns(q) == owner = q /\ left = LockTTL - age[q]
<1>1. Init => FreshOwnsLock
  BY Zenon DEF Init, FreshOwnsLock, Fresh, Executing
<1>2. ASSUME TypeOK, FreshOwnsLock, [Next]_vars PROVE FreshOwnsLock'
  <2> SUFFICES ASSUME NEW q \in Runs, Fresh(q)' PROVE Owns(q)'
    BY Zenon DEF FreshOwnsLock
  <2>0. Fresh(q) => Owns(q)
    BY <1>2, Zenon DEF FreshOwnsLock
  <2> USE ExecutorAssumption
  <2>1. CASE RequestCancel
    BY <2>0, <2>1, Zenon DEF RequestCancel, lock, loop, Fresh, Executing
  <2>2. CASE Tick
    <3>1. age[q] \in Nat /\ left \in Nat /\ age'[q] = age[q] + 1 /\ renew[q] = "on"
      BY <1>2, <2>2 DEF Tick, TypeOK, Fresh
    <3>2. Fresh(q) /\ age[q] + 1 < LockTTL
      BY <2>2, <3>1 DEF Tick, Fresh, Executing
    <3>3. left > 1 BY <2>0, <3>1, <3>2
    <3>4. left' = left - 1 /\ owner' = owner
      BY <2>2, <3>1, <3>3 DEF Tick
    <3> QED BY <2>0, <3>1, <3>2, <3>4
  <2>3. ASSUME NEW r \in Runs, Step(r) PROVE Owns(q)'
    <3> USE <1>2, <2>0 DEF TypeOK, lock, loop, Fresh, Executing
    <3>1. CASE Acquire(r)
      <4>1. q = r BY <3>1, Zenon DEF Acquire, TakeLock
      <4> QED BY <3>1, <4>1 DEF Acquire, TakeLock
    <3>2. CASE Refuse(r) BY <3>2, Zenon DEF Refuse
    <3>3. CASE AcquireError(r) BY <3>3, Zenon DEF AcquireError, TakeLock
    <3>4. CASE StartDag(r) BY <3>4, Zenon DEF StartDag
    <3>5. ASSUME NEW res, Close(r, res) PROVE Owns(q)'
      BY <3>5, Zenon DEF Close
    <3>6. CASE SeeCancel(r) BY <3>5, <3>6, Zenon DEF SeeCancel
    <3>7. CASE CheckError(r) BY <3>5, <3>7, Zenon DEF CheckError
    <3>8. CASE DagReturns(r) BY <3>5, <3>8, Zenon DEF DagReturns
    <3>9. CASE DagRaises(r) BY <3>5, <3>9, Zenon DEF DagRaises
    <3>10. CASE Cancel(r) BY <3>5, <3>10, Zenon DEF Cancel
    <3>11. CASE AwaitRenewal(r) BY <3>11, Zenon DEF AwaitRenewal
    <3>12. CASE Release(r) BY <3>12, Zenon DEF Release, DeleteOwnLock
    <3>13. CASE ReleaseError(r) BY <3>13, Zenon DEF ReleaseError
    <3>14. CASE Callback(r) BY <3>14, Zenon DEF Callback
    <3>15. CASE CancelFinally(r) BY <3>15, Zenon DEF CancelFinally, DeleteOwnLock
    <3>16. CASE RenewLock(r)
      <4>1. CASE q = r BY <3>16, <4>1 DEF RenewLock
      <4>2. CASE q # r BY <3>16, <4>2, Zenon DEF RenewLock
      <4> QED BY <4>1, <4>2, Zenon
    <3>17. CASE RenewLost(r) BY <3>17, Zenon DEF RenewLost
    <3>18. CASE RenewError(r) BY <3>18, Zenon DEF RenewError
    <3>19. CASE Crash(r) BY <3>19, Zenon DEF Crash
    <3> QED
      BY <2>3, <3>1, <3>2, <3>3, <3>4, <3>6, <3>7, <3>8, <3>9, <3>10, <3>11,
         <3>12, <3>13, <3>14, <3>15, <3>16, <3>17, <3>18, <3>19, Zenon DEF Step
  <2>4. CASE UNCHANGED vars
    BY <2>0, <2>4, Zenon DEF vars, lock, loop, Fresh, Executing
  <2> QED BY <1>2, <2>1, <2>2, <2>3, <2>4, Zenon DEF Next
<1> QED BY <1>1, <1>2, ExecutorTypeCorrect, PTL DEF Spec

\* With timely renewals the loop of an execution in progress never ends, so
\* its lock is always fresh.
LoopAlive == \A r \in Runs : Executing(r) => renew[r] = "on"

LEMMA LoopsStayAlive ==
    ASSUME TimelyRenewal
    PROVE Spec => []LoopAlive
<1>1. Init => LoopAlive
  BY Zenon DEF Init, LoopAlive, Executing
<1>2. ASSUME TypeOK, FreshOwnsLock, LoopAlive, [Next]_vars PROVE LoopAlive'
  <2> SUFFICES ASSUME NEW q \in Runs, Executing(q)' PROVE renew'[q] = "on"
    BY Zenon DEF LoopAlive
  <2>0. Executing(q) => renew[q] = "on"
    BY <1>2, Zenon DEF LoopAlive
  <2>1. CASE RequestCancel \/ Tick
    BY <2>0, <2>1, Zenon DEF RequestCancel, Tick, loop, Executing
  <2>2. ASSUME NEW r \in Runs, Step(r) PROVE renew'[q] = "on"
    <3>1. CASE RenewLost(r)
      <4>1. age[q] < LockTTL
        BY <1>2, ExecutorAssumption DEF TypeOK, TimelyRenewal
      <4>2. Executing(q) => owner = q
        BY <1>2, <2>0, <4>1, Zenon DEF FreshOwnsLock, Fresh
      <4> QED BY <1>2, <2>0, <3>1, <4>2, Zenon DEF RenewLost, TypeOK, Executing
    <3>2. CASE Acquire(r) BY <1>2, <2>0, <3>2, Zenon DEF Acquire, TypeOK, Executing
    <3>3. ASSUME NEW res, Close(r, res) PROVE renew'[q] = "on"
      BY <1>2, <2>0, <3>3, Zenon DEF Close, TypeOK, Executing
    <3>4. CASE SeeCancel(r) \/ CheckError(r) \/ DagReturns(r) \/ DagRaises(r) \/ Cancel(r)
      BY <3>3, <3>4, Zenon DEF SeeCancel, CheckError, DagReturns, DagRaises, Cancel
    <3>5. CASE Refuse(r) \/ AcquireError(r) \/ StartDag(r) \/ AwaitRenewal(r)
               \/ Release(r) \/ ReleaseError(r) \/ Callback(r) \/ CancelFinally(r)
               \/ RenewLock(r)
      BY <1>2, <2>0, <3>5, Zenon DEF Refuse, AcquireError, StartDag, AwaitRenewal, Release,
         ReleaseError, Callback, CancelFinally, RenewLock, TypeOK, Executing, loop
    <3>6. CASE RenewError(r) BY <3>6, Zenon DEF RenewError, TimelyRenewal
    <3>7. CASE Crash(r) BY <1>2, <2>0, <3>7, Zenon DEF Crash, TypeOK, Executing
    <3> QED BY <2>2, <3>1, <3>2, <3>4, <3>5, <3>6, <3>7, Zenon DEF Step
  <2>3. CASE UNCHANGED vars
    BY <2>0, <2>3, Zenon DEF vars, loop, Executing
  <2> QED BY <1>2, <2>1, <2>2, <2>3, Zenon DEF Next
<1> QED BY <1>1, <1>2, ExecutorTypeCorrect, OwnershipKept, PTL DEF Spec

\* No two executions of a task overlap while renewals are timely.
THEOREM MutualExclusion ==
    ASSUME TimelyRenewal
    PROVE Spec => []OneRunner
<1>1. ASSUME TypeOK, FreshOwnsLock, LoopAlive PROVE OneRunner
  <2> SUFFICES ASSUME NEW r \in Runs, NEW q \in Runs, Executing(r), Executing(q)
               PROVE  r = q
    BY Zenon DEF OneRunner
  <2>1. age[r] < LockTTL /\ age[q] < LockTTL
    BY <1>1, ExecutorAssumption DEF TypeOK, TimelyRenewal
  <2> QED BY <1>1, <2>1, Zenon DEF FreshOwnsLock, Fresh, LoopAlive
<1> QED BY <1>1, ExecutorTypeCorrect, OwnershipKept, LoopsStayAlive, PTL

\* With or without failures and late renewals, a lock leaves its execution
\* only by expiry or by the release script of that execution.
THEOREM OwnReleaseOnly == Spec => OnlyOwnRelease
<1>1. ASSUME TypeOK, [Next]_vars PROVE [LockLostStep]_vars
  <2> SUFFICES ASSUME NEW q \in Runs, owner = q, owner' # q
               PROVE  left = 1 \/ stage[q] = "releasing"
    BY Zenon DEF LockLostStep
  <2> USE ExecutorAssumption
  <2>1. CASE RequestCancel BY <2>1, Zenon DEF RequestCancel, lock
  <2>2. CASE Tick
    BY <1>1, <2>2 DEF Tick, TypeOK
  <2>3. ASSUME NEW r \in Runs, Step(r) PROVE left = 1 \/ stage[q] = "releasing"
    BY <2>3, Zenon DEF Step, Acquire, TakeLock, Refuse, AcquireError, StartDag, SeeCancel,
       CheckError, DagReturns, DagRaises, Cancel, Close, AwaitRenewal, Release,
       DeleteOwnLock, ReleaseError, Callback, CancelFinally, RenewLock,
       RenewLost, RenewError, Crash, lock
  <2>4. CASE UNCHANGED vars BY <2>4, Zenon DEF vars, lock
  <2> QED BY <1>1, <2>1, <2>2, <2>3, <2>4, Zenon DEF Next
<1> QED BY <1>1, ExecutorTypeCorrect, PTL DEF Spec, OnlyOwnRelease

-----------------------------------------------------------------------------
CONSTANTS Instances, Minute, Period, PollInterval, LeaderTTL, Horizon, MaxEvents, None

VARIABLES now, leader, lease, inst, sched, edit, db, tasks, fires, clean, events

Cron == INSTANCE CronScheduler

ASSUME CronAssumption ==
    /\ None \notin Instances
    /\ Minute \in Nat \ {0} /\ Period \in Nat \ {0} /\ LeaderTTL \in Nat \ {0}
    /\ PollInterval \in Nat /\ Horizon \in Nat

\* CronScheduler: two leaders only when one of them was slow, and an occurrence
\* creates one task.
CronSound == Cron!LeadersOverlapOnlyWhenSlow /\ Cron!OneTaskPerOccurrence

CronPCs == {"sleep", "elect", "get", "expire", "list", "create", "advance", "ended"}
CronLoops == [pc : CronPCs, wait : 0 .. PollInterval, seen : Nat, due : Nat, age : {0, 1}]
Schedules == [enabled : BOOLEAN, next : Nat \cup {None}]

\* What the sequels add to the types.
CronTypes ==
    /\ now \in 0 .. Horizon /\ clean \in BOOLEAN /\ fires \subseteq Nat \X Nat
    /\ inst \in [Instances -> CronLoops]
    /\ sched \in Schedules \cup {None} /\ edit \in Schedules \cup {None}

\* An instance that read the key as its own in this tick is its owner.
LeaseHeld ==
    \A i \in Instances :
        inst[i].pc \in {"expire", "list", "create", "advance"} /\ inst[i].age = 0 => leader = i

\* No firing is of a later occurrence than the clock, or than the poll under way.
FiredBefore ==
    /\ \A f \in fires : f[1] <= now
    /\ \A i \in Instances : inst[i].pc \in {"create", "advance"} => inst[i].due <= inst[i].seen

\* While nothing came between a task and its advance, one instance fires at a time,
\* the occurrence it is about to fire has not fired, and neither has the one in the
\* record, unless its advance is still to come.
FiredOnce ==
    clean =>
        /\ \A i, j \in Instances : Cron!Firing(i) /\ Cron!Firing(j) => i = j
        /\ \A i \in Instances : inst[i].pc = "create" =>
              \A f \in fires : f[1] # inst[i].due
        /\ \A i \in Instances : inst[i].pc \in {"create", "advance"} =>
              \A f \in fires : f[1] <= inst[i].seen
        /\ sched # None /\ (\A i \in Instances : inst[i].pc # "advance") =>
              sched.next = None \/ \A f \in fires : f[1] # sched.next

CronInv ==
    /\ Cron!TypeOK /\ CronTypes
    /\ LeaseHeld /\ FiredBefore /\ FiredOnce
    /\ Cron!OneTaskPerOccurrence

\* The next occurrence lies after the poll, and the clock's minutes within its horizon.
LEMMA NextFireLater == \A n \in Nat : Cron!NextFire(n) \in Nat /\ Cron!NextFire(n) > n
<1> SUFFICES ASSUME NEW n \in Nat, NEW p \in Nat \ {0}, p = Period
             PROVE  (n \div p + 1) * p \in Nat /\ (n \div p + 1) * p > n
  BY CronAssumption, Zenon DEF Cron!NextFire
<1>1. n = p * (n \div p) + (n % p) /\ n % p \in 0 .. p - 1 /\ n \div p \in Nat
  OBVIOUS
<1>2. (n \div p + 1) * p = p * (n \div p) + p
  BY <1>1
<1> QED BY <1>1, <1>2

LEMMA MinutesBounded ==
    \A n \in 0 .. Horizon : n \div Minute \in 0 .. (Horizon \div Minute)
<1> SUFFICES ASSUME NEW n \in Nat, NEW h \in Nat, n <= h, NEW m \in Nat \ {0}
             PROVE  n \div m \in Nat /\ n \div m <= h \div m /\ h \div m \in Nat
  BY CronAssumption
<1>1. n \div m \in Nat /\ n = m * (n \div m) + (n % m) /\ n % m \in 0 .. m - 1
  OBVIOUS
<1>2. h \div m \in Nat /\ h = m * (h \div m) + (h % m) /\ h % m \in 0 .. m - 1
  OBVIOUS
<1>3. ASSUME NEW p \in Nat, NEW q \in Nat, p > q PROVE m * p >= m * q + m
  <2>1. PICK d \in Nat : p = q + 1 + d
    BY <1>3, p - q - 1 \in Nat
  <2>2. m * p = m * q + m + m * d /\ m * d \in Nat
    BY <2>1
  <2> QED BY <2>2
<1> QED BY <1>1, <1>2, <1>3

LEMMA CronParts ==
    /\ Cron!Asleep \in CronLoops /\ Cron!Asleep.pc = "sleep" /\ Cron!Asleep.seen = 0
    /\ \A p \in CronPCs : /\ Cron!Loop(p) \in CronLoops /\ Cron!Loop(p).pc = p
                          /\ Cron!Loop(p).seen = 0 /\ Cron!Loop(p).age = 0
<1>1. /\ PollInterval \in 0 .. PollInterval /\ 0 \in 0 .. PollInterval
      /\ "sleep" \in CronPCs
  BY CronAssumption DEF CronPCs
<1>2. /\ Cron!Asleep \in CronLoops /\ Cron!Asleep.pc = "sleep"
      /\ Cron!Asleep.seen = 0 /\ Cron!Asleep.age = 0
  BY <1>1, Zenon DEF Cron!Asleep, CronLoops
<1>3. ASSUME NEW p \in CronPCs
      PROVE  /\ Cron!Loop(p) \in CronLoops /\ Cron!Loop(p).pc = p
             /\ Cron!Loop(p).seen = 0 /\ Cron!Loop(p).age = 0
  BY <1>1, <1>2, Zenon DEF Cron!Loop, CronLoops
<1> QED BY <1>2, <1>3, Zenon

LEMMA CronStarts == Cron!Init => CronInv
<1> SUFFICES ASSUME Cron!Init PROVE CronInv
  OBVIOUS
<1>1. /\ inst \in [Instances -> CronLoops]
      /\ \A i \in Instances : inst[i].pc = "elect" /\ inst[i].seen = 0
  BY CronParts, Zenon DEF Cron!Init, CronPCs
<1>2. Cron!TypeOK
  BY <1>1, CronAssumption DEF Cron!Init, Cron!TypeOK, CronLoops
<1>3. sched \in Schedules \cup {None} /\ edit \in Schedules \cup {None}
  <2>1. [enabled |-> TRUE, next |-> 0] \in Schedules
    BY Zenon DEF Schedules
  <2> QED BY <2>1, Zenon DEF Cron!Init
<1>5. CronTypes
  BY <1>1, <1>3, CronAssumption DEF Cron!Init, CronTypes
<1>4. LeaseHeld /\ FiredBefore /\ FiredOnce /\ Cron!OneTaskPerOccurrence
  BY <1>1, Zenon
     DEF Cron!Init, LeaseHeld, FiredBefore, FiredOnce, Cron!Firing,
         Cron!OneTaskPerOccurrence
<1> QED BY <1>2, <1>4, <1>5, Zenon DEF CronInv

\* A loop leaves the firing, or stays out of it, and changes nothing else: the
\* election that is lost, the look at the key, a poll with nothing due, a firing
\* given up, the end and the start of a loop.
LEMMA QuietStep ==
    ASSUME CronInv, NEW i \in Instances, NEW r \in CronLoops,
           inst' = [inst EXCEPT ![i] = r], r.seen = 0,
           r.pc \in {"sleep", "elect", "get", "expire", "ended"},
           r.pc = "expire" => leader = i,
           clean' \in BOOLEAN, clean' => clean /\ inst[i].pc # "advance",
           UNCHANGED <<now, leader, lease, sched, edit, tasks, fires>>
    PROVE  CronInv'
<1>1. /\ inst' \in [Instances -> CronLoops]
      /\ \A j \in Instances : j # i => inst'[j] = inst[j]
      /\ inst'[i] = r
  BY Zenon DEF CronInv, CronTypes
<1>2. Cron!TypeOK'
  BY <1>1, CronAssumption DEF CronInv, CronTypes, Cron!TypeOK, CronLoops
<1>3. CronTypes'
  BY <1>1, Zenon DEF CronInv, CronTypes
<1>4. LeaseHeld' /\ FiredBefore'
  BY <1>1, Zenon DEF CronInv, LeaseHeld, FiredBefore
<1>5. FiredOnce'
  BY <1>1, Zenon DEF CronInv, FiredOnce, Cron!Firing
<1>6. Cron!OneTaskPerOccurrence'
  BY Zenon DEF CronInv, Cron!OneTaskPerOccurrence
<1> QED BY <1>2, <1>3, <1>4, <1>5, <1>6, Zenon DEF CronInv

LEMMA QuietSteps ==
    ASSUME CronInv, NEW i \in Instances,
           \/ Cron!Elect(i) /\ leader # None
           \/ Cron!Get(i) \/ Cron!Wake(i) \/ Cron!Start(i)
           \/ Cron!ListDue(i) /\ ~Cron!Due(now)
           \/ Cron!CreateTask(i) /\ Cron!Window(i) \in tasks /\ db
           \/ Cron!CreateFails(i) /\ UNCHANGED <<tasks, fires, clean>>
           \/ Cron!LoopEnds(i)
    PROVE  CronInv'
<1> USE DEF Cron!Goes, Cron!At
<1>0. clean \in BOOLEAN BY Zenon DEF CronInv, CronTypes
<1> DEFINE P(r) == /\ inst' = [inst EXCEPT ![i] = r] /\ r \in CronLoops /\ r.seen = 0
                   /\ r.pc \in {"sleep", "elect", "get", "expire", "ended"}
                   /\ r.pc = "expire" => leader = i
           Q == /\ clean' \in BOOLEAN /\ (clean' => clean /\ inst[i].pc # "advance")
                /\ UNCHANGED <<now, leader, lease, sched, edit, tasks, fires>>
<1>1. CASE Cron!Elect(i) /\ leader # None
  <2>1. P(Cron!Loop("get")) BY <1>1, CronParts, Zenon DEF Cron!Elect, CronPCs
  <2>2. Q BY <1>0, <1>1, Zenon DEF Cron!Elect
  <2> QED BY <2>1, <2>2, QuietStep, Zenon
<1>2. CASE Cron!Get(i)
  <2>1. P(IF Cron!IsLeader(i) THEN Cron!Loop("expire") ELSE Cron!Asleep)
    BY <1>2, CronParts, Zenon DEF Cron!Get, CronPCs, Cron!IsLeader
  <2>2. Q BY <1>0, <1>2, Zenon DEF Cron!Get
  <2> QED BY <2>1, <2>2, QuietStep, Zenon
<1>3. CASE Cron!Wake(i) \/ Cron!Start(i)
  <2>1. P(Cron!Loop("elect")) BY <1>3, CronParts, Zenon DEF Cron!Wake, Cron!Start, CronPCs
  <2>2. Q BY <1>0, <1>3 DEF Cron!Wake, Cron!Start
  <2> QED BY <2>1, <2>2, QuietStep, Zenon
<1>4. CASE Cron!LoopEnds(i)
  <2>1. P(Cron!Loop("ended")) BY <1>4, CronParts, Zenon DEF Cron!LoopEnds, CronPCs
  <2>2. Q BY <1>0, <1>4, Zenon DEF Cron!LoopEnds
  <2> QED BY <2>1, <2>2, QuietStep, Zenon
<1>5. CASE \/ Cron!ListDue(i) /\ ~Cron!Due(now)
           \/ Cron!CreateTask(i) /\ Cron!Window(i) \in tasks /\ db
           \/ Cron!CreateFails(i) /\ UNCHANGED <<tasks, fires, clean>>
  <2>1. P(Cron!Asleep) BY <1>5, CronParts, Zenon
                          DEF Cron!ListDue, Cron!CreateTask, Cron!CreateFails
  <2>2. Q BY <1>0, <1>5 DEF Cron!ListDue, Cron!CreateTask, Cron!CreateFails
  <2> QED BY <2>1, <2>2, QuietStep, Zenon
<1> QED BY <1>1, <1>2, <1>3, <1>4, <1>5, Zenon

\* An instance passes the election, or renews: it is the only one that fires, or the
\* history says so.
LEMMA LeadStep ==
    ASSUME CronInv, NEW i \in Instances,
           (Cron!Elect(i) /\ leader = None) \/ Cron!Expire(i)
    PROVE  CronInv'
<1> USE DEF Cron!Goes, Cron!At
<1>1. PICK r \in CronLoops : /\ inst' = [inst EXCEPT ![i] = r]
                             /\ r.pc = "list" /\ r.seen \in 0 .. now
                             /\ r.age = 0 => leader' = i
  <2>1. CASE Cron!Elect(i) /\ leader = None
    BY <2>1, CronParts DEF Cron!Elect, CronPCs, CronInv, CronTypes
  <2>2. CASE Cron!Expire(i)
    <3>1. /\ inst[i] \in CronLoops /\ inst[i].seen \in 0 .. now
          /\ inst[i].age = 0 => leader = i
      BY <2>2, Zenon DEF Cron!Expire, CronInv, CronTypes, Cron!TypeOK, LeaseHeld
    <3>2. "list" \in CronPCs BY Zenon DEF CronPCs
    <3>3. [inst[i] EXCEPT !.pc = "list"] \in CronLoops
      BY <3>1, <3>2, Zenon DEF CronLoops
    <3> QED BY <2>2, <3>1, <3>3, Zenon DEF Cron!Expire, CronLoops
  <2> QED BY <2>1, <2>2, Zenon
<1>2. /\ leader' \in Instances \cup {None} /\ lease' \in 0 .. LeaderTTL
      /\ (leader' = None) = (lease' = 0)
      /\ leader # None => leader' = leader
      /\ UNCHANGED <<now, sched, edit, tasks, fires>>
  BY CronAssumption DEF Cron!Elect, Cron!Expire, CronInv, Cron!TypeOK
<1>3. /\ clean' \in BOOLEAN
      /\ clean' => clean /\ \A j \in Instances : j # i => ~Cron!Firing(j)
  BY Zenon DEF Cron!Elect, Cron!Expire, CronInv, CronTypes
<1>4. inst[i].pc \in {"elect", "expire"}
  BY Zenon DEF Cron!Elect, Cron!Expire
<1>5. /\ inst' \in [Instances -> CronLoops]
      /\ \A j \in Instances : j # i => inst'[j] = inst[j]
      /\ inst'[i] = r
  BY <1>1, Zenon DEF CronInv, CronTypes
<1>6. Cron!TypeOK'
  BY <1>1, <1>2, <1>5, Zenon DEF CronInv, CronTypes, Cron!TypeOK, CronLoops
<1>7. CronTypes'
  BY <1>2, <1>3, <1>5, Zenon DEF CronInv, CronTypes
<1>8. LeaseHeld'
  BY <1>1, <1>2, <1>5, CronAssumption, Zenon DEF CronInv, LeaseHeld
<1>9. FiredBefore'
  BY <1>1, <1>2, <1>5, Zenon DEF CronInv, FiredBefore
<1>10. FiredOnce'
  BY <1>1, <1>2, <1>3, <1>4, <1>5 DEF CronInv, FiredOnce, Cron!Firing
<1>11. Cron!OneTaskPerOccurrence'
  BY <1>2, <1>3, Zenon DEF CronInv, Cron!OneTaskPerOccurrence
<1> QED BY <1>6, <1>7, <1>8, <1>9, <1>10, <1>11, Zenon DEF CronInv

\* The poll finds the occurrence of the record due.
LEMMA ListStep ==
    ASSUME CronInv, NEW i \in Instances, Cron!ListDue(i), Cron!Due(now)
    PROVE  CronInv'
<1> USE DEF Cron!Goes, Cron!At
<1>1. /\ inst[i] \in CronLoops /\ inst[i].pc = "list" /\ now \in Nat /\ now \in 0 .. Horizon
      /\ sched # None /\ sched \in Schedules
      /\ sched.next \in Nat /\ sched.next # None /\ sched.next <= now
      /\ inst[i].age = 0 => leader = i
      /\ UNCHANGED <<now, leader, lease, sched, edit, tasks, fires, clean>>
  BY CronAssumption DEF Cron!ListDue, Cron!Due, CronInv, CronTypes, Schedules, LeaseHeld
<1>2. PICK r \in CronLoops : /\ inst' = [inst EXCEPT ![i] = r]
                             /\ r.pc = "create" /\ r.seen = now /\ r.due = sched.next
                             /\ r.age = inst[i].age
  <2>1. "create" \in CronPCs BY Zenon DEF CronPCs
  <2>2. [inst[i] EXCEPT !.pc = "create", !.seen = now, !.due = sched.next] \in CronLoops
    BY <1>1, <2>1, Zenon DEF CronLoops
  <2> QED BY <1>1, <2>2, Zenon DEF Cron!ListDue, CronLoops
<1>3. /\ inst' \in [Instances -> CronLoops]
      /\ \A j \in Instances : j # i => inst'[j] = inst[j]
      /\ inst'[i] = r
  BY <1>2, Zenon DEF CronInv, CronTypes
<1>4. Cron!TypeOK'
  BY <1>1, <1>2, <1>3 DEF CronInv, CronTypes, Cron!TypeOK, CronLoops
<1>5. CronTypes'
  BY <1>1, <1>3, Zenon DEF CronInv, CronTypes
<1>6. LeaseHeld' /\ FiredBefore'
  BY <1>1, <1>2, <1>3, Zenon DEF CronInv, LeaseHeld, FiredBefore
<1>7. FiredOnce'
  <2>1. clean => \A j \in Instances : Cron!Firing(j) => j = i
    BY <1>1, Zenon DEF CronInv, FiredOnce, Cron!Firing
  <2>2. clean => \A f \in fires : f[1] # sched.next
    BY <1>1, <2>1, Zenon DEF CronInv, FiredOnce, Cron!Firing
  <2>3. \A f \in fires : f[1] <= now
    BY Zenon DEF CronInv, FiredBefore
  <2> QED BY <1>1, <1>2, <1>3, <2>1, <2>2, <2>3, Zenon DEF FiredOnce, Cron!Firing
<1>8. Cron!OneTaskPerOccurrence'
  BY <1>1, Zenon DEF CronInv, Cron!OneTaskPerOccurrence
<1> QED BY <1>4, <1>5, <1>6, <1>7, <1>8, Zenon DEF CronInv

\* The task is created, or its id exists; or it is created and the call fails, after
\* which the history is not clean.
LEMMA CreateStep ==
    ASSUME CronInv, NEW i \in Instances,
           \/ Cron!CreateTask(i) /\ ~(Cron!Window(i) \in tasks /\ db)
           \/ Cron!CreateFails(i) /\ ~UNCHANGED <<tasks, fires, clean>>
    PROVE  CronInv'
<1> USE DEF Cron!Goes, Cron!At
<1>1. /\ inst[i] \in CronLoops /\ inst[i].pc = "create" /\ now \in Nat
      /\ inst[i].seen \in 0 .. now /\ inst[i].seen \in 0 .. Horizon /\ inst[i].due \in Nat
      /\ inst[i].due <= inst[i].seen /\ (inst[i].age = 0 => leader = i)
      /\ UNCHANGED <<now, leader, lease, sched, edit>>
  BY CronAssumption
     DEF Cron!CreateTask, Cron!CreateFails, CronInv, CronTypes, Cron!TypeOK, LeaseHeld,
         FiredBefore, CronLoops
<1>2. Cron!Window(i) \in 0 .. (Horizon \div Minute) /\ Cron!Window(i) \in Nat
  BY <1>1, MinutesBounded DEF Cron!Window
<1>3. PICK r \in CronLoops :
         /\ inst' = [inst EXCEPT ![i] = r]
         /\ \/ /\ r.pc = "advance" /\ r.seen = inst[i].seen
               /\ r.due = inst[i].due /\ r.age = inst[i].age
               /\ clean' = clean
            \/ r.pc = "sleep" /\ r.seen = 0 /\ clean' = FALSE
  <2>1. "advance" \in CronPCs BY Zenon DEF CronPCs
  <2>2. [inst[i] EXCEPT !.pc = "advance"] \in CronLoops
    BY <1>1, <2>1, Zenon DEF CronLoops
  <2>3. CASE Cron!CreateTask(i) /\ ~(Cron!Window(i) \in tasks /\ db)
    BY <1>1, <2>2, <2>3, Zenon DEF Cron!CreateTask, CronLoops
  <2>4. CASE Cron!CreateFails(i) /\ ~UNCHANGED <<tasks, fires, clean>>
    BY <2>4, CronParts, Zenon DEF Cron!CreateFails
  <2> QED BY <2>3, <2>4, Zenon
<1>4. \/ UNCHANGED <<tasks, fires>>
      \/ /\ tasks' = tasks \cup {Cron!Window(i)}
         /\ fires' = fires \cup {<<inst[i].due, Cron!Window(i)>>}
  BY Zenon DEF Cron!CreateTask, Cron!CreateFails, Cron!Made
<1>5. /\ inst' \in [Instances -> CronLoops]
      /\ \A j \in Instances : j # i => inst'[j] = inst[j]
      /\ inst'[i] = r
  BY <1>3, Zenon DEF CronInv, CronTypes
<1>6. Cron!TypeOK'
  <2>1. tasks' \subseteq 0 .. (Horizon \div Minute)
    BY <1>2, <1>4, Zenon DEF CronInv, Cron!TypeOK
  <2>2. r.seen \in 0 .. now
    BY <1>1, <1>3, SMTT(30)
  <2> QED BY <1>1, <1>5, <2>1, <2>2, Zenon DEF CronInv, CronTypes, Cron!TypeOK, CronLoops
<1>7. fires' \subseteq Nat \X Nat /\ \A f \in fires' : f \in fires \/ f[1] = inst[i].due
  BY <1>1, <1>2, <1>4, SMTT(30) DEF CronInv, CronTypes
<1>8. CronTypes'
  BY <1>1, <1>3, <1>5, <1>7, Zenon DEF CronInv, CronTypes
<1>9. LeaseHeld'
  BY <1>1, <1>3, <1>5, Zenon DEF CronInv, LeaseHeld
<1>10. FiredBefore'
  <2>1. \A f \in fires' : f[1] <= now
    BY <1>1, <1>7 DEF CronInv, FiredBefore
  <2> QED BY <1>1, <1>3, <1>5, <2>1, Zenon DEF CronInv, FiredBefore
<1>11. FiredOnce'
  <2> SUFFICES ASSUME clean' PROVE FiredOnce'
    BY Zenon DEF FiredOnce
  <2>1. clean /\ r.pc = "advance" /\ r.seen = inst[i].seen
    BY <1>3, Zenon
  <2>2. \A j \in Instances : j # i => ~Cron!Firing(j)
    BY <1>1, <2>1, Zenon DEF CronInv, FiredOnce, Cron!Firing
  <2>3. \A f \in fires' : f[1] <= inst[i].seen
    BY <1>1, <1>7, <2>1, Zenon DEF CronInv, FiredOnce
  <2> QED BY <1>5, <2>1, <2>2, <2>3, Zenon DEF FiredOnce, Cron!Firing
<1>12. Cron!OneTaskPerOccurrence'
  <2> SUFFICES ASSUME clean' PROVE \A f, g \in fires' : f[1] = g[1] => f = g
    BY Zenon DEF Cron!OneTaskPerOccurrence
  <2>1. clean
    BY <1>3, Zenon
  <2>2. \A f \in fires : f[1] # inst[i].due
    BY <1>1, <2>1, Zenon DEF CronInv, FiredOnce
  <2> QED BY <1>4, <2>1, <2>2 DEF CronInv, Cron!OneTaskPerOccurrence
<1> QED BY <1>6, <1>8, <1>9, <1>10, <1>11, <1>12, Zenon DEF CronInv

\* update_next_fire moves the record past every occurrence that has fired.
LEMMA AdvanceStep ==
    ASSUME CronInv, NEW i \in Instances, Cron!Advance(i)
    PROVE  CronInv'
<1> USE DEF Cron!Goes, Cron!At
<1>1. /\ inst[i].pc = "advance" /\ inst[i].seen \in Nat
      /\ inst' = [inst EXCEPT ![i] = Cron!Asleep]
      /\ UNCHANGED <<now, leader, lease, edit, tasks, fires, clean>>
  BY Zenon DEF Cron!Advance, CronInv, CronTypes, CronLoops
<1>2. /\ inst' \in [Instances -> CronLoops]
      /\ \A j \in Instances : j # i => inst'[j] = inst[j]
      /\ inst'[i].pc = "sleep" /\ inst'[i].seen = 0
  BY <1>1, CronParts, Zenon DEF CronInv, CronTypes
<1>3. PICK n \in Nat : n = Cron!NextFire(inst[i].seen) /\ n > inst[i].seen
  BY <1>1, NextFireLater, Zenon
<1>4. /\ sched' \in Schedules \cup {None}
      /\ sched' # None => sched'.next = n
  BY <1>3, Zenon DEF Cron!Advance, CronInv, CronTypes, Schedules
<1>5. Cron!TypeOK'
  BY <1>1, <1>2, CronAssumption, SMTT(30) DEF CronInv, CronTypes, Cron!TypeOK, CronLoops
<1>6. CronTypes'
  BY <1>1, <1>2, <1>4, Zenon DEF CronInv, CronTypes
<1>7. LeaseHeld' /\ FiredBefore'
  BY <1>1, <1>2, Zenon DEF CronInv, LeaseHeld, FiredBefore
<1>8. FiredOnce'
  <2>1. clean => \A f \in fires : f \in Nat \X Nat /\ f[1] <= inst[i].seen
    BY <1>1, Zenon DEF CronInv, FiredOnce, CronTypes
  <2>2. clean => \A f \in fires : f[1] # n
    BY <1>1, <1>3, <2>1
  <2> QED BY <1>1, <1>2, <1>4, <2>2, Zenon DEF CronInv, FiredOnce, Cron!Firing
<1>9. Cron!OneTaskPerOccurrence'
  BY <1>1, Zenon DEF CronInv, Cron!OneTaskPerOccurrence
<1> QED BY <1>5, <1>6, <1>7, <1>8, <1>9, Zenon DEF CronInv

\* The API's writes leave the instances alone.
LEMMA EditStep ==
    ASSUME CronInv, Cron!Edits
    PROVE  CronInv'
<1>1. /\ sched' \in Schedules \cup {None} /\ edit' \in Schedules \cup {None}
      /\ clean' \in BOOLEAN /\ (clean' => clean)
      /\ \/ clean' => fires = {}
         \/ sched' # None /\ sched # None => sched'.next = sched.next
      /\ sched = None /\ sched' # None /\ clean' => fires = {} \/ sched'.next = None
  <2>1. [enabled |-> TRUE, next |-> None] \in Schedules /\ now \in Nat /\ clean \in BOOLEAN
    BY CronAssumption, SMTT(30) DEF Schedules, CronInv, CronTypes
  <2>2. CASE Cron!CreateSchedule BY <2>1, <2>2, Zenon
                                    DEF Cron!CreateSchedule, CronInv, CronTypes
  <2>3. CASE Cron!UpdateRead BY <2>3, Zenon DEF Cron!UpdateRead, CronInv, CronTypes
  <2>4. CASE Cron!UpdateWrite
    <3>1. edit \in Schedules /\ [edit EXCEPT !.next = now] \in Schedules
      BY <2>1, <2>4, Zenon DEF Cron!UpdateWrite, CronInv, CronTypes, Schedules
    <3> QED BY <2>1, <2>4, <3>1, Zenon
               DEF Cron!UpdateWrite, Cron!Rewrites, CronInv, CronTypes
  <2>5. CASE Cron!Toggle BY <2>5, Zenon DEF Cron!Toggle, CronInv, CronTypes, Schedules
  <2>6. CASE Cron!DeleteSchedule BY <2>6, Zenon DEF Cron!DeleteSchedule, CronInv, CronTypes
  <2> QED BY <2>2, <2>3, <2>4, <2>5, <2>6, Zenon DEF Cron!Edits
<1>2. UNCHANGED <<now, leader, lease, inst, tasks, fires>>
  BY Zenon
     DEF Cron!Edits, Cron!CreateSchedule, Cron!UpdateRead, Cron!UpdateWrite, Cron!Toggle,
     Cron!DeleteSchedule
<1>3. Cron!TypeOK' /\ CronTypes'
  BY <1>1, <1>2, Zenon DEF CronInv, Cron!TypeOK, CronTypes
<1>4. LeaseHeld' /\ FiredBefore'
  BY <1>2, Zenon DEF CronInv, LeaseHeld, FiredBefore
<1>5. FiredOnce'
  BY <1>1, <1>2, Zenon DEF CronInv, CronTypes, FiredOnce, Cron!Firing
<1>6. Cron!OneTaskPerOccurrence'
  BY <1>1, <1>2, Zenon DEF CronInv, Cron!OneTaskPerOccurrence
<1> QED BY <1>3, <1>4, <1>5, <1>6, Zenon DEF CronInv

LEMMA CronTickStep ==
    ASSUME CronInv, Cron!Tick
    PROVE  CronInv'
<1> USE DEF Cron!At
<1>1. /\ now' \in 0 .. Horizon /\ now' >= now
      /\ lease' \in 0 .. LeaderTTL /\ leader' \in Instances \cup {None}
      /\ (leader' = None) = (lease' = 0)
      /\ UNCHANGED <<sched, edit, tasks, fires, clean>>
  BY CronAssumption DEF Cron!Tick, Cron!Expired, CronInv, CronTypes, Cron!TypeOK
<1>2. ASSUME NEW i \in Instances
      PROVE  /\ inst'[i] \in CronLoops /\ inst'[i].pc = inst[i].pc
             /\ inst'[i].seen = inst[i].seen /\ inst'[i].due = inst[i].due
             /\ inst[i].pc \notin {"sleep", "ended"} => inst'[i].age = 1
  <2>1. inst[i] \in CronLoops
    BY Zenon DEF CronInv, CronTypes
  <2>2. CASE inst[i].pc = "sleep"
    <3>1. inst'[i] = [inst[i] EXCEPT !.wait = Cron!Expired(@)]
      BY <2>2, Zenon DEF Cron!Tick
    <3>2. Cron!Expired(inst[i].wait) \in 0 .. PollInterval
      BY <2>1, CronAssumption DEF Cron!Expired, CronLoops
    <3> QED BY <2>1, <2>2, <3>1, <3>2, Zenon DEF CronLoops
  <2>3. CASE inst[i].pc = "ended"
    BY <2>1, <2>3, Zenon DEF Cron!Tick
  <2>4. CASE inst[i].pc \notin {"sleep", "ended"}
    <3>1. inst'[i] = [inst[i] EXCEPT !.age = 1]
      BY <2>4, Zenon DEF Cron!Tick
    <3> QED BY <2>1, <2>4, <3>1, Zenon DEF CronLoops
  <2> QED BY <2>2, <2>3, <2>4, Zenon
<1>3. inst' \in [Instances -> CronLoops]
  BY <1>2, Zenon DEF Cron!Tick
<1>4. Cron!TypeOK'
  <2>1. \A i \in Instances : inst'[i].wait \in 0 .. PollInterval /\ inst'[i].seen \in 0 .. now'
    BY <1>1, <1>2, CronAssumption DEF CronInv, CronTypes, Cron!TypeOK, CronLoops
  <2> QED BY <1>1, <2>1, Zenon DEF CronInv, Cron!TypeOK
<1>5. CronTypes'
  BY <1>1, <1>3, Zenon DEF CronInv, CronTypes
<1>6. LeaseHeld'
  BY <1>2 DEF LeaseHeld
<1>7. FiredBefore'
  <2>1. \A f \in fires : f[1] <= now'
    BY <1>1, CronAssumption DEF CronInv, CronTypes, FiredBefore
  <2> QED BY <1>1, <1>2, <2>1, Zenon DEF CronInv, FiredBefore
<1>8. FiredOnce'
  BY <1>1, <1>2 DEF CronInv, FiredOnce, Cron!Firing
<1>9. Cron!OneTaskPerOccurrence'
  BY <1>1, Zenon DEF CronInv, Cron!OneTaskPerOccurrence
<1> QED BY <1>4, <1>5, <1>6, <1>7, <1>8, <1>9, Zenon DEF CronInv

LEMMA CronKept == CronInv /\ [Cron!Next]_Cron!vars => CronInv'
<1> SUFFICES ASSUME CronInv, [Cron!Next]_Cron!vars PROVE CronInv'
  OBVIOUS
<1>1. ASSUME NEW i \in Instances, Cron!LoopStep(i) \/ Cron!CreateFails(i) \/ Cron!LoopEnds(i) \/ Cron!Start(i)
      PROVE  CronInv'
  <2>1. CASE Cron!CreateFails(i)
    BY <2>1, QuietSteps, CreateStep, Zenon
  <2>2. CASE Cron!LoopStep(i)
    BY <2>2, QuietSteps, LeadStep, ListStep, CreateStep, AdvanceStep, Zenon
       DEF Cron!LoopStep, Cron!Polls
  <2> QED BY <1>1, <2>1, <2>2, QuietSteps, Zenon
<1>2. CASE UNCHANGED Cron!vars
  <2>1. UNCHANGED <<now, leader, lease, inst, sched, edit, tasks, fires, clean>>
    BY <1>2, Zenon DEF Cron!vars
  <2>2. Cron!TypeOK' /\ CronTypes'
    BY <2>1, Zenon DEF CronInv, Cron!TypeOK, CronTypes
  <2>3. LeaseHeld' /\ FiredBefore' /\ FiredOnce'
    BY <2>1, Zenon DEF CronInv, LeaseHeld, FiredBefore, FiredOnce, Cron!Firing
  <2> QED BY <2>1, <2>2, <2>3, Zenon DEF CronInv, Cron!OneTaskPerOccurrence
<1> QED BY <1>1, <1>2, EditStep, CronTickStep, Zenon DEF Cron!Next

\* For any number of instances, any lease, period and poll interval: two of them are
\* past the election together only when one has been slow since it read the key, and
\* an occurrence makes one task unless a fault, an edit or a second leader came
\* between the task and the advance of the record.
THEOREM CronCorrect == Cron!Spec => []CronSound
<1>1. CronInv => CronSound
  <2> SUFFICES ASSUME CronInv PROVE CronSound
    OBVIOUS
  <2>1. Cron!LeadersOverlapOnlyWhenSlow
    <3> SUFFICES ASSUME NEW i \in Instances, NEW j \in Instances, i # j,
                        Cron!Firing(i), Cron!Firing(j)
                 PROVE  inst[i].age + inst[j].age > 0
      BY Zenon DEF Cron!LeadersOverlapOnlyWhenSlow
    <3>1. inst[i].age \in {0, 1} /\ inst[j].age \in {0, 1}
      BY Zenon DEF CronInv, CronTypes, CronLoops
    <3>2. ~(inst[i].age = 0 /\ inst[j].age = 0)
      BY Zenon DEF CronInv, LeaseHeld, Cron!Firing
    <3> QED BY <3>1, <3>2
  <2> QED BY <2>1, Zenon DEF CronInv, CronSound
<1> QED BY <1>1, CronStarts, CronKept, PTL DEF Cron!Spec

-----------------------------------------------------------------------------
CONSTANTS Caps, Jobs, CapOf, MaxConcurrent, Burst, MaxEmpty, MaxBackoff, MaxErrors

VARIABLES
    job, running, sem, active, pc, todo, cap, burst, got, backoff, leaked, errors

Consumer == INSTANCE TaskConsumer

ASSUME ConsumerAssumption ==
    /\ IsFiniteSet(Jobs)
    /\ MaxConcurrent \in Nat /\ Burst \in Nat /\ MaxErrors \in Nat
    /\ MaxEmpty \in Nat \ {0} /\ MaxBackoff \in Nat \ {0}

\* TaskConsumer: every permit is free, held, or lost in a counted way.
PermitsConserved == Consumer!PermitsConserved

States == {"none", "queued", "created", "running", "done", "cancelled"}

\* What the sequels add to the types: the loop tries a capability it serves, and
\* only stop loses permits.
ConsumerTypes ==
    /\ job \in [Jobs -> States]
    /\ sem \in Nat /\ backoff \in 1 .. MaxBackoff
    /\ active \in [Caps -> -1 .. MaxEmpty - 1]
    /\ todo \subseteq Caps /\ burst \in 0 .. Burst
    /\ pc \in {"bursts", "round", "try", "dequeue", "sleep", "ended"}
    /\ pc \in {"try", "dequeue"} => cap \in Caps
    /\ running \in BOOLEAN /\ leaked \in Nat
    /\ running => leaked = 0

In(f, s) == {j \in Jobs : f[j] = s}
Number(f, s) == Cardinality(In(f, s))
PermitsAdd ==
    sem + (IF pc = "dequeue" THEN 1 ELSE 0) + Number(job, "created") + Number(job, "running") + leaked
        = MaxConcurrent

ConsumerInv == ConsumerTypes /\ PermitsAdd

INSTANCE FiniteSetTheorems

LEMMA PermitsSame == PermitsAdd <=> PermitsConserved
<1>1. \A S : Consumer!Cardinality(S) = Cardinality(S)
  BY Zenon DEF Consumer!Cardinality, Cardinality
<1> QED BY <1>1, Zenon
           DEF PermitsAdd, Number, In, PermitsConserved, Consumer!PermitsConserved,
               Consumer!InState

LEMMA NumberTypes == \A f, s : IsFiniteSet(In(f, s)) /\ Number(f, s) \in Nat
<1>1. \A f, s : In(f, s) \subseteq Jobs
  BY Zenon DEF In
<1>2. \A f, s : IsFiniteSet(In(f, s))
  BY <1>1, FS_Subset, ConsumerAssumption, Zenon
<1> QED BY <1>2, FS_CardinalityType, Zenon DEF Number

\* A task that changes its state is counted there and no longer where it was.
LEMMA NumberMoves ==
    ASSUME NEW f \in [Jobs -> States], NEW g \in [Jobs -> States], NEW j \in Jobs,
           f[j] # g[j], \A k \in Jobs : k # j => g[k] = f[k]
    PROVE  /\ Number(g, g[j]) = Number(f, g[j]) + 1
           /\ Number(g, f[j]) = Number(f, f[j]) - 1
           /\ \A q \in States : q # g[j] /\ q # f[j] => Number(g, q) = Number(f, q)
<1> DEFINE s == g[j]
           o == f[j]
<1>1. In(g, s) = In(f, s) \cup {j} /\ j \notin In(f, s)
  BY Zenon DEF In
<1>2. In(g, o) = In(f, o) \ {j} /\ j \in In(f, o)
  BY DEF In
<1>3. \A q \in States : q # s /\ q # o => In(g, q) = In(f, q)
  BY Zenon DEF In
<1>4. Cardinality(In(f, s) \cup {j}) = Cardinality(In(f, s)) + 1
  BY <1>1, NumberTypes, FS_AddElement, Zenon
<1>5. Cardinality(In(f, o) \ {j}) = Cardinality(In(f, o)) - 1
  BY <1>2, NumberTypes, FS_RemoveElement, Zenon
<1> QED BY <1>1, <1>2, <1>3, <1>4, <1>5, Zenon DEF Number

LEMMA ConsumerStarts == Consumer!Init => ConsumerInv
<1> SUFFICES ASSUME Consumer!Init PROVE ConsumerInv
  OBVIOUS
<1>1. ConsumerTypes
  BY ConsumerAssumption DEF Consumer!Init, ConsumerTypes, States
<1>2. In(job, "created") = {} /\ In(job, "running") = {}
  BY Zenon DEF Consumer!Init, In
<1>3. Number(job, "created") = 0 /\ Number(job, "running") = 0
  BY <1>2, FS_EmptySet, Zenon DEF Number
<1> QED BY <1>1, <1>3, ConsumerAssumption DEF Consumer!Init, ConsumerInv, PermitsAdd

\* The loop between two dequeues: no permit and no task changes hands.
LEMMA IdleLoopStep ==
    ASSUME ConsumerInv,
           \/ Consumer!NextBurst \/ Consumer!ToRound \/ Consumer!NextOther \/ Consumer!Sleep
           \/ Consumer!Wake \/ Consumer!Refused
    PROVE  ConsumerInv'
<1>1. /\ UNCHANGED <<job, running, sem, leaked>>
      /\ pc # "dequeue" /\ pc' # "dequeue"
  BY Zenon DEF Consumer!NextBurst, Consumer!ToRound, Consumer!NextOther, Consumer!Sleep,
     Consumer!Wake, Consumer!Refused, Consumer!Answer
<1>2. ConsumerTypes'
  <2> USE ConsumerAssumption DEF ConsumerInv, ConsumerTypes
  <2>1. CASE Consumer!NextBurst BY <2>1 DEF Consumer!NextBurst
  <2>2. CASE Consumer!ToRound BY <2>2, Zenon DEF Consumer!ToRound
  <2>3. CASE Consumer!NextOther BY <2>3 DEF Consumer!NextOther
  <2>4. CASE Consumer!Sleep BY <2>4 DEF Consumer!Sleep, Consumer!Backoff
  <2>5. CASE Consumer!Wake BY <2>5, Zenon DEF Consumer!Wake, Consumer!Active
  <2>6. CASE Consumer!Refused
    BY <2>6 DEF Consumer!Refused, Consumer!Answer, Consumer!Dropped, Consumer!InBurst
  <2> QED BY <2>1, <2>2, <2>3, <2>4, <2>5, <2>6, Zenon
<1> QED BY <1>1, <1>2, Zenon DEF ConsumerInv, PermitsAdd

\* A permit goes to the dequeue and from there back or to a task.
LEMMA DequeueStep ==
    ASSUME ConsumerInv,
           \/ Consumer!Acquire \/ Consumer!DequeueTask \/ Consumer!DequeueNone
           \/ Consumer!DequeueError
    PROVE  ConsumerInv'
<1> USE ConsumerAssumption
<1>1. CASE Consumer!Acquire
  <2>1. ConsumerTypes'
    BY <1>1 DEF ConsumerInv, ConsumerTypes, Consumer!Acquire, Consumer!round
  <2> QED BY <1>1, <2>1, NumberTypes
          DEF ConsumerInv, ConsumerTypes, PermitsAdd, Consumer!Acquire
<1>2. CASE Consumer!DequeueTask
  <2>1. PICK j \in Jobs : job[j] = "queued" /\ job' = [job EXCEPT ![j] = "created"]
    BY <1>2, Zenon DEF Consumer!DequeueTask, Consumer!Ready
  <2>2. /\ pc = "dequeue" /\ pc' \in {"round", "try", "bursts"}
        /\ UNCHANGED <<running, sem, leaked>>
    BY <1>2, Zenon DEF Consumer!DequeueTask
  <2>3. ConsumerTypes'
    BY <1>2, <2>1, <2>2
       DEF ConsumerInv, ConsumerTypes, States, Consumer!DequeueTask, Consumer!InBurst
  <2>4. Number(job', "created") = Number(job, "created") + 1 /\ Number(job', "running") = Number(job, "running")
    <3>1. /\ job \in [Jobs -> States] /\ job' \in [Jobs -> States]
          /\ job[j] = "queued" /\ job'[j] = "created" /\ \A k \in Jobs : k # j => job'[k] = job[k]
      BY <2>1, Zenon DEF ConsumerInv, ConsumerTypes, States
    <3>2. /\ Number(job', "queued") = Number(job, "queued") - 1
          /\ Number(job', "created") = Number(job, "created") + 1
          /\ \A q \in States : q # "created" /\ q # "queued" => Number(job', q) = Number(job, q)
      BY <3>1, NumberMoves
    <3> QED BY <3>2, Zenon DEF States
  <2> QED BY <2>2, <2>3, <2>4, NumberTypes DEF ConsumerInv, ConsumerTypes, PermitsAdd
<1>3. CASE Consumer!DequeueNone \/ Consumer!DequeueError
  <2>1. /\ pc = "dequeue" /\ pc' \in {"round", "bursts"} /\ sem' = sem + 1
        /\ Consumer!Answer(FALSE) /\ UNCHANGED <<job, running, leaked>>
    BY <1>3, Zenon DEF Consumer!DequeueNone, Consumer!DequeueError, Consumer!Answer
  <2>2. ConsumerTypes'
    BY <2>1
       DEF ConsumerInv, ConsumerTypes, Consumer!Answer, Consumer!Dropped, Consumer!InBurst
  <2> QED BY <2>1, <2>2, NumberTypes DEF ConsumerInv, ConsumerTypes, PermitsAdd
<1> QED BY <1>1, <1>2, <1>3, Zenon

\* Tasks arrive, begin and end; stop cancels those that were popped.
LEMMA JobsStep ==
    ASSUME ConsumerInv, Consumer!JobStep \/ Consumer!Stop \/ \E j \in Jobs : Consumer!Arrive(j)
    PROVE  ConsumerInv'
<1> USE ConsumerAssumption DEF Consumer!round
<1>1. ASSUME NEW j \in Jobs, Consumer!Arrive(j) PROVE ConsumerInv'
  <2>1. ConsumerTypes'
    BY <1>1, Zenon DEF ConsumerInv, ConsumerTypes, States, Consumer!Arrive
  <2>2. Number(job', "created") = Number(job, "created") /\ Number(job', "running") = Number(job, "running")
    <3>1. /\ job \in [Jobs -> States] /\ job' \in [Jobs -> States]
          /\ job[j] = "none" /\ job'[j] = "queued" /\ \A k \in Jobs : k # j => job'[k] = job[k]
      BY <1>1, Zenon DEF ConsumerInv, ConsumerTypes, States, Consumer!Arrive
    <3>2. /\ Number(job', "none") = Number(job, "none") - 1
          /\ Number(job', "queued") = Number(job, "queued") + 1
          /\ \A q \in States : q # "queued" /\ q # "none" => Number(job', q) = Number(job, q)
      BY <3>1, NumberMoves
    <3> QED BY <3>2, Zenon DEF States
  <2> QED BY <1>1, <2>1, <2>2, Zenon DEF ConsumerInv, PermitsAdd, Consumer!Arrive
<1>2. ASSUME NEW j \in Jobs, Consumer!Begin(j) PROVE ConsumerInv'
  <2>1. ConsumerTypes'
    BY <1>2, Zenon DEF ConsumerInv, ConsumerTypes, States, Consumer!Begin
  <2>2. Number(job', "created") = Number(job, "created") - 1 /\ Number(job', "running") = Number(job, "running") + 1
    <3>1. /\ job \in [Jobs -> States] /\ job' \in [Jobs -> States]
          /\ job[j] = "created" /\ job'[j] = "running" /\ \A k \in Jobs : k # j => job'[k] = job[k]
      BY <1>2, Zenon DEF ConsumerInv, ConsumerTypes, States, Consumer!Begin
    <3>2. /\ Number(job', "created") = Number(job, "created") - 1
          /\ Number(job', "running") = Number(job, "running") + 1
          /\ \A q \in States : q # "running" /\ q # "created" => Number(job', q) = Number(job, q)
      BY <3>1, NumberMoves
    <3> QED BY <3>2, Zenon DEF States
  <2> QED BY <1>2, <2>1, <2>2, NumberTypes, SMTT(30)
             DEF ConsumerInv, ConsumerTypes, PermitsAdd, Consumer!Begin
<1>3. ASSUME NEW j \in Jobs, Consumer!Finish(j) PROVE ConsumerInv'
  <2>1. ConsumerTypes'
    BY <1>3 DEF ConsumerInv, ConsumerTypes, States, Consumer!Finish
  <2>2. Number(job', "created") = Number(job, "created") /\ Number(job', "running") = Number(job, "running") - 1
    <3>1. /\ job \in [Jobs -> States] /\ job' \in [Jobs -> States]
          /\ job[j] = "running" /\ job'[j] = "done" /\ \A k \in Jobs : k # j => job'[k] = job[k]
      BY <1>3, Zenon DEF ConsumerInv, ConsumerTypes, States, Consumer!Finish
    <3>2. /\ Number(job', "running") = Number(job, "running") - 1
          /\ Number(job', "done") = Number(job, "done") + 1
          /\ \A q \in States : q # "done" /\ q # "running" => Number(job', q) = Number(job, q)
      BY <3>1, NumberMoves
    <3> QED BY <3>2, Zenon DEF States
  <2> QED BY <1>3, <2>1, <2>2, NumberTypes, SMTT(30)
             DEF ConsumerInv, ConsumerTypes, PermitsAdd, Consumer!Finish
<1>4. CASE Consumer!Stop
  <2>1. \A S : Consumer!Cardinality(S) = Cardinality(S)
    BY Zenon DEF Consumer!Cardinality, Cardinality
  <2>2. /\ running /\ ~running' /\ UNCHANGED pc
        /\ sem' = sem + Number(job, "running") /\ leaked' = Number(job, "created")
    BY <1>4, <2>1, Zenon DEF Consumer!Stop, Consumer!InState, Number, In
  <2>3. ConsumerTypes'
    <3>1. sem' \in Nat /\ leaked' \in Nat
      BY <2>2, NumberTypes DEF ConsumerInv, ConsumerTypes
    <3>2. job' \in [Jobs -> {"none", "queued", "created", "running", "done", "cancelled"}]
      BY <1>4, Zenon DEF ConsumerInv, ConsumerTypes, States, Consumer!Stop
    <3> QED BY <1>4, <2>2, <3>1, <3>2, Zenon
               DEF ConsumerInv, ConsumerTypes, States, Consumer!Stop
  <2>4. In(job', "created") = {} /\ In(job', "running") = {}
    BY <1>4, Zenon DEF In, Consumer!Stop
  <2>5. Number(job', "created") = 0 /\ Number(job', "running") = 0
    BY <2>4, FS_EmptySet, Zenon DEF Number
  <2> QED BY <2>2, <2>3, <2>5, NumberTypes DEF ConsumerInv, ConsumerTypes, PermitsAdd
<1> QED BY <1>1, <1>2, <1>3, <1>4, Zenon DEF Consumer!JobStep

LEMMA ConsumerKept == ConsumerInv /\ [Consumer!Next]_Consumer!vars => ConsumerInv'
<1>1. ASSUME ConsumerInv, UNCHANGED Consumer!vars PROVE ConsumerInv'
  BY <1>1, Zenon DEF Consumer!vars, ConsumerInv, ConsumerTypes, PermitsAdd
<1> QED BY <1>1, IdleLoopStep, DequeueStep, JobsStep, Zenon
           DEF Consumer!Next, Consumer!LoopStep

\* Any number of tasks, capabilities and permits: a failing or empty dequeue gives
\* its permit back, an executed task too, and only stop loses permits, one for each
\* task it met before its first turn.
THEOREM PermitsCorrect == Consumer!Spec => []PermitsConserved
<1>1. ConsumerInv => PermitsConserved
  BY PermitsSame, Zenon DEF ConsumerInv
<1> QED BY <1>1, ConsumerStarts, ConsumerKept, PTL DEF Consumer!Spec

-----------------------------------------------------------------------------
\* The types of the executor, the consumer and the cron scheduler.
TypesOK == TypeOK /\ Consumer!TypeOK /\ Cron!TypeOK

\* Every part keeps its types: no permit counter, lease or backoff leaves its range.
THEOREM TypesCorrect == Spec /\ Consumer!Spec /\ Cron!Spec => []TypesOK
<1>1. ConsumerInv => Consumer!TypeOK
  BY NumberTypes, ConsumerAssumption
     DEF ConsumerInv, ConsumerTypes, States, PermitsAdd, Consumer!TypeOK
<1>2. CronInv => Cron!TypeOK
  BY Zenon DEF CronInv
<1> QED
  BY <1>1, <1>2, ExecutorTypeCorrect, ConsumerStarts, ConsumerKept, CronStarts, CronKept, PTL
     DEF TypesOK, Consumer!Spec, Cron!Spec

=============================================================================
