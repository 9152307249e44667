------------------------ MODULE TaskLifecycleProofs ------------------------
(***************************************************************************)
(* For any number of creators, workers, cancellers, reconcilers,           *)
(* compensators, retries and faults: MySQL knows a task before Redis does, *)
(* and a terminal row stays terminal.                                      *)
(*                                                                         *)
(* Nobody locks the row between reading and writing it.  What makes stale  *)
(* writes harmless is that a worker about to write has checked that what   *)
(* it writes is terminal (WriteChecked); what makes Redis come second is   *)
(* that no actor is past its first read as long as there is no row         *)
(* (NothingBeforeRow).                                                     *)
(***************************************************************************)
EXTENDS TaskLifecycle, TLAPS

\* A worker that will write the row will write a terminal status.
WriteChecked ==
    \A w \in Workers : worker[w].pc = "write" =>
        NextStatus(worker[w].seen, worker[w].outcome) \in Terminal

\* Without a row, a task that is to be persisted has left no trace anywhere.
Untouched ==
    /\ rec = NoRec /\ tx = NoTx /\ pending = FALSE /\ running = FALSE
    /\ \A c \in Creators : creator[c] \in {"insert", "done"}
    /\ \A w \in Workers : worker[w].pc = "idle"
    /\ \A r \in Reconcilers : recon[r].pc \in {"idle", "rebuild", "scan", "dead"}
    /\ \A k \in Compensators : comp[k].pc \in {"idle", "rows"}

NothingBeforeRow == durable /\ row = NoRow => Untouched

\* The inductive invariant.
LifecycleInv == TypeOK /\ WriteChecked /\ NothingBeforeRow

\* A transition of the state machine ends in a status or is illegal, and the
\* two of a completion end in a terminal status.
LEMMA NextStatusFacts ==
    ASSUME NEW seen, NEW outcome \in Terminal
    PROVE  NextStatus(seen, outcome) \in Terminal \cup {"illegal"}
  BY Zenon DEF NextStatus, Transition, Terminal

\* The empty row and the empty record are of their types.
LEMMA EmptyTypes ==
    /\ NoRow \in Rows /\ NoRec \in Recs
    /\ NoTx \in NoTx .. MaxTxRetries
    /\ 0 \in NoTx .. MaxTxRetries
  BY LifecycleAssumption DEF NoRow, NoRec, Rows, Recs, Attempts, NoTx

\* Creators keep the types.
LEMMA CreatorTypes ==
    ASSUME TypeOK, NEW c \in Creators, Create(c)
    PROVE  TypeOK'
  <1> USE LifecycleAssumption, EmptyTypes DEF TypeOK, redis, CreatorAt, CreatorPCs, Fault
  <1>1. CASE InsertRow(c)
    <2>1. [status |-> "queued", attempt |-> 0] \in Rows
      BY DEF Rows, Attempts, Active
    <2>2. row' \in Rows
      BY <1>1, <2>1, Zenon DEF InsertRow
    <2> QED
      BY <1>1, <2>2, Zenon DEF InsertRow
  <1>2. CASE InsertFails(c)
    BY <1>2 DEF InsertFails
  <1>3. CASE WriteRecord(c)
    <2>1. FreshRec \in Recs
      BY DEF FreshRec, Recs, Attempts, Active
    <2> QED
      BY <1>3, <2>1, Zenon DEF WriteRecord
  <1>4. CASE WriteRecordFails(c)
    BY <1>4 DEF WriteRecordFails
  <1>5. CASE SavePendingTx(c)
    BY <1>5 DEF SavePendingTx
  <1>6. CASE CreatorEnqueue(c)
    BY <1>6, Zenon DEF CreatorEnqueue
  <1>7. CASE CreatorCrash(c)
    BY <1>7 DEF CreatorCrash
  <1> QED
    BY <1>1, <1>2, <1>3, <1>4, <1>5, <1>6, <1>7, Zenon DEF Create

\* A cancel keeps the types.
LEMMA CancelTypes ==
    ASSUME TypeOK, NEW x \in Cancellers, CancelRead(x) \/ CancelCommit(x)
    PROVE  TypeOK'
  <1> USE DEF TypeOK, redis
  <1>1. CASE CancelRead(x)
    BY <1>1, Zenon DEF CancelRead
  <1>2. CASE CancelCommit(x)
    BY <1>2, Zenon DEF CancelCommit, Rows, Terminal
  <1> QED
    BY <1>1, <1>2, Zenon

WorkerStates == [pc : WorkerPCs, seen : {r.status : r \in Rows}, outcome : Terminal]

\* A step of a worker keeps the types if what it writes is of its type.
LEMMA WorkerMove ==
    ASSUME TypeOK, worker' \in [Workers -> WorkerStates], row' \in Rows,
           pending' \in BOOLEAN, running' \in BOOLEAN, lock' \in Workers \cup {Nobody},
           UNCHANGED <<rec, dedup, tx, leader>>, UNCHANGED faults \/ Fault,
           UNCHANGED <<old, durable, creator, cancel, recon, comp>>
    PROVE  TypeOK'
  BY LifecycleAssumption DEF TypeOK, Fault, WorkerStates

\* Workers keep the types; PersistWrite because of the check before it.
LEMMA WorkerTypes ==
    ASSUME TypeOK, WriteChecked, NEW w \in Workers, Work(w)
    PROVE  TypeOK'
  <1>0. /\ worker \in [Workers -> WorkerStates] /\ row \in Rows
        /\ pending \in BOOLEAN /\ running \in BOOLEAN
        /\ lock \in Workers \cup {Nobody}
    BY Zenon DEF TypeOK, WorkerStates
  <1>a. IdleWorker \in WorkerStates
    BY EmptyTypes DEF IdleWorker, NoRow, Terminal, WorkerPCs, WorkerStates
  <1> USE <1>0, <1>a DEF redis, WorkerAt
  <1>1. CASE Pop(w)
    <2>1. worker' \in [Workers -> WorkerStates]
      BY <1>1, Zenon DEF Pop, WorkerPCs, WorkerStates
    <2> QED
      BY <1>1, <2>1, WorkerMove, Zenon DEF Pop
  <1>2. CASE TakeLock(w)
    <2>1. [worker[w] EXCEPT !.pc = "executing"] \in WorkerStates
      BY Zenon DEF WorkerPCs, WorkerStates
    <2>2. worker' \in [Workers -> WorkerStates]
      BY <1>2, <2>1, Zenon DEF TakeLock
    <2> QED
      BY <1>2, <2>2, WorkerMove, Zenon DEF TakeLock
  <1>3. CASE FireStart(w)
    BY <1>3, Zenon DEF FireStart, Transition, Rows, Active, actors, TypeOK
  <1>4. CASE Execute(w)
    <2>1. \A o \in Terminal : [worker[w] EXCEPT !.pc = "persist", !.outcome = o]
                                 \in WorkerStates
      BY Zenon DEF WorkerPCs, WorkerStates
    <2>2. worker' \in [Workers -> WorkerStates]
      BY <1>4, <2>1, Zenon DEF Execute
    <2> QED
      BY <1>4, <2>2, WorkerMove, Zenon DEF Execute
  <1>5. CASE PersistRead(w)
    <2>1. worker' \in [Workers -> WorkerStates]
      BY <1>5, Zenon DEF PersistRead, WorkerPCs, WorkerStates
    <2> QED
      BY <1>5, <2>1, WorkerMove, Zenon DEF PersistRead
  <1>6. CASE PersistWrite(w)
    <2>1. NextStatus(worker[w].seen, worker[w].outcome) \in Terminal
      BY <1>6, Zenon DEF PersistWrite, WriteChecked
    <2>2. row' \in Rows
      BY <1>6, <2>1, Zenon DEF PersistWrite, Rows
    <2>3. worker' \in [Workers -> WorkerStates]
      BY <1>6, Zenon DEF PersistWrite, WorkerPCs, WorkerStates
    <2> QED
      BY <1>6, <2>2, <2>3, WorkerMove, Zenon DEF PersistWrite
  <1>7. CASE Release(w)
    BY <1>7, WorkerMove, Zenon DEF Release
  <1>8. CASE WorkerCrash(w)
    BY <1>8, WorkerMove, Zenon DEF WorkerCrash
  <1> QED
    BY <1>1, <1>2, <1>3, <1>4, <1>5, <1>6, <1>7, <1>8, Zenon DEF Work

\* A reconciler that moves to a state of its type keeps the types, if what it
\* does to MySQL and Redis does.
LEMMA ReconMove ==
    ASSUME TypeOK, NEW r \in Reconcilers, NEW from,
           NEW to \in [pc : ReconPCs, row : Rows, rec : Recs], ReconAt(r, from, to),
           row' \in Rows, rec' \in Recs, pending' \in BOOLEAN, dedup' \in BOOLEAN,
           leader' \in Reconcilers \cup {Nobody}, UNCHANGED <<running, lock, tx>>,
           UNCHANGED faults \/ Fault
    PROVE  TypeOK'
  BY LifecycleAssumption DEF TypeOK, ReconAt, Fault

\* Reconcilers keep the types.
LEMMA ReconTypes ==
    ASSUME TypeOK, NEW r \in Reconcilers,
           Reconcile(r) \/ RebuildFails(r) \/ LoopDies(r) \/ Phase2Fails(r)
    PROVE  TypeOK'
  <1> DEFINE State == [pc : ReconPCs, row : Rows, rec : Recs]
  <1>0. /\ recon[r] \in State /\ row \in Rows /\ rec \in Recs
        /\ pending \in BOOLEAN /\ dedup \in BOOLEAN
        /\ leader \in Reconcilers \cup {Nobody}
    BY Zenon DEF TypeOK
  <1>1. IdleRecon \in State /\ ToScan \in State /\ EndTick \in State
    BY EmptyTypes, Zenon DEF IdleRecon, ToScan, EndTick, ReconPCs
  <1>2. ASSUME NEW pc \in ReconPCs PROVE Goto(r, pc) \in State
    BY <1>0, Zenon DEF Goto
  <1>3. AfterCache(r) \in State
    BY <1>1, <1>2 DEF AfterCache, ReconPCs
  <1> HIDE DEF State
  <1> USE <1>0, <1>1, <1>2, <1>3, ReconMove DEF redis
  <1>4. CASE TryBecomeLeader(r)
    BY <1>4, Zenon DEF TryBecomeLeader, ReconPCs, State
  <1>5. CASE RebuildRead(r)
    BY <1>5, Zenon DEF RebuildRead, ReconPCs, State
  <1>6. CASE RebuildGet(r)
    BY <1>6, Zenon DEF RebuildGet, ReconPCs, State
  <1>7. CASE RebuildSet(r)
    <2>1. RebuiltRec(recon[r].row) \in Recs
      BY LifecycleAssumption, Zenon DEF RebuiltRec, Recs, Rows, State
    <2> QED
      BY <1>7, <2>1, Zenon DEF RebuildSet, State
  <1>8. CASE RebuildScore(r)
    BY <1>8, Zenon DEF RebuildScore, ReconPCs, State
  <1>9. CASE RebuildAdd(r)
    BY <1>9, Zenon DEF RebuildAdd, State
  <1>10. CASE ScanTaskBatch(r)
    BY <1>10, EmptyTypes DEF ScanTaskBatch, ReconPCs, State
  <1>11. CASE Phase1DoubleWrite(r)
    BY <1>11, Zenon DEF Phase1DoubleWrite, State
  <1>12. CASE Phase2Locks(r)
    BY <1>12, Zenon DEF Phase2Locks, ReconPCs, State
  <1>13. CASE Phase2Dedup(r)
    BY <1>13, Zenon DEF Phase2Dedup, ReconPCs, State
  <1>14. CASE Phase2Bump(r)
    <2>1. Bump(row) \in Rows
      BY LifecycleAssumption DEF Bump, Rows, Attempts
    <2> QED
      BY <1>14, <2>1 DEF Phase2Bump, ReconPCs, State
  <1>15. CASE Phase2Requeue(r)
    BY <1>15, Zenon DEF Phase2Requeue, State
  <1>16. CASE Phase2FailRead(r)
    BY <1>16, EmptyTypes, Zenon DEF Phase2FailRead, ReconPCs, State
  <1>17. CASE Phase2FailWrite(r)
    <2>1. rec' \in Recs
      BY <1>17, ZenonT(30) DEF Phase2FailWrite, Transition, Recs, State, Terminal
    <2> QED
      BY <1>17, <2>1, Zenon DEF Phase2FailWrite, State
  <1>18. CASE RebuildFails(r)
    BY <1>18, Zenon DEF RebuildFails, State
  <1>19. CASE LoopDies(r)
    BY <1>19 DEF LoopDies, ReconPCs, State
  <1>20. CASE Phase2Fails(r)
    BY <1>20, Zenon DEF Phase2Fails, State
  <1> QED
    BY <1>4, <1>5, <1>6, <1>7, <1>8, <1>9, <1>10, <1>11, <1>12, <1>13, <1>14,
       <1>15, <1>16, <1>17, <1>18, <1>19, <1>20, Zenon DEF Reconcile

CompStates == [pc : CompPCs, tx : NoTx .. MaxTxRetries, row : Rows]

\* A step of a compensator keeps the types if what it writes is of its type.
LEMMA CompMove ==
    ASSUME TypeOK, comp' \in [Compensators -> CompStates], rec' \in Recs,
           tx' \in NoTx .. MaxTxRetries,
           UNCHANGED <<row, pending, running, lock, dedup, leader>>,
           UNCHANGED faults \/ Fault,
           UNCHANGED <<old, durable, creator, cancel, worker, recon>>
    PROVE  TypeOK'
  BY LifecycleAssumption DEF TypeOK, Fault, CompStates

\* What the compensation writes to Redis is a record.
LEMMA RepairedType ==
    ASSUME NEW rw \in Rows PROVE RepairedRec(rw) \in Recs
  BY LifecycleAssumption DEF RepairedRec, Recs, Rows, Attempts

\* Compensators keep the types.
LEMMA CompTypes ==
    ASSUME TypeOK, NEW k \in Compensators,
           Compensate(k) \/ RepairFails(k) \/ CompensationFails(k)
    PROVE  TypeOK'
  <1>0. /\ comp \in [Compensators -> CompStates] /\ row \in Rows /\ rec \in Recs
        /\ tx \in NoTx .. MaxTxRetries
    BY Zenon DEF TypeOK, CompStates
  <1>a. IdleComp \in CompStates /\ [IdleComp EXCEPT !.pc = "rows"] \in CompStates
    BY EmptyTypes, Zenon DEF IdleComp, CompPCs, CompStates
  <1> USE <1>0, <1>a, EmptyTypes DEF redis, CompAt
  <1>1. CASE ScanTransactions(k)
    <2>1. comp' \in [Compensators -> CompStates]
      BY <1>1, Zenon DEF ScanTransactions, CompPCs, CompStates
    <2> QED
      BY <1>1, <2>1, CompMove, Zenon DEF ScanTransactions
  <1>2. CASE RepairRead(k)
    <2>1. [comp[k] EXCEPT !.pc = "write", !.row = row] \in CompStates
      BY Zenon DEF CompPCs, CompStates
    <2>2. comp' \in [Compensators -> CompStates]
      BY <1>2, <2>1, Zenon DEF RepairRead
    <2> QED
      BY <1>2, <2>2, CompMove, Zenon DEF RepairRead
  <1>3. CASE RepairWrite(k)
    <2>1. comp' \in [Compensators -> CompStates] /\ comp[k].row \in Rows
      BY <1>3, Zenon DEF RepairWrite, CompPCs, CompStates
    <2> QED
      BY <1>3, <2>1, CompMove, RepairedType, Zenon DEF RepairWrite
  <1>4. CASE RepairCommit(k)
    BY <1>4, CompMove, Zenon DEF RepairCommit
  <1>5. CASE ScanActiveRows(k)
    <2>1. [comp[k] EXCEPT !.pc = "exists", !.row = row] \in CompStates
      BY Zenon DEF CompPCs, CompStates
    <2>2. comp' \in [Compensators -> CompStates]
      BY <1>5, <2>1, Zenon DEF ScanActiveRows
    <2> QED
      BY <1>5, <2>2, CompMove, Zenon DEF ScanActiveRows
  <1>6. CASE ScanMissing(k)
    <2>1. [comp[k] EXCEPT !.pc = "repair"] \in CompStates
      BY Zenon DEF CompPCs, CompStates
    <2>2. comp' \in [Compensators -> CompStates]
      BY <1>6, <2>1, Zenon DEF ScanMissing
    <2> QED
      BY <1>6, <2>2, CompMove, Zenon DEF ScanMissing
  <1>7. CASE RepairMissingTask(k)
    <2>1. comp[k].row \in Rows
      BY Zenon DEF CompStates
    <2> QED
      BY <1>7, <2>1, CompMove, RepairedType, Zenon DEF RepairMissingTask
  <1>8. CASE RepairFails(k)
    <2>1. comp[k].tx + 1 \in NoTx .. MaxTxRetries
      BY <1>8, LifecycleAssumption DEF RepairFails, CompStates, NoTx
    <2> QED
      BY <1>8, <2>1, CompMove, Zenon DEF RepairFails
  <1>9. CASE CompensationFails(k)
    BY <1>9, CompMove, Zenon DEF CompensationFails
  <1> QED
    BY <1>1, <1>2, <1>3, <1>4, <1>5, <1>6, <1>7, <1>8, <1>9, Zenon DEF Compensate

\* Time, expiries and losses keep the types.
LEMMA EnvironmentMove ==
    ASSUME TypeOK, rec' \in {rec, NoRec}, pending' \in {pending, FALSE},
           running' \in {running, FALSE}, lock' \in {lock, Nobody},
           dedup' \in {dedup, FALSE}, tx' \in {tx, NoTx}, leader' \in {leader, Nobody},
           old' \in BOOLEAN, UNCHANGED <<row, actors>>, UNCHANGED faults \/ Fault
    PROVE  TypeOK'
  <1>1. rec' \in Recs /\ tx' \in NoTx .. MaxTxRetries /\ row' \in Rows
    BY EmptyTypes, Zenon DEF TypeOK
  <1>2. {pending', running', dedup', old', durable'} \subseteq BOOLEAN
    BY Zenon DEF TypeOK, actors
  <1>3. lock' \in Workers \cup {Nobody} /\ leader' \in Reconcilers \cup {Nobody}
    BY Zenon DEF TypeOK
  <1>4. faults' \in 0 .. MaxFaults
    BY LifecycleAssumption DEF TypeOK, Fault
  <1> QED
    BY <1>1, <1>2, <1>3, <1>4, Zenon DEF TypeOK, actors

LEMMA EnvironmentTypes ==
    ASSUME TypeOK, Age \/ Expire \/ LeaderExpires \/ RedisLost
    PROVE  TypeOK'
  <1>0. old \in BOOLEAN
    BY Zenon DEF TypeOK
  <1> USE <1>0, EnvironmentMove DEF redis
  <1>1. CASE Age
    BY <1>1, Zenon DEF Age
  <1>2. CASE Expire
    BY <1>2, Zenon DEF Expire, RecordExpires, LockExpires, DedupExpires, TxExpires,
       PendingExpires, CleanupStaleRunning
  <1>3. CASE LeaderExpires
    BY <1>3, Zenon DEF LeaderExpires
  <1>4. CASE RedisLost
    BY <1>4, Zenon DEF RedisLost
  <1> QED
    BY <1>1, <1>2, <1>3, <1>4, Zenon

\* Every step keeps the types.
LEMMA LifecycleTypeStep ==
    ASSUME TypeOK, WriteChecked, [Next]_vars
    PROVE  TypeOK'
  <1>1. CASE UNCHANGED vars
    BY <1>1, Zenon DEF TypeOK, vars, redis, actors
  <1> QED
    BY <1>1, CreatorTypes, CancelTypes, WorkerTypes, ReconTypes, CompTypes,
       EnvironmentTypes, Zenon DEF Next

\* Only a worker's own steps change what it is about to write, and it gets to
\* write only after the check.
LEMMA WriteCheckedStep ==
    ASSUME TypeOK, WriteChecked, [Next]_vars
    PROVE  WriteChecked'
  <1>1. ASSUME UNCHANGED worker PROVE WriteChecked'
    BY <1>1, Zenon DEF WriteChecked
  <1>2. ASSUME NEW w \in Workers, NEW from, NEW to, WorkerAt(w, from, to),
               to.pc = "write" => NextStatus(to.seen, to.outcome) \in Terminal
        PROVE  WriteChecked'
    BY <1>2, Zenon DEF WriteChecked, WorkerAt, TypeOK
  <1>3. ASSUME NEW w \in Workers, Work(w) PROVE WriteChecked'
    <2>0. worker[w] \in WorkerStates
      BY Zenon DEF TypeOK, WorkerStates
    <2>1. IdleWorker.pc = "idle"
      BY Zenon DEF IdleWorker
    <2>2. ASSUME NEW pc PROVE [worker[w] EXCEPT !.pc = pc].pc = pc
      BY <2>0, Zenon DEF WorkerStates
    <2>3. CASE PersistRead(w)
      <3> DEFINE to == [worker[w] EXCEPT
                          !.pc = IF PersistRaises(worker[w].outcome)
                                 THEN "release" ELSE "write",
                          !.seen = row.status]
      <3>1. /\ to.pc = (IF PersistRaises(worker[w].outcome) THEN "release" ELSE "write")
            /\ to.seen = row.status /\ to.outcome = worker[w].outcome
        BY <2>0, Zenon DEF WorkerStates
      <3>2. worker[w].outcome \in Terminal
        BY <2>0, Zenon DEF WorkerStates
      <3>3. to.pc = "write" => NextStatus(to.seen, to.outcome) \in Terminal
        BY <3>1, <3>2, NextStatusFacts DEF PersistRaises
      <3>4. WorkerAt(w, "persist", to)
        BY <2>3, Zenon DEF PersistRead
      <3> HIDE DEF to
      <3> QED
        BY <1>2, <3>3, <3>4, Zenon
    <2>4. CASE Execute(w)
      <3>1. PICK o \in Terminal : WorkerAt(w, "executing",
               [worker[w] EXCEPT !.pc = "persist", !.outcome = o])
        BY <2>4, Zenon DEF Execute
      <3>2. [worker[w] EXCEPT !.pc = "persist", !.outcome = o].pc = "persist"
        BY <2>0, Zenon DEF WorkerStates
      <3> QED
        BY <1>2, <3>1, <3>2, Zenon
    <2>5. CASE FireStart(w)
      BY <1>1, <2>5, Zenon DEF FireStart, actors
    <2>6. CASE Pop(w)
      BY <1>2, <2>2, <2>6, Zenon DEF Pop
    <2>7. CASE TakeLock(w)
      BY <1>2, <2>1, <2>2, <2>7, Zenon DEF TakeLock
    <2>8. CASE PersistWrite(w)
      BY <1>2, <2>2, <2>8, Zenon DEF PersistWrite
    <2>9. CASE Release(w) \/ WorkerCrash(w)
      BY <1>2, <2>1, <2>9, Zenon DEF Release, WorkerCrash
    <2> QED
      BY <1>3, <2>3, <2>4, <2>5, <2>6, <2>7, <2>8, <2>9, Zenon DEF Work
  <1>4. ASSUME NEW c \in Creators, Create(c) PROVE UNCHANGED worker
    BY <1>4, Zenon DEF Create, CreatorAt, InsertRow, InsertFails, WriteRecord,
       WriteRecordFails, SavePendingTx, CreatorEnqueue, CreatorCrash
  <1>5. ASSUME NEW r \in Reconcilers,
               Reconcile(r) \/ RebuildFails(r) \/ LoopDies(r) \/ Phase2Fails(r)
        PROVE  UNCHANGED worker
    BY <1>5, Zenon DEF Reconcile, RebuildFails, LoopDies, Phase2Fails, ReconAt,
       TryBecomeLeader, RebuildRead, RebuildGet, RebuildSet, RebuildScore,
       RebuildAdd, ScanTaskBatch, Phase1DoubleWrite, Phase2Locks, Phase2Dedup,
       Phase2Bump, Phase2Requeue, Phase2FailRead, Phase2FailWrite
  <1>6. ASSUME NEW k \in Compensators,
               Compensate(k) \/ RepairFails(k) \/ CompensationFails(k)
        PROVE  UNCHANGED worker
    BY <1>6, Zenon DEF Compensate, RepairFails, CompensationFails, CompAt,
       ScanTransactions, RepairRead, RepairWrite, RepairCommit, ScanActiveRows,
       ScanMissing, RepairMissingTask
  <1>7. ASSUME NEW x \in Cancellers, CancelRead(x) \/ CancelCommit(x)
        PROVE  UNCHANGED worker
    BY <1>7, Zenon DEF CancelRead, CancelCommit
  <1>8. CASE UNCHANGED vars \/ Age \/ Expire \/ LeaderExpires \/ RedisLost
    BY <1>1, <1>8, Zenon DEF vars, actors, Age, Expire, LeaderExpires, RedisLost
  <1> QED
    BY <1>1, <1>3, <1>4, <1>5, <1>6, <1>7, <1>8, Zenon DEF Next

\* A row does not go away, and a terminal row stays terminal.
RowKept ==
    /\ row # NoRow => row' # NoRow
    /\ row.status \in Terminal => row'.status \in Terminal

\* No step takes a row away or brings it back from a terminal status.
LEMMA RowStep ==
    ASSUME TypeOK, WriteChecked, [Next]_vars
    PROVE  RowKept
  <1>0. row \in Rows
    BY Zenon DEF TypeOK
  <1>1. ASSUME UNCHANGED row PROVE RowKept
    BY <1>1, Zenon DEF RowKept
  <1>2. ASSUME row'.status \in Terminal PROVE RowKept
    BY <1>2 DEF RowKept, NoRow, Terminal
  <1>3. ASSUME NEW c \in Creators, Create(c) PROVE RowKept
    <2>1. CASE InsertRow(c)
      BY <2>1 DEF InsertRow, RowKept, NoRow, Terminal
    <2>2. CASE ~InsertRow(c)
      BY <1>1, <1>3, <2>2, Zenon DEF Create, InsertFails, WriteRecord, WriteRecordFails,
         SavePendingTx, CreatorEnqueue, CreatorCrash
    <2> QED
      BY <2>1, <2>2, Zenon
  <1>4. ASSUME NEW x \in Cancellers, CancelRead(x) \/ CancelCommit(x) PROVE RowKept
    <2>1. CASE CancelCommit(x)
      BY <1>0, <1>2, <2>1, Zenon DEF CancelCommit, Rows, Terminal
    <2>2. CASE CancelRead(x)
      BY <1>1, <2>2, Zenon DEF CancelRead
    <2> QED
      BY <1>4, <2>1, <2>2, Zenon
  <1>5. ASSUME NEW w \in Workers, Work(w) PROVE RowKept
    <2>1. CASE FireStart(w)
      <3>1. row'.status = "running" /\ row.status = "queued"
        BY <1>0, <2>1, Zenon DEF FireStart, Rows, Transition
      <3> QED
        BY <3>1 DEF RowKept, NoRow, Terminal
    <2>2. CASE PersistWrite(w)
      <3>1. NextStatus(worker[w].seen, worker[w].outcome) \in Terminal
        BY <2>2, Zenon DEF PersistWrite, WorkerAt, WriteChecked
      <3> QED
        BY <1>0, <1>2, <2>2, <3>1, Zenon DEF PersistWrite, Rows
    <2>3. CASE ~FireStart(w) /\ ~PersistWrite(w)
      BY <1>1, <1>5, <2>3, Zenon DEF Work, Pop, TakeLock, Execute, PersistRead, Release,
         WorkerCrash
    <2> QED
      BY <2>1, <2>2, <2>3, Zenon
  <1>6. ASSUME NEW r \in Reconcilers,
               Reconcile(r) \/ RebuildFails(r) \/ LoopDies(r) \/ Phase2Fails(r)
        PROVE  RowKept
    <2>1. CASE Phase2Bump(r)
      <3>1. CASE row' = Bump(row) /\ row # NoRow
        <4>1. row'.status = row.status /\ (row.attempt # 0 => row'.attempt # 0)
              /\ (row' = NoRow => row'.attempt = 0)
          BY <1>0, <3>1, LifecycleAssumption DEF Bump, Rows, Attempts, NoRow
        <4>2. row' = NoRow => row.attempt = 0 /\ row.status = "none"
          BY <4>1 DEF NoRow
        <4>3. row.attempt = 0 /\ row.status = "none" => row = NoRow
          BY <1>0, Zenon DEF Rows, NoRow
        <4> QED
          BY <3>1, <4>1, <4>2, <4>3, Zenon DEF RowKept
      <3>2. CASE UNCHANGED row
        BY <1>1, <3>2, Zenon
      <3> QED
        BY <2>1, <3>1, <3>2, Zenon DEF Phase2Bump
    <2>2. CASE ~Phase2Bump(r)
      BY <1>1, <1>6, <2>2, Zenon DEF Reconcile, RebuildFails, LoopDies, Phase2Fails,
         TryBecomeLeader, RebuildRead, RebuildGet, RebuildSet, RebuildScore,
         RebuildAdd, ScanTaskBatch, Phase1DoubleWrite, Phase2Locks, Phase2Dedup,
         Phase2Requeue, Phase2FailRead, Phase2FailWrite
    <2> QED
      BY <2>1, <2>2, Zenon
  <1>7. ASSUME NEW k \in Compensators,
               Compensate(k) \/ RepairFails(k) \/ CompensationFails(k)
        PROVE  RowKept
    BY <1>1, <1>7, Zenon DEF Compensate, RepairFails, CompensationFails,
       ScanTransactions, RepairRead, RepairWrite, RepairCommit, ScanActiveRows,
       ScanMissing, RepairMissingTask
  <1>8. CASE UNCHANGED vars \/ Age \/ Expire \/ LeaderExpires \/ RedisLost
    BY <1>1, <1>8, Zenon DEF vars, Age, Expire, LeaderExpires, RedisLost,
       RecordExpires, LockExpires, DedupExpires, TxExpires, PendingExpires,
       CleanupStaleRunning
  <1> QED
    BY <1>3, <1>4, <1>5, <1>6, <1>7, <1>8, Zenon DEF Next

\* As long as there is no row, no step of any actor leaves a trace.
LEMMA UntouchedStep ==
    ASSUME TypeOK, Untouched, durable, row = NoRow, row' = NoRow, [Next]_vars
    PROVE  Untouched'
  <1> DEFINE Stores == <<rec, tx, pending, running>>
  <1>0. row.status = "none" /\ rec.ttl = FALSE
    BY Zenon DEF Untouched, NoRow, NoRec
  <1>1. ASSUME NEW c \in Creators, Create(c) PROVE Untouched'
    <2>1. InsertRow(c) \/ InsertFails(c) \/ CreatorCrash(c)
      BY <1>1, Zenon DEF Untouched, Create, WriteRecord, WriteRecordFails, SavePendingTx,
         CreatorEnqueue, CreatorAt
    <2>2. ~InsertRow(c)
      BY Zenon DEF InsertRow, NoRow
    <2>3. CreatorAt(c, creator[c], "done") /\ UNCHANGED Stores
      BY <2>1, <2>2, Zenon DEF InsertFails, CreatorCrash, redis, CreatorAt
    <2> QED
      BY <2>3, Zenon DEF CreatorAt, TypeOK, Untouched
  <1>2. ASSUME NEW x \in Cancellers, CancelRead(x) \/ CancelCommit(x) PROVE Untouched'
    <2>1. ~CancelCommit(x)
      <3>1. ASSUME CancelCommit(x) PROVE row'.status = "cancelled"
        BY <3>1, Zenon DEF CancelCommit, NoRow
      <3> QED
        BY <3>1, Zenon DEF NoRow
    <2> QED
      BY <1>2, <2>1, Zenon DEF CancelRead
  <1>3. ASSUME NEW w \in Workers, Work(w) PROVE FALSE
    BY <1>3, Zenon DEF Untouched, Work, Pop, TakeLock, FireStart, Execute, PersistRead,
       PersistWrite, Release, WorkerCrash, WorkerAt
  <1>4. ASSUME NEW r \in Reconcilers, NEW from, NEW to, ReconAt(r, from, to),
               to.pc \in {"idle", "rebuild", "scan", "dead"}, UNCHANGED Stores
        PROVE  Untouched'
    BY <1>4, Zenon DEF ReconAt, TypeOK, Untouched
  <1>5. ASSUME NEW r \in Reconcilers,
               Reconcile(r) \/ RebuildFails(r) \/ LoopDies(r) \/ Phase2Fails(r)
        PROVE  Untouched'
    <2>1. recon[r].pc \in {"idle", "rebuild", "scan", "dead"}
      BY Zenon DEF Untouched
    <2>2. /\ ToScan.pc = "scan" /\ EndTick.pc = "idle"
          /\ [IdleRecon EXCEPT !.pc = "dead"].pc = "dead"
      BY Zenon DEF ToScan, EndTick, IdleRecon
    <2>3. Goto(r, "rebuild").pc = "rebuild"
      BY Zenon DEF Goto, TypeOK
    <2>4. \/ TryBecomeLeader(r) \/ RebuildRead(r) \/ ScanTaskBatch(r)
          \/ RebuildFails(r) \/ LoopDies(r)
      BY <1>5, <2>1, Zenon DEF Reconcile, RebuildGet, RebuildSet, RebuildScore, RebuildAdd,
         Phase1DoubleWrite, Phase2Locks, Phase2Dedup, Phase2Bump, Phase2Requeue,
         Phase2FailRead, Phase2FailWrite, Phase2Fails, ReconAt
    <2>5. CASE TryBecomeLeader(r)
      BY <1>4, <2>3, <2>5, Zenon DEF TryBecomeLeader
    <2>6. CASE RebuildRead(r)
      BY <1>4, <2>2, <2>6, Zenon DEF RebuildRead, redis
    <2>7. CASE ScanTaskBatch(r)
      <3>1. ReconAt(r, "scan", EndTick) /\ UNCHANGED Stores
        BY <2>7, Zenon DEF ScanTaskBatch, redis, Untouched
      <3> QED
        BY <1>4, <2>2, <3>1, Zenon
    <2>8. CASE RebuildFails(r)
      BY <1>4, <2>2, <2>8, Zenon DEF RebuildFails, redis
    <2>9. CASE LoopDies(r)
      BY <1>4, <2>2, <2>9, Zenon DEF LoopDies, redis
    <2> QED
      BY <2>4, <2>5, <2>6, <2>7, <2>8, <2>9, Zenon
  <1>6. ASSUME NEW k \in Compensators, NEW from, NEW to, CompAt(k, from, to),
               to.pc \in {"idle", "rows"}, UNCHANGED Stores
        PROVE  Untouched'
    BY <1>6, Zenon DEF CompAt, TypeOK, Untouched
  <1>7. ASSUME NEW k \in Compensators,
               Compensate(k) \/ RepairFails(k) \/ CompensationFails(k)
        PROVE  Untouched'
    <2>1. comp[k].pc \in {"idle", "rows"} /\ tx = NoTx
      BY Zenon DEF Untouched
    <2>2. IdleComp.pc = "idle" /\ [comp[k] EXCEPT !.pc = "rows", !.tx = tx].pc = "rows"
      BY Zenon DEF IdleComp, TypeOK
    <2>3. ScanTransactions(k) \/ ScanActiveRows(k) \/ CompensationFails(k)
      BY <1>7, <2>1, Zenon
         DEF Compensate, RepairRead, RepairWrite, RepairCommit, ScanMissing,
         RepairMissingTask, RepairFails, CompAt
    <2>4. CASE ScanTransactions(k)
      BY <1>6, <2>1, <2>2, <2>4, Zenon DEF ScanTransactions, redis
    <2>5. CASE ScanActiveRows(k)
      BY <1>0, <1>6, <2>2, <2>5, Zenon DEF ScanActiveRows, redis, Active
    <2>6. CASE CompensationFails(k)
      BY <1>6, <2>2, <2>6, Zenon DEF CompensationFails, redis
    <2> QED
      BY <2>3, <2>4, <2>5, <2>6, Zenon
  <1>8. CASE UNCHANGED vars \/ Age \/ Expire \/ LeaderExpires \/ RedisLost
    <2>1. UNCHANGED actors
      BY <1>8, Zenon DEF vars, Age, Expire, LeaderExpires, RedisLost, actors
    <2>2. rec' = NoRec /\ tx' = NoTx /\ pending' = FALSE /\ running' = FALSE
      BY <1>0, <1>8, Zenon
         DEF vars, redis, Age, Expire, LeaderExpires, RedisLost, Untouched,
         RecordExpires, LockExpires, DedupExpires, TxExpires, PendingExpires,
         CleanupStaleRunning
    <2> QED
      BY <2>1, <2>2, Zenon DEF actors, Untouched
  <1> QED
    BY <1>1, <1>2, <1>3, <1>5, <1>7, <1>8, Zenon DEF Next

\* durable is chosen once.
LEMMA DurableFixed ==
    ASSUME [Next]_vars
    PROVE  UNCHANGED durable
  <1>1. ASSUME NEW c \in Creators, Create(c) PROVE UNCHANGED durable
    BY <1>1, Zenon DEF Create, CreatorAt, InsertRow, InsertFails, WriteRecord,
       WriteRecordFails, SavePendingTx, CreatorEnqueue, CreatorCrash
  <1>2. ASSUME NEW w \in Workers, Work(w) PROVE UNCHANGED durable
    BY <1>2, Zenon DEF Work, Pop, TakeLock, FireStart, Execute, PersistRead, PersistWrite,
       Release, WorkerCrash, WorkerAt, actors
  <1>3. ASSUME NEW r \in Reconcilers,
               Reconcile(r) \/ RebuildFails(r) \/ LoopDies(r) \/ Phase2Fails(r)
        PROVE  UNCHANGED durable
    BY <1>3, Zenon DEF Reconcile, RebuildFails, LoopDies, Phase2Fails, ReconAt,
       TryBecomeLeader, RebuildRead, RebuildGet, RebuildSet, RebuildScore,
       RebuildAdd, ScanTaskBatch, Phase1DoubleWrite, Phase2Locks, Phase2Dedup,
       Phase2Bump, Phase2Requeue, Phase2FailRead, Phase2FailWrite
  <1>4. ASSUME NEW k \in Compensators,
               Compensate(k) \/ RepairFails(k) \/ CompensationFails(k)
        PROVE  UNCHANGED durable
    BY <1>4, Zenon DEF Compensate, RepairFails, CompensationFails, CompAt,
       ScanTransactions, RepairRead, RepairWrite, RepairCommit, ScanActiveRows,
       ScanMissing, RepairMissingTask
  <1>5. ASSUME NEW x \in Cancellers, CancelRead(x) \/ CancelCommit(x)
        PROVE  UNCHANGED durable
    BY <1>5, Zenon DEF CancelRead, CancelCommit
  <1>6. CASE UNCHANGED vars \/ Age \/ Expire \/ LeaderExpires \/ RedisLost
    BY <1>6, Zenon DEF vars, actors, Age, Expire, LeaderExpires, RedisLost
  <1> QED
    BY <1>1, <1>2, <1>3, <1>4, <1>5, <1>6, Zenon DEF Next

\* The invariant holds in every reachable state.
THEOREM LifecycleInvariance == Spec => []LifecycleInv
  <1>1. Init => LifecycleInv
    <2> SUFFICES ASSUME Init PROVE LifecycleInv
      OBVIOUS
    <2> USE LifecycleAssumption, EmptyTypes DEF Init
    <2>1. TypeOK
      <3>1. IdleWorker \in WorkerStates
        BY DEF IdleWorker, WorkerStates, WorkerPCs, Terminal, NoRow
      <3>2. IdleRecon \in [pc : ReconPCs, row : Rows, rec : Recs]
        BY Zenon DEF IdleRecon, ReconPCs
      <3>3. IdleComp \in CompStates
        BY Zenon DEF IdleComp, CompStates, CompPCs
      <3>4. /\ worker \in [Workers -> WorkerStates] /\ comp \in [Compensators -> CompStates]
            /\ recon \in [Reconcilers -> [pc : ReconPCs, row : Rows, rec : Recs]]
        BY <3>1, <3>2, <3>3, Zenon
      <3>5. {pending, running, dedup, old, durable} \subseteq BOOLEAN
        OBVIOUS
      <3>6. creator \in [Creators -> CreatorPCs]
        BY Zenon DEF CreatorPCs
      <3>7. faults \in 0 .. MaxFaults
        OBVIOUS
      <3> QED
        BY <3>4, <3>5, <3>6, <3>7, Zenon DEF TypeOK, WorkerStates, CompStates
    <2>2. WriteChecked
      BY Zenon DEF WriteChecked, IdleWorker
    <2>3. NothingBeforeRow
      BY Zenon DEF NothingBeforeRow, Untouched, IdleWorker, IdleRecon, IdleComp
    <2> QED
      BY <2>1, <2>2, <2>3, Zenon DEF LifecycleInv
  <1>2. LifecycleInv /\ [Next]_vars => LifecycleInv'
    <2> SUFFICES ASSUME LifecycleInv, [Next]_vars PROVE LifecycleInv'
      OBVIOUS
    <2>1. TypeOK' /\ WriteChecked'
      BY LifecycleTypeStep, WriteCheckedStep, Zenon DEF LifecycleInv
    <2>2. row' = NoRow => row = NoRow
      BY RowStep, Zenon DEF LifecycleInv, RowKept
    <2>3. NothingBeforeRow'
      BY <2>2, DurableFixed, UntouchedStep, Zenon DEF LifecycleInv, NothingBeforeRow
    <2> QED
      BY <2>1, <2>3, Zenon DEF LifecycleInv
  <1> QED
    BY <1>1, <1>2, PTL DEF Spec

\* Every variable keeps its type, whatever fails.
THEOREM LifecycleTypeCorrect == Spec => []TypeOK
  <1>1. LifecycleInv => TypeOK
    BY Zenon DEF LifecycleInv
  <1> QED
    BY <1>1, LifecycleInvariance, PTL

\* write_atomic is MySQL-first: whatever Redis holds of a task that is to be
\* persisted, MySQL has its row.
THEOREM MySQLFirst == Spec => []DurableFirst
  <1>1. LifecycleInv => DurableFirst
    BY Zenon DEF LifecycleInv, NothingBeforeRow, Untouched, DurableFirst
  <1> QED
    BY <1>1, LifecycleInvariance, PTL

\* No creation, completion, reconciliation or repair brings a row back from
\* completed, failed or cancelled.
THEOREM TerminalKept == Spec => TerminalStaysTerminal
  <1>1. LifecycleInv /\ [Next]_vars =>
           [row.status \in Terminal => row'.status \in Terminal]_row
    BY RowStep, Zenon DEF LifecycleInv, RowKept
  <1> QED
    BY <1>1, LifecycleInvariance, PTL DEF Spec, TerminalStaysTerminal

=============================================================================
