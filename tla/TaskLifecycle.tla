--------------------------- MODULE TaskLifecycle ---------------------------
(***************************************************************************)
(* The life of one task across MySQL, Redis and the processes that write   *)
(* both: task_creator.py with common/transaction.py, the cancel service,   *)
(* task_completion_node.py, task_reconciler.py (phases 0 to 2) and         *)
(* services/compensation.py.  Every SQL statement or transaction and every *)
(* Redis command or pipeline is a step; nothing locks across two of them.  *)
(*                                                                         *)
(*   row       the row of table tasks, or NoRow                            *)
(*   rec       the cached record task:<id>, or NoRec                       *)
(*   pending, running   is the id in the two sorted sets of its capability *)
(*   lock      the worker that owns task_lock:<id>, or Nobody              *)
(*   dedup     requeue_dedup:<id> exists                                   *)
(*   tx        retry_count of the record tx:<id>, or NoTx                  *)
(*   leader    the value of reconcile_leader, or Nobody                    *)
(*   old       stuck_task_max_age_seconds have passed since the creation   *)
(*                                                                         *)
(* Workers are outside src/: nothing there calls handle_completion or      *)
(* fires START on the row.  What a worker does is taken from the interface *)
(* it is offered; WorkerStarts says whether it moves the row to RUNNING,   *)
(* as the state machine expects.                                           *)
(*                                                                         *)
(* Both statements that would insert a row for a task without one          *)
(* (_persist, phase 1) leave task_type unset, which is NOT NULL and has no *)
(* default: they raise, the error is caught and the row stays absent.      *)
(* Phase 3 handles callbacks and is in CallbackDelivery.                   *)
(***************************************************************************)
EXTENDS Integers, FiniteSets

CONSTANTS
    Creators,       \* create_task calls with one idempotency key
    Workers,
    Cancellers,     \* calls of cancel
    Reconcilers,
    Compensators,   \* processes that run the compensation service
    MaxRetries,     \* max_retries of the task
    DefaultRetries, \* the 3 of "max_retries or 3" in the rebuild
    MaxTxRetries,   \* max_retries of CompensationService (3)
    AttemptCap,     \* bound: attempt is counted up to here
    MaxFaults,      \* bound: failed calls, crashes, expired or lost keys
    WorkerStarts,
    Nobody

ASSUME LifecycleAssumption ==
    /\ {MaxRetries, DefaultRetries, MaxTxRetries, MaxFaults} \subseteq Nat
    /\ AttemptCap \in Nat
    /\ WorkerStarts \in BOOLEAN
    /\ Nobody \notin Workers \cup Reconcilers

VARIABLES row, rec, pending, running, lock, dedup, tx, leader, old,
          durable, creator, cancel, worker, recon, comp, faults

redis == <<rec, pending, running, lock, dedup, tx, leader>>
actors == <<durable, creator, cancel, worker, recon, comp>>
vars == <<row, redis, old, actors, faults>>

Terminal == {"completed", "failed", "cancelled"}
Active == {"queued", "running"}
Attempts == 0 .. AttemptCap

NoTx == -1
NoRow == [status |-> "none", attempt |-> 0]
NoRec == [status |-> "none", attempt |-> 0, retries |-> 0,
          dated |-> FALSE, ttl |-> FALSE]

Rows == [status : Active \cup Terminal \cup {"none"}, attempt : Attempts]
Recs == [status : Active \cup Terminal \cup {"none"}, attempt : Attempts,
         retries : {0, MaxRetries, DefaultRetries},
         dated : BOOLEAN, ttl : BOOLEAN]

CreatorPCs == {"insert", "record", "savetx", "enqueue", "done"}
WorkerPCs == {"idle", "popped", "executing", "persist", "write", "release"}
ReconPCs == {"idle", "rebuild", "cache", "fill", "pending", "running", "add",
             "scan", "select", "locks", "dedup", "bump", "requeue",
             "failread", "failwrite", "dead"}
CompPCs == {"idle", "read", "write", "commit", "rows", "exists", "repair"}

TypeOK ==
    /\ row \in Rows
    /\ rec \in Recs
    /\ {pending, running, dedup, old, durable} \subseteq BOOLEAN
    /\ lock \in Workers \cup {Nobody}
    /\ tx \in NoTx .. MaxTxRetries
    /\ leader \in Reconcilers \cup {Nobody}
    /\ creator \in [Creators -> CreatorPCs]
    /\ cancel \in [Cancellers -> {"idle", "commit", "done"}]
    /\ worker \in [Workers -> [pc : WorkerPCs, seen : {r.status : r \in Rows},
                               outcome : Terminal]]
    /\ recon \in [Reconcilers -> [pc : ReconPCs, row : Rows, rec : Recs]]
    /\ comp \in [Compensators -> [pc : CompPCs, tx : NoTx .. MaxTxRetries,
                                row : Rows]]
    /\ faults \in 0 .. MaxFaults

IdleWorker == [pc |-> "idle", seen |-> "none", outcome |-> "completed"]
IdleRecon == [pc |-> "idle", row |-> NoRow, rec |-> NoRec]
IdleComp == [pc |-> "idle", tx |-> NoTx, row |-> NoRow]

Init ==
    /\ row = NoRow /\ rec = NoRec
    /\ pending = FALSE /\ running = FALSE /\ dedup = FALSE /\ old = FALSE
    /\ lock = Nobody /\ leader = Nobody
    /\ tx = NoTx
    /\ durable \in BOOLEAN
    /\ creator = [c \in Creators |->
                    IF durable THEN "insert" ELSE "record"]
    /\ cancel = [x \in Cancellers |-> "idle"]
    /\ worker = [w \in Workers |-> IdleWorker]
    /\ recon = [r \in Reconcilers |-> IdleRecon]
    /\ comp = [k \in Compensators |-> IdleComp]
    /\ faults = 0

Fault == faults < MaxFaults /\ faults' = faults + 1

\* _ALLOWED of task_state_machine.py, for the statuses a row can have.
Transition(from, event) ==
    CASE from = "queued" /\ event = "start" -> "running"
      [] from = "queued" /\ event = "cancel" -> "cancelled"
      [] from = "running" /\ event = "complete" -> "completed"
      [] from = "running" /\ event \in {"fail", "stale_fail"} -> "failed"
      [] from = "running" /\ event = "requeue" -> "queued"
      [] OTHER -> "illegal"

-----------------------------------------------------------------------------
(* TaskCreator.create_task: with a database (durable) the coordinator      *)
(* writes MySQL, then Redis, and leaves a transaction record when Redis    *)
(* fails; without one only Redis is written.  Then the id is enqueued.     *)

CreatorAt(c, from, to) ==
    /\ creator[c] = from
    /\ creator' = [creator EXCEPT ![c] = to]
    /\ UNCHANGED <<old, durable, cancel, worker, recon, comp>>

\* _find_existing compares with a column that create_task leaves NULL (the key
\* is a named parameter and never in kwargs), so it finds nothing.  The primary
\* key, derived from the key, refuses a second row: create_task raises.
InsertRow(c) ==
    /\ \/ /\ row = NoRow
          /\ row' = [status |-> "queued", attempt |-> 0]
          /\ CreatorAt(c, "insert", "record")
       \/ /\ row # NoRow
          /\ UNCHANGED row
          /\ CreatorAt(c, "insert", "done")
    /\ UNCHANGED <<redis, faults>>

InsertFailsUnnoticed(c) ==
    CreatorAt(c, "insert", "record") /\ Fault /\ UNCHANGED <<row, redis>>
InsertFails(c) ==
    CreatorAt(c, "insert", "done") /\ Fault /\ UNCHANGED <<row, redis>>

FreshRec == [status |-> "queued", attempt |-> 0, retries |-> MaxRetries,
             dated |-> TRUE, ttl |-> TRUE]

WriteRecord(c) ==
    /\ CreatorAt(c, "record", "enqueue")
    /\ rec' = FreshRec
    /\ UNCHANGED <<row, pending, running, lock, dedup, tx, leader, faults>>

WriteRecordFails(c) ==
    /\ CreatorAt(c, "record", IF durable THEN "savetx" ELSE "enqueue")
    /\ Fault
    /\ UNCHANGED <<row, redis>>

\* _save_pending_tx: swallows its own failure.
SavePendingTx(c) ==
    /\ CreatorAt(c, "savetx", "enqueue")
    /\ \/ tx' = 0 /\ UNCHANGED faults
       \/ tx' = tx /\ Fault
    /\ UNCHANGED <<row, rec, pending, running, lock, dedup, leader>>

\* Refused: the queue is full (accepted: False) or the breaker raises.
CreatorEnqueue(c) ==
    /\ CreatorAt(c, "enqueue", "done")
    /\ pending' \in {TRUE, pending}
    /\ UNCHANGED <<row, rec, running, lock, dedup, tx, leader, faults>>

CreatorCrash(c) ==
    /\ creator[c] \notin {"insert", "done"}
    /\ CreatorAt(c, creator[c], "done")
    /\ Fault
    /\ UNCHANGED <<row, redis>>

Create(c) ==
    \/ InsertRow(c) \/ InsertFails(c) \/ WriteRecord(c)
    \/ WriteRecordFails(c) \/ SavePendingTx(c) \/ CreatorEnqueue(c)
    \/ CreatorCrash(c)

-----------------------------------------------------------------------------
(* TaskCancellationService.cancel: read, check, write, commit.  The UPDATE *)
(* names the primary key only; Redis is not touched.                       *)

CancelRead(x) ==
    /\ cancel[x] = "idle"
    /\ row # NoRow
    /\ cancel' = [cancel EXCEPT ![x] =
                    IF Transition(row.status, "cancel") = "illegal"
                    THEN "done" ELSE "commit"]
    /\ UNCHANGED <<row, redis, old, durable, creator, worker, recon, comp,
                   faults>>

CancelCommit(x) ==
    /\ cancel[x] = "commit"
    /\ cancel' = [cancel EXCEPT ![x] = "done"]
    /\ row' = [row EXCEPT !.status = "cancelled"]
    /\ UNCHANGED <<redis, old, durable, creator, worker, recon, comp, faults>>

-----------------------------------------------------------------------------
(* Workers: pop the task, take the lock, possibly fire START, execute,     *)
(* and hand the outcome to TaskCompletionNode._persist.                    *)

WorkerAt(w, from, to) ==
    /\ worker[w].pc = from
    /\ worker' = [worker EXCEPT ![w] = to]
    /\ UNCHANGED <<old, durable, creator, cancel, recon, comp>>

Pop(w) ==
    /\ pending
    /\ pending' = FALSE
    /\ running' = TRUE
    /\ WorkerAt(w, "idle", [worker[w] EXCEPT !.pc = "popped"])
    /\ UNCHANGED <<row, rec, lock, dedup, tx, leader, faults>>

TakeLock(w) ==
    /\ \/ /\ lock = Nobody
          /\ lock' = w
          /\ WorkerAt(w, "popped", [worker[w] EXCEPT !.pc = "executing"])
       \/ /\ lock # Nobody
          /\ UNCHANGED lock
          /\ WorkerAt(w, "popped", IdleWorker)
    /\ UNCHANGED <<row, rec, pending, running, dedup, tx, leader, faults>>

FireStart(w) ==
    /\ WorkerStarts
    /\ worker[w].pc = "executing"
    /\ row.status = "queued"
    /\ row' = [row EXCEPT !.status = Transition("queued", "start")]
    /\ UNCHANGED <<redis, old, actors, faults>>

Execute(w) ==
    /\ \E o \in Terminal :
          WorkerAt(w, "executing", [worker[w] EXCEPT !.pc = "persist",
                                                     !.outcome = o])
    /\ UNCHANGED <<row, redis, faults>>

\* The status _persist will write, after the row was read with status seen.
NextStatus(seen, outcome) ==
    CASE outcome = "completed" -> Transition(seen, "complete")
      [] outcome = "failed" -> Transition(seen, "fail")
      [] OTHER -> outcome

\* _persist raises, and handle_completion logs what it raised.
PersistRaisesUnchecked(outcome) == row = NoRow
PersistRaises(outcome) ==
    row = NoRow \/ NextStatus(row.status, outcome) = "illegal"

PersistRead(w) ==
    /\ WorkerAt(w, "persist",
          [worker[w] EXCEPT
             !.pc = IF PersistRaises(worker[w].outcome)
                    THEN "release" ELSE "write",
             !.seen = row.status])
    /\ UNCHANGED <<row, redis, faults>>

PersistWrite(w) ==
    /\ WorkerAt(w, "write", [worker[w] EXCEPT !.pc = "release"])
    /\ row' = [row EXCEPT
                 !.status = NextStatus(worker[w].seen, worker[w].outcome)]
    /\ UNCHANGED <<redis, faults>>

\* The executor releases its own lock, the queue forgets the running task.
Release(w) ==
    /\ WorkerAt(w, "release", IdleWorker)
    /\ lock' = IF lock = w THEN Nobody ELSE lock
    /\ running' = FALSE
    /\ UNCHANGED <<row, rec, pending, dedup, tx, leader, faults>>

WorkerCrash(w) ==
    /\ worker[w].pc # "idle"
    /\ WorkerAt(w, worker[w].pc, IdleWorker)
    /\ Fault
    /\ UNCHANGED <<row, redis>>

Work(w) ==
    \/ Pop(w) \/ TakeLock(w) \/ FireStart(w) \/ Execute(w)
    \/ PersistRead(w) \/ PersistWrite(w) \/ Release(w) \/ WorkerCrash(w)

-----------------------------------------------------------------------------
(* TaskReconciler._loop.  A tick of the leader rebuilds Redis from the row *)
(* it has read, scans the cache, and works on the batch it has scanned.    *)
(* Phases 1 and 2 run side by side but never on the same task.             *)

ReconAt(r, from, to) ==
    /\ recon[r].pc = from
    /\ recon' = [recon EXCEPT ![r] = to]
    /\ UNCHANGED <<old, durable, creator, cancel, worker, comp>>

Goto(r, pc) == [recon[r] EXCEPT !.pc = pc]
ToScan == [IdleRecon EXCEPT !.pc = "scan"]
EndTick == IdleRecon

TryBecomeLeader(r) ==
    /\ leader \in {Nobody, r}
    /\ leader' = r
    /\ ReconAt(r, "idle", Goto(r, "rebuild"))
    /\ UNCHANGED <<row, rec, pending, running, lock, dedup, tx, faults>>

RebuildRead(r) ==
    /\ ReconAt(r, "rebuild",
          IF row = NoRow THEN ToScan
          ELSE [recon[r] EXCEPT !.pc = "cache", !.row = row])
    /\ UNCHANGED <<row, redis, faults>>

\* Only queued rows are restored to the pending set.
AfterCacheSkipped(r) == ToScan
AfterCache(r) ==
    IF recon[r].row.status = "queued"
    THEN Goto(r, "pending") ELSE ToScan

RebuildGet(r) ==
    /\ ReconAt(r, "cache",
               IF rec = NoRec THEN Goto(r, "fill") ELSE AfterCache(r))
    /\ UNCHANGED <<row, redis, faults>>

\* The rebuilt record has no created_at_ts.
RebuiltRec(rw) ==
    [status |-> rw.status, attempt |-> rw.attempt,
     retries |-> IF MaxRetries = 0 THEN DefaultRetries ELSE MaxRetries,
     dated |-> FALSE, ttl |-> TRUE]

RebuildSet(r) ==
    /\ ReconAt(r, "fill", AfterCache(r))
    /\ rec' = RebuiltRec(recon[r].row)
    /\ UNCHANGED <<row, pending, running, lock, dedup, tx, leader, faults>>

RebuildScore(r) ==
    /\ \/ ReconAt(r, "pending", IF pending THEN ToScan ELSE Goto(r, "running"))
       \/ ReconAt(r, "running", IF running THEN ToScan ELSE Goto(r, "add"))
    /\ UNCHANGED <<row, redis, faults>>

RebuildAdd(r) ==
    /\ ReconAt(r, "add", ToScan)
    /\ pending' = TRUE
    /\ UNCHANGED <<row, rec, running, lock, dedup, tx, leader, faults>>

\* Errors of the rebuild are caught; the tick goes on.
RebuildFails(r) ==
    /\ recon[r].pc \in {"rebuild", "cache", "fill", "pending", "running", "add"}
    /\ ReconAt(r, recon[r].pc, ToScan)
    /\ Fault
    /\ UNCHANGED <<row, redis>>

\* The cursor may be elsewhere in the key space.
ScanTaskBatch(r) ==
    /\ \E found \in {rec, NoRec} :
          ReconAt(r, "scan",
             IF found = NoRec THEN EndTick
             ELSE [pc |-> IF found.status \in Active THEN "locks" ELSE "select",
                   row |-> NoRow, rec |-> found])
    /\ UNCHANGED <<row, redis, faults>>

\* The scan catches its errors, its pipeline and the election do not: the
\* exception ends _loop, and log_errors swallows it.
LoopDies(r) ==
    /\ recon[r].pc \in {"idle", "scan"}
    /\ ReconAt(r, recon[r].pc, [IdleRecon EXCEPT !.pc = "dead"])
    /\ Fault
    /\ UNCHANGED <<row, redis>>

\* Phase 1: the row exists, or its insertion raises and is caught.
Phase1DoubleWrite(r) ==
    /\ ReconAt(r, "select", EndTick)
    /\ UNCHANGED <<row, redis, faults>>

\* Phase 2.  A record without created_at_ts has any age.
TooYoung(r) == recon[r].rec.dated /\ ~old

Phase2Locks(r) ==
    /\ ReconAt(r, "locks", IF lock # Nobody \/ TooYoung(r) THEN EndTick
                           ELSE Goto(r, "dedup"))
    /\ UNCHANGED <<row, redis, faults>>

Phase2Dedup(r) ==
    /\ ReconAt(r, "dedup",
          IF dedup THEN EndTick
          ELSE IF recon[r].rec.attempt < recon[r].rec.retries
          THEN Goto(r, "bump") ELSE Goto(r, "failread"))
    /\ dedup' = TRUE
    /\ UNCHANGED <<row, rec, pending, running, lock, tx, leader, faults>>

BumpRequeuesRow(rw) ==
    [status |-> "queued",
     attempt |-> IF rw.attempt < AttemptCap THEN rw.attempt + 1
                                             ELSE rw.attempt]
Bump(rw) ==
    [rw EXCEPT !.attempt = IF @ < AttemptCap THEN @ + 1 ELSE @]

\* An error of the UPDATE is caught; the task is requeued all the same.
Phase2Bump(r) ==
    /\ ReconAt(r, "bump", Goto(r, "requeue"))
    /\ \/ row # NoRow /\ row' = Bump(row) /\ UNCHANGED faults
       \/ row = NoRow /\ UNCHANGED <<row, faults>>
       \/ UNCHANGED row /\ Fault
    /\ UNCHANGED redis

Phase2Requeue(r) ==
    /\ ReconAt(r, "requeue", EndTick)
    /\ pending' \in {TRUE, pending}
    /\ UNCHANGED <<row, rec, running, lock, dedup, tx, leader, faults>>

Phase2FailRead(r) ==
    /\ ReconAt(r, "failread",
               IF rec = NoRec THEN EndTick
               ELSE [pc |-> "failwrite", row |-> NoRow, rec |-> rec])
    /\ UNCHANGED <<row, redis, faults>>

\* SET without ex: the failed record has no expiry any more.
Phase2FailWrite(r) ==
    /\ ReconAt(r, "failwrite", EndTick)
    /\ rec' = [recon[r].rec EXCEPT
                 !.status = Transition("running", "stale_fail"),
                 !.ttl = FALSE]
    /\ UNCHANGED <<row, pending, running, lock, dedup, tx, leader, faults>>

\* gather(return_exceptions=True) drops an error of phase 2.
Phase2Fails(r) ==
    /\ recon[r].pc \in {"locks", "dedup", "requeue", "failread", "failwrite"}
    /\ ReconAt(r, recon[r].pc, EndTick)
    /\ Fault
    /\ UNCHANGED <<row, redis>>

Reconcile(r) ==
    \/ TryBecomeLeader(r) \/ RebuildRead(r) \/ RebuildGet(r) \/ RebuildSet(r)
    \/ RebuildScore(r) \/ RebuildAdd(r) \/ ScanTaskBatch(r)
    \/ Phase1DoubleWrite(r) \/ Phase2Locks(r) \/ Phase2Dedup(r)
    \/ Phase2Bump(r) \/ Phase2Requeue(r) \/ Phase2FailRead(r)
    \/ Phase2FailWrite(r)

-----------------------------------------------------------------------------
(* CompensationService._scan_and_repair: first the transaction records,    *)
(* then the active rows without a cached record.                           *)

CompAt(k, from, to) ==
    /\ comp[k].pc = from
    /\ comp' = [comp EXCEPT ![k] = to]
    /\ UNCHANGED <<old, durable, creator, cancel, worker, recon>>

ScanTransactions(k) ==
    /\ CompAt(k, "idle",
          [comp[k] EXCEPT !.pc = IF tx = NoTx THEN "rows" ELSE "read",
                          !.tx = tx])
    /\ UNCHANGED <<row, redis, faults>>

\* Expired transactions, and those of tasks without a row, are removed.
RepairRead(k) ==
    LET giveUp == comp[k].tx >= MaxTxRetries \/ row = NoRow
    IN  /\ CompAt(k, "read", IF giveUp THEN [IdleComp EXCEPT !.pc = "rows"]
                          ELSE [comp[k] EXCEPT !.pc = "write", !.row = row])
        /\ tx' = IF giveUp THEN NoTx ELSE tx
        /\ UNCHANGED <<row, rec, pending, running, lock, dedup, leader, faults>>

\* No max_retries and no attempt in a repaired record.
RepairedRec(rw) ==
    [status |-> rw.status, attempt |-> 0, retries |-> 0,
     dated |-> TRUE, ttl |-> TRUE]

RepairWrite(k) ==
    /\ CompAt(k, "write", [comp[k] EXCEPT !.pc = "commit", !.row = NoRow])
    /\ rec' = RepairedRec(comp[k].row)
    /\ UNCHANGED <<row, pending, running, lock, dedup, tx, leader, faults>>

RepairCommitKeepsTx(k) ==
    /\ CompAt(k, "commit", [IdleComp EXCEPT !.pc = "rows"])
    /\ UNCHANGED <<row, redis, faults>>
RepairCommit(k) ==
    /\ CompAt(k, "commit", [IdleComp EXCEPT !.pc = "rows"])
    /\ tx' = NoTx
    /\ UNCHANGED <<row, rec, pending, running, lock, dedup, leader, faults>>

\* A failed repair saves the record again, even one that has expired.  When
\* only the deletion fails the status is COMMITTED, and it is deleted again.
RepairFails(k) ==
    /\ comp[k].pc \in {"read", "write"}
    /\ comp[k].tx < MaxTxRetries    \* an expired one fails outside the try
    /\ CompAt(k, comp[k].pc, [IdleComp EXCEPT !.pc = "rows"])
    /\ tx' = comp[k].tx + 1
    /\ Fault
    /\ UNCHANGED <<row, rec, pending, running, lock, dedup, leader>>

\* Active rows updated in the last 24 hours.
ScanActiveRows(k) ==
    /\ \E recent \in BOOLEAN :
          CompAt(k, "rows", IF recent /\ row.status \in Active
                         THEN [comp[k] EXCEPT !.pc = "exists", !.row = row]
                         ELSE IdleComp)
    /\ UNCHANGED <<row, redis, faults>>

ScanMissing(k) ==
    /\ CompAt(k, "exists", IF rec = NoRec THEN [comp[k] EXCEPT !.pc = "repair"]
                                       ELSE IdleComp)
    /\ UNCHANGED <<row, redis, faults>>

RepairMissingTask(k) ==
    /\ CompAt(k, "repair", IdleComp)
    /\ rec' = RepairedRec(comp[k].row)
    /\ UNCHANGED <<row, pending, running, lock, dedup, tx, leader, faults>>

\* _run_loop catches everything else and starts over.
CompensationFails(k) ==
    /\ comp[k].pc # "idle"
    /\ CompAt(k, comp[k].pc, IdleComp)
    /\ Fault
    /\ UNCHANGED <<row, redis>>

Compensate(k) ==
    \/ ScanTransactions(k) \/ RepairRead(k) \/ RepairWrite(k)
    \/ RepairCommit(k) \/ ScanActiveRows(k) \/ ScanMissing(k)
    \/ RepairMissingTask(k)

-----------------------------------------------------------------------------
(* Time, Redis and the operator.                                           *)

Age ==
    /\ ~old
    /\ row # NoRow \/ rec # NoRec
    /\ old' = TRUE
    /\ UNCHANGED <<row, redis, actors, faults>>

RecordExpires ==
    /\ rec.ttl
    /\ rec' = NoRec
    /\ UNCHANGED <<row, pending, running, lock, dedup, tx, leader>>
LockExpires ==
    /\ lock # Nobody
    /\ lock' = Nobody
    /\ UNCHANGED <<row, rec, pending, running, dedup, tx, leader>>
DedupExpires ==
    /\ dedup
    /\ dedup' = FALSE
    /\ UNCHANGED <<row, rec, pending, running, lock, tx, leader>>
TxExpires ==
    /\ tx # NoTx
    /\ tx' = NoTx
    /\ UNCHANGED <<row, rec, pending, running, lock, dedup, leader>>
LeaderExpires ==
    /\ leader # Nobody
    /\ leader' = Nobody
    /\ UNCHANGED <<row, rec, pending, running, lock, dedup, tx, old, actors,
                   faults>>
PendingExpires ==
    /\ pending
    /\ pending' = FALSE
    /\ UNCHANGED <<row, rec, running, lock, dedup, tx, leader>>
\* cleanup_stale_running, called by the operator.
CleanupStaleRunning ==
    /\ running
    /\ running' = FALSE
    /\ UNCHANGED <<row, rec, pending, lock, dedup, tx, leader>>

Expire ==
    /\ \/ RecordExpires \/ LockExpires \/ DedupExpires \/ TxExpires
       \/ PendingExpires \/ CleanupStaleRunning
    /\ Fault
    /\ UNCHANGED <<old, actors>>

RedisLost ==
    /\ Fault
    /\ rec' = NoRec /\ pending' = FALSE /\ running' = FALSE
    /\ lock' = Nobody /\ dedup' = FALSE /\ tx' = NoTx /\ leader' = Nobody
    /\ UNCHANGED <<row, old, actors>>

Next ==
    \/ \E c \in Creators : Create(c)
    \/ \E x \in Cancellers : CancelRead(x) \/ CancelCommit(x)
    \/ \E w \in Workers : Work(w)
    \/ \E r \in Reconcilers : \/ Reconcile(r) \/ RebuildFails(r)
                              \/ LoopDies(r) \/ Phase2Fails(r)
    \/ \E k \in Compensators : Compensate(k) \/ RepairFails(k)
                               \/ CompensationFails(k)
    \/ Age \/ Expire \/ LeaderExpires \/ RedisLost

\* A live loop takes its next step and leases run out; nothing else is fair.
Spec ==
    /\ Init /\ [][Next]_vars
    /\ \A r \in Reconcilers : WF_vars(Reconcile(r))
    /\ \A k \in Compensators : WF_vars(Compensate(k))
    /\ WF_vars(LeaderExpires)

-----------------------------------------------------------------------------
(* Properties.                                                             *)

\* write_atomic is MySQL-first: whatever Redis holds of a task that is to be
\* persisted, MySQL has its row, through crashes, retries and repairs.
DurableFirst ==
    durable /\ (rec # NoRec \/ pending \/ running \/ tx # NoTx)
        => row # NoRow

\* No creation, completion, reconciliation or repair, however stale what it
\* has read, brings a row back from completed, failed or cancelled.
TerminalStaysTerminal ==
    [][row.status \in Terminal => row'.status \in Terminal]_row

\* A row that is queued but in no queue (crash before the enqueue, refused
\* enqueue, expired or lost Redis) gets back into one by the rebuild, as long
\* as one reconciler's loop lives.
QueuedIsRestored ==
    (row.status = "queued" /\ ~pending /\ ~running)
        ~> (\/ pending \/ running \/ row.status # "queued"
            \/ \A r \in Reconcilers : recon[r].pc = "dead")

\* A transaction record is repaired, given up or expired; the compensation
\* loop does not retry for ever.
TransactionsSettle == (tx # NoTx) ~> (tx = NoTx)

\* The two repair loops converge: queued rows get back into a queue, and
\* transaction records come to an end.
RepairsConverge == QueuedIsRestored /\ TransactionsSettle

\* "Write final state to MySQL" (_persist): a worker that has reported the
\* completion of a task with a row leaves a terminal row.
CompletionPersisted ==
    \A w \in Workers :
        worker[w].pc = "release" /\ worker[w].seen # "none"
            => row.status \in Terminal
=============================================================================
