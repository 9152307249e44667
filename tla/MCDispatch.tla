---- MODULE MCDispatch ----
\* The parts that bring a task to execution, for TLC: the executor's lock, the
\* consumer and the cron scheduler.  They share no state: a behaviour moves one
\* of them, its focus.
EXTENDS Dispatch, TLC

CONSTANTS r1, r2, a, b, x, y, z

VARIABLE focus

capOf == (x :> a) @@ (y :> a) @@ (z :> b)

consumer == <<job, running, sem, active, pc, todo, cap, burst, got, backoff,
              leaked, errors>>
cron == <<now, leader, lease, inst, sched, edit, db, tasks, fires, clean, events>>
allVars == <<focus, vars, consumer, cron>>

DispatchInit ==
    /\ focus \in {"executor", "consumer", "cron"}
    /\ Init /\ Consumer!Init /\ Cron!Init
    /\ focus # "cron" => sched = None /\ db

ExecutorStep == focus = "executor" /\ Next /\ UNCHANGED <<focus, consumer, cron>>
ConsumerStep == focus = "consumer" /\ Consumer!Next /\ UNCHANGED <<focus, vars, cron>>
CronStep == focus = "cron" /\ Cron!Next /\ UNCHANGED <<focus, vars, consumer>>

DispatchNext == ExecutorStep \/ ConsumerStep \/ CronStep

\* Time passes, an event loop runs what is ready, a thread goes on. The focus never
\* changes, so one condition stands for one of each part.
DispatchFairness ==
    /\ WF_allVars(
         \/ /\ focus = "executor" /\ Tick
            /\ UNCHANGED <<focus, consumer, cron>>
         \/ /\ focus = "consumer" /\ Consumer!LoopStep
            /\ UNCHANGED <<focus, vars, cron>>
         \/ /\ focus = "cron" /\ Cron!Tick
            /\ UNCHANGED <<focus, vars, consumer>>)
    /\ WF_allVars(
         \/ /\ focus = "executor"
            /\ \E r \in Runs : RenewLock(r) \/ RenewLost(r) \/ RenewError(r)
            /\ UNCHANGED <<focus, consumer, cron>>
         \/ /\ focus = "consumer" /\ Consumer!JobStep
            /\ UNCHANGED <<focus, vars, cron>>
         \/ /\ focus = "cron" /\ \E i \in {a, b} : Cron!LoopStep(i)
            /\ UNCHANGED <<focus, vars, consumer>>)

DispatchSpec == DispatchInit /\ [][DispatchNext]_allVars /\ DispatchFairness

----
\* A task lock is freed (r1 and r2 are alike), a queued task is executed although
\* the other capability has more of them, and a due schedule fires.
DispatchProgress ==
    /\ focus = "executor" => LockFreed(r1)
    /\ focus = "consumer" => Consumer!QueuedIsExecuted(z)
    /\ focus = "cron" => Cron!DueIsFired

=============================================================================
