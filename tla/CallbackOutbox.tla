--------------------------- MODULE CallbackOutbox ---------------------------
(***************************************************************************)
(* The durable callback outbox: src/services/callback_dispatcher.py        *)
(* (delivery with backoff and dead letters), callback_ops.py (replay) and  *)
(* callback_replay_policy.py (the check before a replay).  The rows are    *)
(* those committed by TaskCompletionNode._persist.                         *)
(*                                                                         *)
(*   status, attempts, wait   the row: delivery_status, attempt_count, and *)
(*                            the time until next_attempt_at (0: due)      *)
(*   loop       each dispatcher: "idle", "sending" a batch, or "dead"      *)
(*   todo       the rows of its batch it has not posted yet                *)
(*   seen       attempt_count as its session loaded it                     *)
(*   fate       what it will commit for a row of its batch                 *)
(*   elapsed    time since it read the clock for this batch                *)
(*   request    each operator: the row whose replay the policy allowed     *)
(*   asked      the operators that have made their one request             *)
(*   posts, received   history: POSTs sent, rows the receiver has taken    *)
(*                                                                         *)
(* The acknowledgement fields are read by the dashboards only and left     *)
(* out.  Of a reason and a role only the role matters; every request has   *)
(* a reason.                                                               *)
(***************************************************************************)
EXTENDS Integers, FiniteSets, Sequences

CONSTANTS
    Rows, Dispatchers, Operators, Admins,
    NoRow,
    MaxAttempts,    \* max_attempts (8)
    Backoff,        \* _BACKOFF_SECONDS
    BatchLimit,     \* limit(50)
    MaxCrashes      \* bound: restarts of dispatchers

Steps == DOMAIN Backoff

ASSUME OutboxAssumption ==
    /\ IsFiniteSet(Rows)
    /\ NoRow \notin Rows
    /\ Admins \subseteq Operators
    /\ MaxAttempts \in Nat \ {0}
    /\ Backoff \in Seq(Nat \ {0}) /\ Backoff # <<>>
    /\ BatchLimit \in Nat \ {0}
    /\ MaxCrashes \in Nat

VARIABLES status, attempts, wait, loop, todo, seen, fate, elapsed, request,
          asked, crashes, posts, received

table == <<status, attempts, wait>>
session == <<loop, todo, seen, fate, elapsed>>
history == <<posts, received>>
ops == <<request, asked>>
vars == <<table, session, ops, crashes, history>>

Statuses == {"pending", "delivered", "dead_letter"}
Fates == {"none", "delivered", "retry", "dead_letter"}
LongestBackoff ==
    CHOOSE b \in {Backoff[i] : i \in Steps} : \A i \in Steps : Backoff[i] <= b

TypeOK ==
    /\ status \in [Rows -> Statuses]
    /\ attempts \in [Rows -> Nat]
    /\ wait \in [Rows -> Nat]
    /\ loop \in [Dispatchers -> {"idle", "sending", "dead"}]
    /\ todo \in [Dispatchers -> SUBSET Rows]
    /\ seen \in [Dispatchers -> [Rows -> Nat]]
    /\ fate \in [Dispatchers -> [Rows -> Fates]]
    /\ elapsed \in [Dispatchers -> Nat]
    /\ request \in [Operators -> Rows \cup {NoRow}]
    /\ asked \subseteq Operators
    /\ crashes \in 0 .. MaxCrashes
    /\ posts \in [Rows -> Nat]
    /\ received \subseteq Rows

Nothing == [r \in Rows |-> "none"]
Zero == [r \in Rows |-> 0]

Init ==
    /\ status = [r \in Rows |-> "pending"]
    /\ attempts = Zero
    /\ wait = Zero
    /\ loop = [d \in Dispatchers |-> "idle"]
    /\ todo = [d \in Dispatchers |-> {}]
    /\ seen = [d \in Dispatchers |-> Zero]
    /\ fate = [d \in Dispatchers |-> Nothing]
    /\ elapsed = [d \in Dispatchers |-> 0]
    /\ request = [o \in Operators |-> NoRow]
    /\ asked = {}
    /\ crashes = 0
    /\ posts = Zero
    /\ received = {}

-----------------------------------------------------------------------------
(* process_once: load at most BatchLimit due rows, post them one by one,   *)
(* and commit what became of all of them in one transaction.               *)

DueForgetsNull ==
    {r \in Rows : status[r] = "pending" /\ wait[r] = 0 /\ attempts[r] > 0}
Due == {r \in Rows : status[r] = "pending" /\ wait[r] = 0}

LoadBatch(d) ==
    /\ loop[d] = "idle"
    /\ Due # {}
    /\ \E S \in SUBSET Due :
          /\ S # {}
          /\ \/ Cardinality(S) = BatchLimit
             \/ S = Due /\ Cardinality(S) < BatchLimit
          /\ todo' = [todo EXCEPT ![d] = S]
    /\ loop' = [loop EXCEPT ![d] = "sending"]
    /\ seen' = [seen EXCEPT ![d] = attempts]
    /\ fate' = [fate EXCEPT ![d] = Nothing]
    /\ elapsed' = [elapsed EXCEPT ![d] = 0]
    /\ UNCHANGED <<table, ops, crashes, history>>

Posted(d, r, outcome) ==
    /\ loop[d] = "sending"
    /\ r \in todo[d]
    /\ todo' = [todo EXCEPT ![d] = @ \ {r}]
    /\ fate' = [fate EXCEPT ![d][r] = outcome]
    /\ posts' = [posts EXCEPT ![r] = @ + 1]
    /\ UNCHANGED <<table, loop, seen, elapsed, ops, crashes>>

PostSucceeds(d, r) ==
    /\ Posted(d, r, "delivered")
    /\ received' = received \cup {r}

FailedFateUnchecked(n) == "delivered"
FailedFateTooEarly(n) == IF n + 1 >= MaxAttempts THEN "dead_letter" ELSE "retry"
FailedFate(n) == IF n >= MaxAttempts THEN "dead_letter" ELSE "retry"

\* An error, an error status, or an answer that is lost after the receiver
\* has taken the callback.
PostFails(d, r) ==
    /\ Posted(d, r, FailedFate(seen[d][r] + 1))
    /\ \/ UNCHANGED received
       \/ received' = received \cup {r}

\* _next_attempt_delay, from the clock read at the beginning of the batch.
NextAttemptDelay(n) == Backoff[IF n \in Steps THEN n ELSE Len(Backoff)]

CommitWait(d, r) ==
    LET delay == NextAttemptDelay(seen[d][r] + 1)
    IN  IF delay > elapsed[d] THEN delay - elapsed[d] ELSE 0

CommitChanges(d) ==
    /\ status' = [r \in Rows |->
          IF fate[d][r] \in Statuses THEN fate[d][r] ELSE status[r]]
    /\ attempts' = [r \in Rows |->
          IF fate[d][r] # "none" THEN seen[d][r] + 1 ELSE attempts[r]]
    /\ wait' = [r \in Rows |->
          IF fate[d][r] = "retry" THEN CommitWait(d, r) ELSE wait[r]]

\* The session is gone; the loop sleeps or is dead.
EndSession(d, next) ==
    /\ loop' = [loop EXCEPT ![d] = next]
    /\ todo' = [todo EXCEPT ![d] = {}]
    /\ seen' = [seen EXCEPT ![d] = Zero]
    /\ fate' = [fate EXCEPT ![d] = Nothing]
    /\ elapsed' = [elapsed EXCEPT ![d] = 0]

Commit(d) ==
    /\ loop[d] = "sending"
    /\ todo[d] = {}
    /\ CommitChanges(d)
    /\ EndSession(d, "idle")
    /\ UNCHANGED <<ops, crashes, history>>

\* _loop does not catch what process_once raises.
DatabaseError(d) ==
    /\ loop[d] # "dead"
    /\ EndSession(d, "dead")
    /\ UNCHANGED <<table, ops, crashes, history>>

\* The process dies or is stopped in the middle of a batch and comes back.
Restart(d) ==
    /\ crashes < MaxCrashes
    /\ loop[d] = "sending"
    /\ crashes' = crashes + 1
    /\ EndSession(d, "idle")
    /\ UNCHANGED <<table, ops, history>>

-----------------------------------------------------------------------------
(* POST /callbacks/dead-letters/{id}/replay: check_callback_replay_allowed *)
(* reads the row in one session, replay_dead_letter writes it in another.  *)

ReplayAllowed(o, r) ==
    /\ status[r] # "pending"
    /\ status[r] = "delivered" => o \in Admins

CheckReplay(o, r) ==
    /\ o \notin asked
    /\ ReplayAllowed(o, r)
    /\ asked' = asked \cup {o}
    /\ request' = [request EXCEPT ![o] = r]
    /\ UNCHANGED <<table, session, crashes, history>>

ReplayDeadLetter(o, r) ==
    /\ request[o] = r
    /\ status' = [status EXCEPT ![r] = "pending"]
    /\ wait' = [wait EXCEPT ![r] = 0]
    /\ request' = [request EXCEPT ![o] = NoRow]
    /\ UNCHANGED <<attempts, session, asked, crashes, history>>

\* Time passes for the rows that wait and the batches under way.
Tick ==
    /\ \/ \E r \in Rows : wait[r] > 0
       \/ \E d \in Dispatchers : loop[d] = "sending" /\ elapsed[d] < LongestBackoff
    /\ wait' = [r \in Rows |-> IF wait[r] > 0 THEN wait[r] - 1 ELSE 0]
    /\ elapsed' = [d \in Dispatchers |->
                      IF loop[d] = "sending" /\ elapsed[d] < LongestBackoff
                      THEN elapsed[d] + 1 ELSE elapsed[d]]
    /\ UNCHANGED <<status, attempts, loop, todo, seen, fate, ops, crashes, history>>

DispatcherStep(d) ==
    \/ LoadBatch(d)
    \/ \E r \in Rows : PostSucceeds(d, r) \/ PostFails(d, r)
    \/ Commit(d)

Next ==
    \/ \E d \in Dispatchers :
          DispatcherStep(d) \/ DatabaseError(d) \/ Restart(d)
    \/ \E o \in Operators, r \in Rows :
          CheckReplay(o, r) \/ ReplayDeadLetter(o, r)
    \/ Tick

\* A loop that has not died gets its turn, and time passes.
Spec ==
    /\ Init
    /\ [][Next]_vars
    /\ \A d \in Dispatchers : WF_vars(DispatcherStep(d))
    /\ WF_vars(Tick)

-----------------------------------------------------------------------------
(* Properties.                                                             *)

\* A row is marked delivered only after the receiver has accepted a POST,
\* whatever dispatchers overlap, restart or are overtaken by a replay.
DeliveredWasReceived ==
    \A r \in Rows : status[r] = "delivered" => r \in received

\* A callback is given up only after max_attempts POSTs: restarts in the
\* middle of a batch and the lost updates of overlapping dispatchers make
\* attempt_count too small, never too large.
GivenUpAfterMaxAttempts ==
    \A r \in Rows : /\ attempts[r] <= posts[r]
                    /\ status[r] = "dead_letter" => posts[r] >= MaxAttempts

\* Every pending callback, replayed ones included, is delivered or becomes a
\* dead letter, as long as one dispatcher loop survives.
Settled ==
    \A r \in Rows : status[r] = "pending" ~>
        status[r] # "pending" \/ \A d \in Dispatchers : loop[d] = "dead"

=============================================================================
