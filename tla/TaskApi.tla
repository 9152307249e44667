---- MODULE TaskApi ----
\* The task API (src/api/routes/tasks.py, src/services/task_application.py) as a client of the
\* SDK (src/sdk/client.py) uses it: it submits a task and polls it, and it walks the pages of
\* the task list while other tenants' and its own tasks come and change. Task ids are random,
\* so a new row may sort before the cursor. Creation itself is in TaskLifecycle.
EXTENDS Integers, FiniteSets

CONSTANTS
    Ids,        \* task ids, naturals from 1 for their order
    Limit,      \* page size
    Timeout,    \* wait_for_task: timeout, in poll intervals
    MaxOps,     \* bound: rows created, status changes, failing requests
    None

VARIABLES
    rows,    \* per id: tenant and status, or None
    walk,    \* list_tasks, page after page
    wait,    \* submit_and_wait
    ops

vars == <<rows, walk, wait, ops>>

Owners == {"mine", "other"}
Live == {"queued", "running"}
Terminal == {"completed", "failed", "cancelled"}
NoWalk == [pc |-> "idle", filter |-> None, cursor |-> 0, counts |-> [i \in Ids |-> 0], steady |-> {}]
NoWait == [pc |-> "new", id |-> None, left |-> Timeout, saw |-> None]

Init ==
    /\ rows \in [Ids -> {None, [tenant |-> "mine", status |-> "queued"]}]
    /\ walk = NoWalk /\ wait = NoWait /\ ops = 0

Op == ops < MaxOps /\ ops' = ops + 1

\* The client sees its tenant's rows, of one status if it filters
Visible(i) == rows[i] # None /\ rows[i].tenant = "mine"
Matches(i, f) == Visible(i) /\ f \in {None, rows[i].status}
Steady(rs) == {i \in walk.steady : rs[i] = rows[i]}
\* What a change of the rows does to the walk under way
Observed(rs) == walk' = [walk EXCEPT !.steady = Steady(rs)] /\ UNCHANGED wait

\* Rows come from any tenant; the worker and cancel_task move them on
Appear(i, t) ==
    /\ rows[i] = None /\ Op
    /\ rows' = [rows EXCEPT ![i] = [tenant |-> t, status |-> "queued"]]
    /\ Observed(rows')
Change(i, s) ==
    /\ rows[i] # None /\ rows[i].status \in Live /\ s # rows[i].status /\ s # "queued" /\ Op
    /\ rows' = [rows EXCEPT ![i].status = s]
    /\ Observed(rows')

----
\* list_tasks: the rows after the cursor in order, one more than the limit to see whether
\* there is a next page, whose cursor is the last id given out
Begin(f) ==
    /\ walk.pc # "page" /\ Op
    /\ walk' = [NoWalk EXCEPT !.pc = "page", !.filter = f, !.steady = {i \in Ids : Matches(i, f)}]
    /\ UNCHANGED <<rows, wait>>
After(c, f) == {i \in Ids : i > c /\ Matches(i, f)}
FirstOf(S, n) == {i \in S : Cardinality({j \in S : j < i}) < n}
Greatest(S) == CHOOSE i \in S : \A j \in S : j <= i
NextCursorPeeked(found, items) == Greatest(FirstOf(found, Limit + 1))
NextCursor(found, items) == Greatest(items)
Page ==
    LET found == After(walk.cursor, walk.filter)
        items == FirstOf(found, Limit)
        more == Cardinality(found) > Limit
    IN /\ walk.pc = "page"
       /\ walk' = [walk EXCEPT !.pc = IF more THEN "page" ELSE "end",
                               !.cursor = IF more THEN NextCursor(found, items) ELSE @,
                               !.counts = [i \in Ids |-> IF i \in items THEN @[i] + 1 ELSE @[i]]]
       /\ UNCHANGED <<rows, wait, ops>>

----
\* submit_task: a 422 for invalid data, a 500 when creation fails, the new id otherwise;
\* the response may be lost
Submit(i) ==
    /\ wait.pc = "new" /\ rows[i] = None /\ Op
    /\ rows' = [rows EXCEPT ![i] = [tenant |-> "mine", status |-> "queued"]]
    /\ walk' = [walk EXCEPT !.steady = Steady(rows')]
    /\ wait' = [wait EXCEPT !.pc = "poll", !.id = i]
SubmitFails ==
    /\ wait.pc = "new" /\ Op
    /\ wait' = [wait EXCEPT !.pc = "error"]
    /\ UNCHANGED <<rows, walk>>

\* wait_for_task: get_task, then the deadline, then the pause
Ask ==
    /\ wait.pc = "poll"
    /\ wait' = [wait EXCEPT !.pc = "asked", !.saw = rows[wait.id].status]
    /\ UNCHANGED <<rows, walk, ops>>
VerdictEarly(s, left) ==
    CASE left = 0 -> "timeout" [] s = "completed" -> "result" [] s \in Terminal -> "failed" [] OTHER -> "poll"
Verdict(s, left) ==
    CASE s = "completed" -> "result" [] s \in Terminal \ {"completed"} -> "failed"
      [] s \notin Terminal /\ left = 0 -> "timeout" [] OTHER -> "poll"
Answer ==
    LET v == Verdict(wait.saw, wait.left)
    IN /\ wait.pc = "asked"
       /\ wait' = [wait EXCEPT !.pc = v, !.left = IF v = "poll" THEN @ - 1 ELSE @]
       /\ UNCHANGED <<rows, walk, ops>>
\* The transport, or raise_for_status
AskFails ==
    /\ wait.pc \in {"poll", "asked"} /\ Op
    /\ wait' = [wait EXCEPT !.pc = "error"]
    /\ UNCHANGED <<rows, walk>>
\* get_task_result: a 409 unless the task completed or failed
GetResult ==
    /\ wait.pc \in {"result", "failed"}
    /\ wait' = [wait EXCEPT !.pc = IF rows[wait.id].status \in {"completed", "failed"} THEN "200" ELSE "409"]
    /\ UNCHANGED <<rows, walk, ops>>

Submission == (\E i \in Ids : Submit(i)) \/ SubmitFails
Polling == Ask \/ Answer \/ AskFails
Listing == (\E f \in {None, "queued"} : Begin(f)) \/ Page
SubmitAndWait == Submission \/ Polling
Next ==
    \/ \E i \in Ids : (\E t \in Owners : Appear(i, t)) \/ (\E s \in Live \cup Terminal : Change(i, s))
    \/ SubmitAndWait \/ GetResult \/ Listing
Spec == Init /\ [][Next]_vars

----
TypeOK ==
    /\ \A i \in Ids : rows[i] # None => rows[i].tenant \in Owners /\ rows[i].status \in Live \cup Terminal
    /\ wait.left \in 0..Timeout /\ walk.cursor \in Ids \cup {0}

\* A walk through the pages lists no task twice, and every task that matched the filter
\* from its first page to its last exactly once, whatever rows come and change meanwhile.
PagesExact ==
    /\ \A i \in Ids : walk.counts[i] <= 1
    /\ walk.pc = "end" => \A i \in walk.steady : walk.counts[i] = 1

\* wait_for_task never reports a timeout of a task that had ended when the last poll read
\* it, returns only a task that completed, and a completed task's result is there.
WaitIsTruthful ==
    /\ wait.pc = "timeout" => wait.saw \notin Terminal
    /\ wait.pc = "result" => rows[wait.id].status = "completed"
    /\ wait.pc = "409" => rows[wait.id].status = "cancelled"
====
