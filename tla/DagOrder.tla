------------------------------ MODULE DagOrder ------------------------------
(***************************************************************************)
(* What the DAG engine promises, without waves, retries or policies: a     *)
(* step starts once everything it depends on has ended, an execution is    *)
(* completed only when nothing more can start, and it fails only because   *)
(* of a step that went wrong.  After the verdict nothing starts.           *)
(***************************************************************************)
CONSTANTS Steps,            \* the steps of the definition
          Names             \* the names depends_on may mention, Steps included

VARIABLES deps,             \* deps[s]: the names step s depends on
          phase,            \* phase[s]: "waiting", "running" or "ended"
          bad,              \* the steps that ended with an exception
          verdict           \* "running", "completed" or "failed"

vars == <<deps, phase, bad, verdict>>

Ended == {s \in Steps : phase[s] = "ended"}

\* The steps that may start: waiting, and all they depend on has ended.
Startable == {s \in Steps : phase[s] = "waiting" /\ deps[s] \subseteq Ended}

Init ==
    /\ deps \in [Steps -> SUBSET Names]
    /\ phase = [s \in Steps |-> "waiting"]
    /\ bad = {}
    /\ verdict = "running"

Start(S) ==
    /\ verdict = "running"
    /\ S \subseteq Startable
    /\ phase' = [s \in Steps |-> IF s \in S THEN "running" ELSE phase[s]]
    /\ UNCHANGED <<deps, bad, verdict>>

End(s, exception) ==
    /\ phase[s] = "running"
    /\ phase' = [phase EXCEPT ![s] = "ended"]
    /\ bad' = IF exception THEN bad \cup {s} ELSE bad
    /\ UNCHANGED <<deps, verdict>>

Complete ==
    /\ verdict = "running"
    /\ Startable = {}
    /\ \A s \in Steps : phase[s] # "running"
    /\ verdict' = "completed"
    /\ UNCHANGED <<deps, phase, bad>>

Fail ==
    /\ verdict = "running"
    /\ bad # {}
    /\ \A s \in Steps : phase[s] # "running"
    /\ verdict' = "failed"
    /\ UNCHANGED <<deps, phase, bad>>

Next ==
    \/ \E S \in SUBSET Steps : Start(S)
    \/ \E s \in Steps, exception \in BOOLEAN : End(s, exception)
    \/ Complete
    \/ Fail

Spec == Init /\ [][Next]_vars

=============================================================================
