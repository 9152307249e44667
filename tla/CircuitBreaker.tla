--------------------------- MODULE CircuitBreaker ---------------------------
(***************************************************************************)
(* src/platform/circuit_breaker.py: the Redis-backed breaker that guards   *)
(* one capability queue.  Each of the three Lua scripts is one atomic      *)
(* step; the clock drives the expiry of the keys they write.               *)
(*                                                                         *)
(*   cbState     the string under <prefix>:<cap>:cb:state, "nil" if absent *)
(*   cbFailures  the counter under cb:failures, 0 if absent                *)
(*   cbProbes    the counter under cb:half_open, 0 if absent               *)
(*   now         Redis' clock, which ends at the bound MaxTime             *)
(***************************************************************************)
EXTENDS RedisKeys

CONSTANTS
    FailureThreshold,   \* failure_threshold (10)
    OpenDuration,       \* open_duration_seconds (60)
    HalfOpenMax,        \* half_open_max (1)
    MaxTime             \* bound: the last instant of a behaviour

ASSUME BreakerAssumption ==
    /\ FailureThreshold \in Nat \ {0}
    /\ OpenDuration \in Nat \ {0}
    /\ HalfOpenMax \in Nat
    /\ MaxTime \in Nat

VARIABLES now, cbState, cbStateExp, cbFailures, cbFailuresExp, cbProbes

cbVars == <<cbState, cbStateExp, cbFailures, cbFailuresExp, cbProbes>>

BreakerStates == {"nil", "closed", "open", "half_open"}

CBTypeOK ==
    /\ now \in Nat
    /\ cbState \in BreakerStates
    /\ cbStateExp \in Nat
    /\ cbFailures \in Nat
    /\ cbFailuresExp \in Nat
    /\ cbProbes \in Nat

CBInit ==
    /\ now = 0
    /\ cbState = "nil"
    /\ cbStateExp = NoExpiry
    /\ cbFailures = 0
    /\ cbFailuresExp = NoExpiry
    /\ cbProbes = 0

-----------------------------------------------------------------------------
(* What get_state answers, and the probe it counts while half open.        *)

HalfOpenProbe == cbState = "half_open" /\ cbProbes < HalfOpenMax

GetState ==
    CASE cbState \in {"nil", "closed"}             -> "closed"
      [] cbState = "open"                          -> "open"
      [] cbState = "half_open" /\ HalfOpenProbe    -> "half_open"
      [] cbState = "half_open" /\ ~HalfOpenProbe   -> "open"

AllowRequest == GetState \in {"closed", "half_open"}

CheckState ==
    /\ cbProbes' = cbProbes + (IF HalfOpenProbe THEN 1 ELSE 0)
    /\ UNCHANGED <<cbState, cbStateExp, cbFailures, cbFailuresExp>>

-----------------------------------------------------------------------------
(* record_failure: ignored while open; otherwise counted, and the failure  *)
(* that reaches the threshold (or any failure while half open) opens.      *)

Trips == cbFailures + 1 >= FailureThreshold \/ cbState = "half_open"

RecordFailure ==
    \/ /\ cbState = "open"
       /\ UNCHANGED cbVars
    \/ /\ cbState # "open"
       /\ Trips
       /\ cbState' = "open"
       /\ cbStateExp' = now + OpenDuration
       /\ cbFailures' = 0
       /\ cbFailuresExp' = NoExpiry
       /\ UNCHANGED cbProbes
    \/ /\ cbState # "open"
       /\ ~Trips
       /\ cbFailures' = cbFailures + 1
       /\ cbFailuresExp' = now + 4 * OpenDuration
       /\ UNCHANGED <<cbState, cbStateExp, cbProbes>>

(* record_success: closes a half-open breaker, and always forgets the      *)
(* failures counted so far.                                                *)

RecordSuccessPersistsState ==
    /\ cbStateExp' = NoExpiry
    /\ cbFailures' = 0
    /\ cbFailuresExp' = NoExpiry
    /\ UNCHANGED <<cbState, cbProbes>>
RecordSuccess ==
    /\ cbState' = IF cbState = "half_open" THEN "closed" ELSE cbState
    /\ cbStateExp' = IF cbState = "half_open" THEN NoExpiry ELSE cbStateExp
    /\ cbFailures' = 0
    /\ cbFailuresExp' = NoExpiry
    /\ UNCHANGED cbProbes

(* One unit of time: Redis drops the keys whose time to live has run out.  *)
(* cb:half_open has a time to live too (120 s); it is not modelled because *)
(* the key is never written (HalfOpenNeverEntered).                        *)

CBExpireKeys(t) ==
    /\ cbState' = IF Expired(cbStateExp, t) THEN "nil" ELSE cbState
    /\ cbStateExp' = IF Expired(cbStateExp, t) THEN NoExpiry ELSE cbStateExp
    /\ cbFailures' = IF Expired(cbFailuresExp, t) THEN 0 ELSE cbFailures
    /\ cbFailuresExp' =
          IF Expired(cbFailuresExp, t) THEN NoExpiry ELSE cbFailuresExp
    /\ UNCHANGED cbProbes

CBTick ==
    /\ now < MaxTime
    /\ now' = now + 1
    /\ CBExpireKeys(now + 1)

CBNext ==
    \/ CheckState /\ UNCHANGED now
    \/ RecordFailure /\ UNCHANGED now
    \/ RecordSuccess /\ UNCHANGED now
    \/ CBTick

CBSpec == CBInit /\ [][CBNext]_<<now, cbVars>>

-----------------------------------------------------------------------------
(* Properties.                                                             *)

\* An open breaker always closes again by itself: its key carries an expiry
\* at most open_duration_seconds away, whatever failures and successes are
\* reported while it is open (they must neither extend nor remove it).
OpenAlwaysExpires ==
    cbState = "open" => /\ now < cbStateExp
                        /\ cbStateExp <= now + OpenDuration

\* The failure that reaches failure_threshold is the one that opens: below
\* the threshold the count is kept with an expiry, and no count survives in
\* an open breaker, so the first failure after a cooldown counts as one.
FailureCountSound ==
    /\ cbFailures < FailureThreshold
    /\ cbState = "open" => cbFailures = 0
    /\ cbFailures > 0 => now < cbFailuresExp

\* No script ever writes "half_open": the breaker only knows two states, and
\* the "OPEN -> (cooldown expired) -> HALF_OPEN" of the header of
\* circuit_breaker.py never happens.
HalfOpenNeverEntered == cbState \in {"nil", "open"} /\ cbProbes = 0

=============================================================================
