-------------------------- MODULE ConcurrencySlots --------------------------
(***************************************************************************)
(* The step-level concurrency slots of src/platform/queue_manager.py:      *)
(* acquire_concurrency_slot, release_slot, adjust_concurrent(slot=True)    *)
(* and cleanup_stale_slots.                                                *)
(*                                                                         *)
(*   slots      {slot:<cap>}:running   slot -> clock read by its acquirer  *)
(*   slotLimit  field max_concurrent of {slot:<cap>}:config, 0 if absent   *)
(*   stage      what the step behind each slot id is doing                 *)
(*   since      the time at which it read the clock to acquire             *)
(*   batch      the stale slots a cleanup has read and not yet removed     *)
(*                                                                         *)
(* A slot id belongs to one execution of one step and is not used again.   *)
(* No step spends more than MaxHold between reading the clock and having   *)
(* released its slot; a step that dies leaves its entry behind.            *)
(***************************************************************************)
EXTENDS RedisKeys

CONSTANTS
    SlotIds,
    Limits,     \* max_concurrent values the callers pass
    SlotDefault,  \* default_max_concurrent (8)
    SlotTTL,        \* ttl of the two keys (3600)
    SlotMaxAge,     \* max_age_seconds of cleanup_stale_slots (300)
    MaxHold,    \* the longest a step needs its slot
    SlotHorizon     \* bound: the last instant of a behaviour

ASSUME SlotAssumption ==
    /\ IsFiniteSet(SlotIds)
    /\ Limits \subseteq 1 .. SlotDefault
    /\ SlotDefault \in Nat \ {0}
    /\ SlotTTL \in Nat \ {0}
    /\ SlotMaxAge \in Nat
    /\ MaxHold \in Nat
    /\ SlotHorizon \in Nat

VARIABLES slotNow, slots, slotsExp, slotLimit, slotLimitExp, stage, since, batch

redisVars == <<slots, slotsExp, slotLimit, slotLimitExp>>
slotVars == <<slotNow, redisVars, stage, since, batch>>

Stages == {"new", "asking", "holding", "over"}

SlotsTypeOK ==
    /\ slotNow \in Nat
    /\ IsZSet(slots, SlotIds)
    /\ slotsExp \in Nat
    /\ slotLimit \in Nat
    /\ slotLimitExp \in Nat
    /\ stage \in [SlotIds -> Stages]
    /\ since \in [SlotIds -> Nat]
    /\ batch \subseteq SlotIds

SlotsInit ==
    /\ slotNow = 0
    /\ slots = EmptyZSet
    /\ slotsExp = NoExpiry
    /\ slotLimit = 0
    /\ slotLimitExp = NoExpiry
    /\ stage = [s \in SlotIds |-> "new"]
    /\ since = [s \in SlotIds |-> 0]
    /\ batch = {}

-----------------------------------------------------------------------------
(* acquire_concurrency_slot: read the clock, then run the script.          *)

ReadClock(s) ==
    /\ stage[s] = "new"
    /\ stage' = [stage EXCEPT ![s] = "asking"]
    /\ since' = [since EXCEPT ![s] = slotNow]
    /\ UNCHANGED <<slotNow, redisVars, batch>>

\* The limit the script applies to a caller that passed mc.
SlotMax(mc) == IF slotLimit = 0 THEN mc ELSE slotLimit

AcquireFull(s, mc) ==
    /\ stage[s] = "asking"
    /\ ZCard(slots) >= SlotMax(mc)
    /\ stage' = [stage EXCEPT ![s] = "over"]
    /\ UNCHANGED <<slotNow, redisVars, since, batch>>

\* Both keys are renewed when less than half of the TTL is left on the slots.
RenewSlots ==
    /\ slotsExp' = RenewExpiry(slotsExp, slotNow, SlotTTL)
    /\ slotLimitExp' =
          IF slotLimit # 0 /\ (slotsExp = NoExpiry \/ 2 * (slotsExp - slotNow) < SlotTTL)
          THEN slotNow + SlotTTL ELSE slotLimitExp

AcquireSlot(s, mc) ==
    /\ stage[s] = "asking"
    /\ ZCard(slots) < SlotMax(mc)
    /\ slots' = ZAdd(slots, s, since[s])
    /\ RenewSlots
    /\ stage' = [stage EXCEPT ![s] = "holding"]
    /\ UNCHANGED <<slotNow, slotLimit, since, batch>>

-----------------------------------------------------------------------------
\* ZREM; the key and its expiry go with the last member.
RemoveSlots(S) ==
    /\ slots' = ZRem(slots, S)
    /\ slotsExp' = IF DOMAIN slots \subseteq S THEN NoExpiry ELSE slotsExp

ReleaseSlot(s) ==
    /\ stage[s] = "holding"
    /\ RemoveSlots({s})
    /\ stage' = [stage EXCEPT ![s] = "over"]
    /\ UNCHANGED <<slotNow, slotLimit, slotLimitExp, since, batch>>

\* The process of a step dies, before or after it has its slot.
StepDies(s) ==
    /\ stage[s] \in {"asking", "holding"}
    /\ stage' = [stage EXCEPT ![s] = "over"]
    /\ UNCHANGED <<slotNow, redisVars, since, batch>>

\* adjust_concurrent(capability, -1, slot=True).
AdjustSlotLimitNoDefault ==
    /\ slotLimit' = slotLimit - 1
    /\ UNCHANGED <<slotNow, slots, slotsExp, slotLimitExp, stage, since, batch>>
AdjustSlotLimit ==
    /\ slotLimit' = LET cur == SlotMax(SlotDefault) IN IF cur > 1 THEN cur - 1 ELSE 1
    /\ UNCHANGED <<slotNow, slots, slotsExp, slotLimitExp, stage, since, batch>>

\* cleanup_stale_slots: read the entries older than the cutoff, ...
StaleIgnoringAge == DOMAIN slots
Stale == ZUpTo(slots, slotNow - SlotMaxAge)

ScanSlots ==
    /\ batch = {}
    /\ slotNow >= SlotMaxAge
    /\ batch' = Stale
    /\ UNCHANGED <<slotNow, redisVars, stage, since>>

\* ... and remove them by name in a later round trip.
RemoveStale ==
    /\ batch # {}
    /\ RemoveSlots(batch)
    /\ batch' = {}
    /\ UNCHANGED <<slotNow, slotLimit, slotLimitExp, stage, since>>

\* Time passes, unless a step would exceed the time it may need.
SlotTick ==
    /\ slotNow < SlotHorizon
    /\ \A s \in SlotIds :
          stage[s] \in {"asking", "holding"} => slotNow < since[s] + MaxHold
    /\ slotNow' = slotNow + 1
    /\ slots' = IF Expired(slotsExp, slotNow + 1) THEN EmptyZSet ELSE slots
    /\ slotsExp' = IF Expired(slotsExp, slotNow + 1) THEN NoExpiry ELSE slotsExp
    /\ slotLimit' = IF Expired(slotLimitExp, slotNow + 1) THEN 0 ELSE slotLimit
    /\ slotLimitExp' =
          IF Expired(slotLimitExp, slotNow + 1) THEN NoExpiry ELSE slotLimitExp
    /\ UNCHANGED <<stage, since, batch>>

SlotsNext ==
    \/ \E s \in SlotIds : ReadClock(s) \/ ReleaseSlot(s) \/ StepDies(s)
    \/ \E s \in SlotIds, mc \in Limits : AcquireFull(s, mc) \/ AcquireSlot(s, mc)
    \/ AdjustSlotLimit
    \/ ScanSlots
    \/ RemoveStale
    \/ SlotTick

SlotsSpec == SlotsInit /\ [][SlotsNext]_slotVars

-----------------------------------------------------------------------------
(* Properties.                                                             *)

Holders == {s \in SlotIds : stage[s] = "holding"}

\* At most default_max_concurrent steps believe they hold a slot, counted in
\* the steps and not in the sorted set: neither the expiry of the whole set
\* nor a cleanup that removes what it read earlier takes the entry of a
\* living step.  This needs steps shorter than half of the TTL and not longer
\* than max_age_seconds (ShortSteps).
HoldersWithinLimit == Cardinality(Holders) <= SlotDefault

\* The entry behind every living holder is still there, so that the ZCARD
\* of the script counts it.
HolderKeepsEntry == \A s \in Holders : s \in DOMAIN slots

ShortSteps == 2 * MaxHold < SlotTTL /\ MaxHold < SlotMaxAge

=============================================================================
