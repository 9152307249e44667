---------------------------- MODULE MCCallbacks ----------------------------
(***************************************************************************)
(* The outbox and the inline callbacks with their retry queue, for TLC. A  *)
(* behaviour moves one of them, its focus.                                 *)
(***************************************************************************)
EXTENDS Callbacks

VARIABLE focus

BackoffDef == <<1>>

delivery == <<record, persist, handler, retry, payload, dlq, done, worker,
              recon, answered, acked, sends, hurt, faults>>
allVars == <<focus, vars, delivery>>

CallbacksInit == focus \in {"outbox", "delivery"} /\ Init /\ DeliveryInit

Outbox(A) == focus = "outbox" /\ A /\ UNCHANGED <<focus, delivery>>
DeliveryStep == focus = "delivery" /\ DeliveryNext /\ UNCHANGED <<focus, vars>>

\* The fairness of the outbox; the retry queue is checked for safety only.
CallbacksSpec ==
    /\ CallbacksInit
    /\ [][Outbox(Next) \/ DeliveryStep]_allVars
    /\ \A d \in Dispatchers : WF_allVars(Outbox(DispatcherStep(d)))
    /\ WF_allVars(Outbox(Tick))

-----------------------------------------------------------------------------
\* Every pending outbox row is settled while a dispatcher loop survives.
OutboxProgress == focus = "outbox" => Settled

=============================================================================
