------------------------------ MODULE Callbacks ------------------------------
(***************************************************************************)
(* The two ways a result reaches the caller: the outbox rows and, beside   *)
(* them, the inline posts with their retry queue in Redis. They share no   *)
(* state. Their accounting is proved for every number of rows, tasks,      *)
(* processes and attempts: what is marked delivered was received, what is  *)
(* given up was tried as often as it should, and a failed inline delivery  *)
(* is not forgotten.                                                       *)
(***************************************************************************)
EXTENDS CallbackOutbox, CallbackDelivery, TLAPS

\* there are tasks, and both ways of delivery try at least once
ASSUME DeliveryAssumption ==
    /\ Tasks # {}
    /\ InlineRetries \in Nat \ {0}
    /\ MaxDurable \in Nat \ {0}

\* CallbackDelivery: a failed inline delivery is not forgotten, no task is posted
\* more often than its retries allow, and the dead-letter list holds spent
\* callbacks only.
CallbackSound ==
    /\ DeliveryTypeOK
    /\ CallbackKept
    /\ DurablePostsBounded
    /\ DeadLetterSpent

\* The processor has taken the event out of the ZSET and not settled it.
Held(w) == worker[w].pc \in {"send", "mark", "requeue", "dead"}

\* What the sequels add to the types.
DeliveryTypes ==
    /\ handler \in [Tasks -> [pc : {"idle", "post", "mark", "enqueue", "ended"},
                              n : 0 .. InlineRetries]]
    /\ worker \in [Workers -> [pc : {"idle", "pop", "send", "mark", "requeue", "dead"},
                               batch : SUBSET Events, ev : Events]]
    /\ sends \in [Tasks -> 0 .. MaxDurable]
    /\ acked \subseteq Tasks /\ faults \in Nat
    /\ \A t \in Tasks : handler[t].pc = "mark" => t \in acked
    /\ \A w \in Workers : worker[w].pc = "mark" => worker[w].ev.task \in acked

\* A task has one event at a time that carries an attempt: in the ZSET, in one
\* processor's hands, or among the dead letters.
EventsApart ==
    /\ \A e, f \in retry : e.attempt > 0 /\ f.attempt > 0 /\ e.task = f.task => e = f
    /\ \A v, w \in Workers :
          Held(v) /\ Held(w) /\ worker[v].ev.task = worker[w].ev.task => v = w
    /\ \A w \in Workers, e \in retry : Held(w) /\ e.attempt > 0 => worker[w].ev.task # e.task
    /\ \A w \in Workers, e \in dlq : Held(w) => worker[w].ev.task # e.task
    /\ \A e \in retry, f \in dlq : e.attempt > 0 => e.task # f.task

\* Its attempt is the number of durable posts, plus one until it is sent; before the
\* inline attempts are over there is none.
EventsCounted ==
    /\ \A e \in retry : e.attempt > 0 =>
          handler[e.task].pc = "ended" /\ sends[e.task] = e.attempt - 1
    /\ \A w \in Workers : Held(w) =>
          /\ worker[w].ev.attempt > 0
          /\ handler[worker[w].ev.task].pc = "ended"
          /\ sends[worker[w].ev.task] =
                worker[w].ev.attempt - (IF worker[w].pc = "send" THEN 1 ELSE 0)
    /\ \A w \in Workers : worker[w].pc = "requeue" => worker[w].ev.attempt < MaxDurable
    /\ \A w \in Workers : worker[w].pc = "dead" => worker[w].ev.attempt = MaxDurable
    /\ \A e \in dlq : /\ e.attempt = MaxDurable /\ sends[e.task] = MaxDurable
                      /\ handler[e.task].pc = "ended"
    /\ \A t \in Tasks : handler[t].pc # "ended" => sends[t] = 0

\* Without a fault an acknowledged post is the last one.
AckedIsLast ==
    faults = 0 => \A t \in acked :
        /\ handler[t].pc \in {"mark", "ended"}
        /\ \A e \in retry \cup dlq : e.attempt > 0 => e.task # t
        /\ \A w \in Workers :
              worker[w].pc \in {"send", "requeue", "dead"} => worker[w].ev.task # t

DeliveryInv ==
    /\ DeliveryTypeOK /\ DeliveryTypes
    /\ EventsApart /\ EventsCounted /\ AckedIsLast
    /\ CallbackKept

\* The null event, a batch that goes on, and an event of the next attempt have their
\* types.
LEMMA DeliveryParts ==
    /\ NoEvent \in Events
    /\ \A S \in SUBSET Events :
          /\ Rest(S) \in [pc : {"idle", "pop"}, batch : SUBSET Events,
                                   ev : Events]
          /\ \A e \in Events :
                Holding(S, e) = [pc |-> "send", batch |-> S, ev |-> e]
    /\ Idle = [pc |-> "idle", batch |-> {}, ev |-> NoEvent]
    /\ \A t \in Tasks, n \in 0 .. MaxDurable :
          /\ Event(t, n) \in Events
          /\ Event(t, n).task = t /\ Event(t, n).attempt = n
<1>1. NoEvent \in Events
  BY DeliveryAssumption DEF NoEvent, Events
<1>2. ASSUME NEW S \in SUBSET Events
      PROVE  Rest(S) \in [pc : {"idle", "pop"}, batch : SUBSET Events,
                                   ev : Events]
  BY <1>1, Zenon DEF Rest, Idle
<1> QED BY <1>1, <1>2, Zenon DEF Holding, Idle, Event, Events

\* Before anything happens nothing is queued, held or counted.
LEMMA DeliveryStarts == DeliveryInit => DeliveryInv
<1> SUFFICES ASSUME DeliveryInit PROVE DeliveryInv
  OBVIOUS
<1>1. DeliveryTypeOK
  BY DeliveryAssumption DEF DeliveryInit, DeliveryTypeOK
<1>2. worker = [w \in Workers |-> Idle] /\ \A w \in Workers : worker[w].pc = "idle"
  BY DeliveryParts, Zenon DEF DeliveryInit
<1>3. DeliveryTypes
  BY <1>2, DeliveryParts, DeliveryAssumption DEF DeliveryInit, DeliveryTypes
<1>4. EventsApart /\ EventsCounted /\ AckedIsLast
  BY <1>2, Zenon DEF DeliveryInit, EventsApart, EventsCounted, AckedIsLast, Held
<1>5. CallbackKept
  BY Zenon DEF DeliveryInit, CallbackKept
<1> QED BY <1>1, <1>3, <1>4, <1>5, Zenon DEF DeliveryInv

\* The steps of the inline half that leave ZSET, processors, counts and dead letters
\* alone.
LEMMA InlineStep ==
    ASSUME DeliveryInv, NEW t \in Tasks,
           \/ HandleCompletion(t) \/ Persist(t) \/ TimedOut(t)
           \/ Post(t) \/ MarkDone(t) \/ MarkFails(t)
           \/ EnqueueFails(t) \/ MarkerExpires(t)
    PROVE  DeliveryInv'
<1> USE DEF durable, inline, faultVars
<1>0. UNCHANGED <<retry, payload, dlq, worker, recon, sends>>
  BY Zenon DEF HandleCompletion, Persist, TimedOut, Post,
     MarkDone, MarkFails, EnqueueFails, MarkerExpires
<1>1. /\ handler' \in [Tasks -> [pc : {"idle", "post", "mark", "enqueue", "ended"},
                                 n : 0 .. InlineRetries]]
      /\ \A u \in Tasks : u # t => handler'[u] = handler[u]
      /\ handler[t].pc = "ended" => handler'[t].pc = "ended"
      /\ handler'[t].pc = "mark" => t \in acked'
      /\ handler'[t].pc = "ended" => handler[t].pc = "ended" \/ t \in acked \cup hurt'
      /\ acked \subseteq acked' /\ acked' \subseteq acked \cup {t}
      /\ t \in acked' \ acked => handler[t].pc = "post" /\ handler'[t].pc = "mark"
      /\ answered \subseteq answered' /\ hurt \subseteq hurt'
      /\ done' \subseteq acked' /\ acked' \subseteq answered'
      /\ faults' \in Nat /\ (faults' = 0 => faults = 0)
      /\ record' \in [Tasks -> {"active", "terminal"}]
      /\ faults' = 0 /\ t \in acked => handler'[t].pc \in {"mark", "ended"}
  <2> USE DeliveryAssumption DEF DeliveryInv, DeliveryTypes, DeliveryTypeOK, AckedIsLast
  <2>1. CASE HandleCompletion(t) BY <2>1 DEF HandleCompletion
  <2>2. CASE Persist(t) BY <2>2, Zenon DEF Persist
  <2>3. CASE TimedOut(t) BY <2>3, Zenon DEF TimedOut
  <2>4. CASE Post(t)
    BY <2>4 DEF Post, Answers, Received, Acked, Failed
  <2>5. CASE MarkDone(t) BY <2>5 DEF MarkDone
  <2>6. CASE MarkFails(t) BY <2>6 DEF MarkFails, Failed, Fault
  <2>7. CASE EnqueueFails(t) BY <2>7 DEF EnqueueFails, Fault
  <2>8. CASE MarkerExpires(t) BY <2>8, Zenon DEF MarkerExpires
  <2> QED BY <2>1, <2>2, <2>3, <2>4, <2>5, <2>6, <2>7, <2>8, Zenon
<1>2. DeliveryTypeOK' /\ DeliveryTypes'
  <2>1. \A u \in Tasks : handler'[u].n <= InlineRetries
    BY <1>1, DeliveryAssumption
  <2>2. \A u \in Tasks : handler'[u].pc = "mark" => u \in acked'
    BY <1>1, Zenon DEF DeliveryInv, DeliveryTypes
  <2>3. DeliveryTypeOK'
    BY <1>0, <1>1, <2>1, Zenon DEF DeliveryInv, DeliveryTypeOK
  <2>4. acked' \subseteq Tasks
    BY <1>1, Zenon DEF DeliveryInv, DeliveryTypes
  <2> QED BY <1>0, <1>1, <2>2, <2>3, <2>4, Zenon DEF DeliveryInv, DeliveryTypes
<1>3. EventsApart'
  BY <1>0, Zenon DEF DeliveryInv, EventsApart, Held
<1>4. EventsCounted'
  <2>1. \A u \in Tasks : handler[u].pc = "ended" => handler'[u].pc = "ended"
    BY <1>1, Zenon
  <2>2. /\ \A e \in retry \cup dlq : e.task \in Tasks
        /\ \A w \in Workers : worker[w].ev.task \in Tasks
    BY Zenon DEF DeliveryInv, DeliveryTypes, DeliveryTypeOK, Events
  <2> QED BY <1>0, <2>1, <2>2, Zenon DEF DeliveryInv, EventsCounted, Held
<1>5. AckedIsLast'
  <2> SUFFICES ASSUME faults' = 0, NEW u \in acked'
               PROVE  /\ handler'[u].pc \in {"mark", "ended"}
                      /\ \A e \in retry \cup dlq : e.attempt > 0 => e.task # u
                      /\ \A w \in Workers :
                            worker[w].pc \in {"send", "requeue", "dead"} => worker[w].ev.task # u
    BY <1>0, Zenon DEF AckedIsLast
  <2>1. CASE u \in acked
    BY <1>1, <2>1, Zenon DEF DeliveryInv, AckedIsLast, DeliveryTypes
  <2>2. CASE u \notin acked
    BY <1>1, <2>2, DeliveryAssumption DEF DeliveryInv, EventsCounted, Held, DeliveryTypes
  <2> QED BY <2>1, <2>2, Zenon
<1>6. CallbackKept'
  BY <1>0, <1>1 DEF DeliveryInv, CallbackKept, DeliveryTypeOK
<1> QED BY <1>2, <1>3, <1>4, <1>5, <1>6, Zenon DEF DeliveryInv

\* Inline delivery hands over its task, which then has its first event.
LEMMA EnqueueStep ==
    ASSUME DeliveryInv, NEW t \in Tasks, Enqueue(t)
    PROVE  DeliveryInv'
<1> DEFINE e0 == Event(t, 1)
<1>0. /\ e0 \in Events /\ e0.task = t /\ e0.attempt = 1
  BY DeliveryParts, DeliveryAssumption
<1> HIDE DEF e0
<1>1. /\ handler[t].pc = "enqueue" /\ handler' = [handler EXCEPT ![t].pc = "ended"]
      /\ retry' = retry \cup {e0}
      /\ UNCHANGED <<record, payload, dlq, worker, recon, sends, done, answered, acked, hurt, faults>>
  BY Zenon DEF Enqueue, faultVars, e0
<1>2. \A u \in Tasks : handler[u].pc = "ended" => handler'[u].pc = "ended"
  BY <1>1, Zenon DEF DeliveryInv, DeliveryTypes
<1>3. /\ \A e \in retry \cup dlq : e.task \in Tasks
      /\ \A w \in Workers : worker[w].ev.task \in Tasks
  BY Zenon DEF DeliveryInv, DeliveryTypes, DeliveryTypeOK, Events
<1>4. /\ \A e \in retry : e.attempt > 0 => e.task # t
      /\ \A e \in dlq : e.task # t
      /\ \A w \in Workers : Held(w) => worker[w].ev.task # t
      /\ sends[t] = 0
  BY <1>1, Zenon DEF DeliveryInv, EventsCounted
<1>5. DeliveryTypeOK' /\ DeliveryTypes'
  BY <1>0, <1>1 DEF DeliveryInv, DeliveryTypeOK, DeliveryTypes
<1>6. EventsApart'
  BY <1>0, <1>1, <1>4 DEF DeliveryInv, EventsApart, Held
<1>7. EventsCounted'
  <2>1. handler'[t].pc = "ended"
    BY <1>1, Zenon DEF DeliveryInv, DeliveryTypes
  <2>2. sends[e0.task] = e0.attempt - 1
    BY <1>0, <1>4
  <2> QED BY <1>0, <1>1, <1>2, <1>3, <2>1, <2>2, Zenon DEF DeliveryInv, EventsCounted, Held
<1>8. AckedIsLast'
  <2>1. faults = 0 => t \notin acked
    BY <1>1, Zenon DEF DeliveryInv, AckedIsLast
  <2> QED BY <1>0, <1>1, <1>2, <2>1 DEF DeliveryInv, AckedIsLast, DeliveryTypes
<1>9. CallbackKept'
  <2>1. \A u \in Tasks : u # t => handler'[u] = handler[u]
    BY <1>1, Zenon DEF DeliveryInv, DeliveryTypes
  <2>2. Event(t, 1) \in retry' /\ 1 \in 1 .. MaxDurable
    BY <1>1, DeliveryAssumption DEF e0
  <2> QED BY <1>1, <2>1, <2>2 DEF DeliveryInv, CallbackKept
<1> QED BY <1>5, <1>6, <1>7, <1>8, <1>9, Zenon DEF DeliveryInv

\* The reconciler adds bare ids, which carry no attempt.
LEMMA PhaseStep ==
    ASSUME DeliveryInv,
           \/ \E ts \in SUBSET Tasks : Phase3(ts)
           \/ \E t \in Tasks : Phase3One(t)
    PROVE  DeliveryInv'
<1> USE DEF inline, faultVars
<1>1. /\ retry \subseteq retry' /\ retry' \subseteq Events
      /\ \A e \in retry' : e.attempt > 0 => e \in retry
      /\ recon' \subseteq Tasks /\ payload' \subseteq Tasks
      /\ UNCHANGED <<record, handler, dlq, worker, sends, done, answered, acked, hurt, faults>>
  <2>1. CASE \E ts \in SUBSET Tasks : Phase3(ts)
    BY <2>1, Zenon DEF Phase3, DeliveryInv, DeliveryTypeOK
  <2>2. ASSUME NEW t \in Tasks, Phase3One(t) PROVE <1>1!:
    <3>1. Event(t, 0) \in Events /\ Event(t, 0).attempt = 0
      BY DeliveryParts, DeliveryAssumption
    <3> QED BY <2>2, <3>1 DEF Phase3One, DeliveryInv, DeliveryTypeOK
  <2> QED BY <2>1, <2>2, Zenon
<1>2. DeliveryTypeOK' /\ DeliveryTypes'
  BY <1>1, Zenon DEF DeliveryInv, DeliveryTypeOK, DeliveryTypes
<1>3. EventsApart' /\ EventsCounted'
  BY <1>1 DEF DeliveryInv, EventsApart, EventsCounted, Held
<1>4. AckedIsLast' /\ CallbackKept'
  BY <1>1, SMTT(30) DEF DeliveryInv, AckedIsLast, CallbackKept
<1> QED BY <1>2, <1>3, <1>4, Zenon DEF DeliveryInv

\* A processor that takes a batch, or ends its pass: what it held is gone, and
\* nobody holds more than before.
LEMMA PassStep ==
    ASSUME DeliveryInv, NEW w \in Workers, Fetch(w) \/ WorkerFails(w)
    PROVE  DeliveryInv'
<1> USE DEF inline, faultVars
<1>1. /\ worker' \in [Workers -> [pc : {"idle", "pop", "send", "mark", "requeue", "dead"},
                                  batch : SUBSET Events, ev : Events]]
      /\ \A v \in Workers : v # w => worker'[v] = worker[v]
      /\ worker'[w].pc \in {"idle", "pop"}
      /\ hurt \subseteq hurt' /\ (Held(w) => worker[w].ev.task \in hurt')
      /\ faults' \in Nat /\ (faults' = 0 => faults = 0)
      /\ UNCHANGED <<record, handler, retry, payload, dlq, recon, sends, done, answered, acked>>
  <2>1. CASE Fetch(w)
    <3>1. PICK b \in SUBSET retry :
             worker' = [worker EXCEPT ![w] = [pc |-> "pop", batch |-> b, ev |-> NoEvent]]
      BY <2>1, Zenon DEF Fetch
    <3>2. b \in SUBSET Events
      BY Zenon DEF DeliveryInv, DeliveryTypeOK
    <3> QED BY <2>1, <3>1, <3>2, DeliveryParts DEF Fetch, DeliveryInv, DeliveryTypes, Held
  <2>2. CASE WorkerFails(w)
    BY <2>2, DeliveryParts, SMTT(30)
       DEF WorkerFails, Fault, DeliveryInv, DeliveryTypes, Held
  <2> QED BY <2>1, <2>2, Zenon
<1>2. DeliveryTypeOK' /\ DeliveryTypes'
  BY <1>1, Zenon DEF DeliveryInv, DeliveryTypeOK, DeliveryTypes
<1>3. /\ \A v \in Workers : Held(v)' => Held(v) /\ worker'[v] = worker[v]
      /\ \A v \in Workers : worker'[v].pc \in {"send", "requeue", "dead", "mark"} =>
                               worker'[v] = worker[v]
  BY <1>1, Zenon DEF Held
<1>4. EventsApart'
  BY <1>1, <1>3, SMTT(30) DEF DeliveryInv, EventsApart
<1>5. EventsCounted'
  BY <1>1, <1>3 DEF DeliveryInv, EventsCounted
<1>6. AckedIsLast'
  BY <1>1, <1>3, SMTT(30) DEF DeliveryInv, AckedIsLast
<1>7. CallbackKept'
  BY <1>1 DEF DeliveryInv, CallbackKept, Held
<1> QED BY <1>2, <1>4, <1>5, <1>6, <1>7, Zenon DEF DeliveryInv

\* The answer of ZREM moves an event from the ZSET to one processor.
LEMMA PopStep ==
    ASSUME DeliveryInv, NEW w \in Workers, Pop(w)
    PROVE  DeliveryInv'
<1> USE DEF inline, faultVars
<1>1. PICK e \in worker[w].batch :
         /\ retry' = retry \ {e}
         /\ worker' = [worker EXCEPT ![w] =
               IF Removed(e) /\ e.attempt > 0
               THEN Holding(worker[w].batch \ {e}, e)
               ELSE Rest(worker[w].batch \ {e})]
  BY Zenon DEF Pop
<1>2. /\ worker[w].pc = "pop"
      /\ UNCHANGED <<record, handler, payload, dlq, recon, sends, done, answered, acked, hurt, faults>>
  BY Zenon DEF Pop
<1>3. e \in Events /\ worker[w].batch \ {e} \in SUBSET Events
  BY Zenon DEF DeliveryInv, DeliveryTypes
<1>4. CASE e \in retry /\ e.attempt > 0
  <2>1. worker' = [worker EXCEPT ![w] = [pc |-> "send", batch |-> worker[w].batch \ {e}, ev |-> e]]
    BY <1>1, <1>3, <1>4, DeliveryParts, Zenon DEF Removed
  <2>2. /\ \A v \in Workers : v # w => worker'[v] = worker[v]
        /\ worker'[w].pc = "send" /\ worker'[w].ev = e
    BY <2>1, Zenon DEF DeliveryInv, DeliveryTypes
  <2>3. DeliveryTypeOK' /\ DeliveryTypes'
    <3>1. worker' \in [Workers -> [pc : {"idle", "pop", "send", "mark", "requeue", "dead"},
                                   batch : SUBSET Events, ev : Events]]
      BY <1>3, <2>1, Zenon DEF DeliveryInv, DeliveryTypes
    <3>2. \A v \in Workers : worker'[v].pc = "mark" => worker[v].pc = "mark" /\ worker'[v] = worker[v]
      BY <2>2, Zenon
    <3> QED BY <1>1, <1>2, <3>1, <3>2, Zenon DEF DeliveryInv, DeliveryTypeOK, DeliveryTypes
  <2>4. /\ retry' \subseteq retry /\ e \notin retry'
        /\ Held(w)' /\ ~Held(w)
        /\ \A v \in Workers : v # w => Held(v)' = Held(v) /\ worker'[v] = worker[v]
    BY <1>1, <1>2, <2>2, Zenon DEF Held
  <2>5. /\ \A f \in retry' : f.attempt > 0 => f.task # e.task
        /\ \A f \in dlq : f.task # e.task
        /\ \A v \in Workers : v # w /\ Held(v)' => worker[v].ev.task # e.task
    BY <1>4, <2>4, Zenon DEF DeliveryInv, EventsApart
  <2>6. EventsApart'
    BY <1>2, <2>4, <2>2, <2>5, SMTT(30) DEF DeliveryInv, EventsApart
  <2>7. EventsCounted'
    <3>1. handler[e.task].pc = "ended" /\ sends[e.task] = e.attempt - 1
      BY <1>4, Zenon DEF DeliveryInv, EventsCounted
    <3>2. \A v \in Workers : worker'[v].pc \in {"requeue", "dead"} => worker'[v] = worker[v]
      BY <2>2, Zenon
    <3> QED BY <1>2, <1>4, <2>4, <2>2, <3>1, <3>2 DEF DeliveryInv, EventsCounted
  <2>8. AckedIsLast'
    <3>1. faults = 0 => e.task \notin acked
      BY <1>4, Zenon DEF DeliveryInv, AckedIsLast
    <3> QED BY <1>2, <2>4, <2>2, <3>1, SMTT(30) DEF DeliveryInv, AckedIsLast
  <2>9. CallbackKept'
    <3> SUFFICES ASSUME NEW t \in Tasks, handler[t].pc = "ended", t \notin hurt, t \notin answered
                 PROVE  \/ \E a \in 1 .. MaxDurable : Event(t, a) \in retry' \cup dlq
                        \/ \E v \in Workers : /\ worker'[v].pc \in {"send", "requeue", "dead"}
                                              /\ worker'[v].ev.task = t
      BY <1>2, Zenon DEF CallbackKept
    <3>1. CASE e.task = t BY <2>2, <3>1, Zenon
    <3>2. CASE e.task # t
      <4>1. \A a \in 1 .. MaxDurable : Event(t, a) # e
        BY <3>2, DeliveryParts, DeliveryAssumption
      <4> QED BY <1>1, <1>2, <2>2, <4>1 DEF DeliveryInv, CallbackKept
    <3> QED BY <3>1, <3>2, Zenon
  <2> QED BY <2>3, <2>6, <2>7, <2>8, <2>9, Zenon DEF DeliveryInv
<1>5. CASE ~(e \in retry /\ e.attempt > 0)
  <2>1. worker' = [worker EXCEPT ![w] = Rest(worker[w].batch \ {e})]
    BY <1>1, <1>5, Zenon DEF Removed
  <2>2. /\ \A v \in Workers : v # w => worker'[v] = worker[v]
        /\ worker'[w].pc \in {"idle", "pop"}
    BY <1>3, <2>1, DeliveryParts DEF DeliveryInv, DeliveryTypes
  <2>3. /\ retry' \subseteq retry
        /\ \A f \in retry : f.attempt > 0 => f \in retry'
    BY <1>1, <1>5, Zenon
  <2>4. DeliveryTypeOK' /\ DeliveryTypes'
    <3>1. worker' \in [Workers -> [pc : {"idle", "pop", "send", "mark", "requeue", "dead"},
                                   batch : SUBSET Events, ev : Events]]
      BY <1>3, <2>1, DeliveryParts, Zenon DEF DeliveryInv, DeliveryTypes
    <3>2. \A v \in Workers : worker'[v].pc = "mark" => worker'[v] = worker[v]
      BY <2>2, Zenon
    <3> QED BY <1>2, <2>3, <3>1, <3>2, Zenon DEF DeliveryInv, DeliveryTypeOK, DeliveryTypes
  <2>5. EventsApart' /\ EventsCounted'
    BY <1>2, <2>2, <2>3, SMTT(30) DEF DeliveryInv, EventsApart, EventsCounted, Held
  <2>6. AckedIsLast'
    BY <1>2, <2>2, <2>3 DEF DeliveryInv, AckedIsLast
  <2>7. CallbackKept'
    <3>1. \A t \in Tasks, a \in 1 .. MaxDurable :
             Event(t, a) \in retry => Event(t, a) \in retry'
      BY <2>3, DeliveryParts, DeliveryAssumption
    <3> QED BY <1>2, <2>2, <3>1 DEF DeliveryInv, CallbackKept
  <2> QED BY <2>4, <2>5, <2>6, <2>7, Zenon DEF DeliveryInv
<1> QED BY <1>4, <1>5, Zenon

\* A post adds one to the count of its event, and an acknowledgement ends the event.
LEMMA SendStep ==
    ASSUME DeliveryInv, NEW w \in Workers, Send(w)
    PROVE  DeliveryInv'
<1> USE DEF inline, faultVars
<1> DEFINE After(e, a) == IF a = "ack" THEN "mark"
                          ELSE IF Exhausted(e) THEN "dead" ELSE "requeue"
<1>1. PICK e \in Events : e = worker[w].ev
  BY Zenon DEF DeliveryInv, DeliveryTypes
<1>2. PICK a \in Answers :
         /\ Received(e.task, a) /\ Acked(e.task, a)
         /\ sends' = [sends EXCEPT ![e.task] = @ + 1]
         /\ worker' = [worker EXCEPT ![w].pc = After(e, a)]
  BY <1>1, Zenon DEF Send
<1>3. /\ worker[w].pc = "send"
      /\ UNCHANGED <<record, handler, retry, payload, dlq, recon, done, hurt, faults>>
  BY Zenon DEF Send
<1>4. /\ e.task \in Tasks /\ e.attempt \in 0 .. MaxDurable
      /\ e.attempt > 0 /\ sends[e.task] = e.attempt - 1 /\ handler[e.task].pc = "ended"
  BY <1>1, <1>3, Zenon DEF DeliveryInv, EventsCounted, Held, Events
<1>5. /\ \A t \in Tasks : t # e.task => sends'[t] = sends[t]
      /\ sends'[e.task] = e.attempt
      /\ sends' \in [Tasks -> 0 .. MaxDurable]
  BY <1>2, <1>4, DeliveryAssumption DEF DeliveryInv, DeliveryTypes
<1>6. /\ \A v \in Workers : v # w => worker'[v] = worker[v] /\ Held(v)' = Held(v)
      /\ worker'[w].ev = e /\ worker'[w].pc = After(e, a) /\ Held(w) /\ Held(w)'
      /\ After(e, a) \in {"mark", "dead", "requeue"}
      /\ worker' \in [Workers -> [pc : {"idle", "pop", "send", "mark", "requeue", "dead"},
                                  batch : SUBSET Events, ev : Events]]
  BY <1>1, <1>2, <1>3 DEF DeliveryInv, DeliveryTypes, Held
<1>7. /\ acked \subseteq acked' /\ acked' \subseteq acked \cup {e.task}
      /\ answered \subseteq answered' /\ acked' \subseteq answered'
      /\ After(e, a) = "mark" => e.task \in acked'
      /\ After(e, a) # "mark" => acked' = acked
      /\ After(e, a) = "dead" => e.attempt = MaxDurable
      /\ After(e, a) = "requeue" => e.attempt < MaxDurable
  BY <1>2, <1>4, DeliveryAssumption
     DEF DeliveryInv, DeliveryTypeOK, Received, Acked, Answers,
         Exhausted
<1> HIDE DEF After
<1>8. /\ \A f \in retry \cup dlq : f.task \in Tasks
      /\ \A v \in Workers : worker[v].ev.task \in Tasks
  BY Zenon DEF DeliveryInv, DeliveryTypes, DeliveryTypeOK, Events
<1>9. /\ \A f \in retry : f.attempt > 0 => f.task # e.task
      /\ \A f \in dlq : f.task # e.task
      /\ \A v \in Workers : v # w /\ Held(v) => worker[v].ev.task # e.task
  BY <1>1, <1>6 DEF DeliveryInv, EventsApart
<1>10. DeliveryTypeOK'
  BY <1>3, <1>7, Zenon DEF DeliveryInv, DeliveryTypeOK
<1>11. DeliveryTypes'
  BY <1>3, <1>4, <1>5, <1>6, <1>7, Zenon DEF DeliveryInv, DeliveryTypes
<1>12. EventsApart'
  BY <1>1, <1>3, <1>6, SMTT(30) DEF DeliveryInv, EventsApart
<1>13. EventsCounted'
  <2>1. \A v \in Workers : Held(v)' =>
           /\ worker'[v].ev.attempt > 0 /\ handler[worker'[v].ev.task].pc = "ended"
           /\ sends'[worker'[v].ev.task] =
                 worker'[v].ev.attempt - (IF worker'[v].pc = "send" THEN 1 ELSE 0)
    <3>1. ASSUME NEW v \in Workers, v # w, Held(v)' PROVE <2>1!(v)!2
      <4>1. worker'[v] = worker[v] /\ Held(v) /\ worker[v].ev.task # e.task
        BY <1>6, <1>9, <3>1, Zenon
      <4>2. sends'[worker[v].ev.task] = sends[worker[v].ev.task]
        BY <1>5, <1>8, <4>1, Zenon
      <4> QED BY <4>1, <4>2, Zenon DEF DeliveryInv, EventsCounted
    <3> QED BY <1>4, <1>5, <1>6, <3>1, SMTT(30)
  <2>2. \A f \in retry : f.attempt > 0 => sends'[f.task] = sends[f.task]
    BY <1>5, <1>8, <1>9, Zenon
  <2>3. \A f \in dlq : sends'[f.task] = sends[f.task]
    BY <1>5, <1>8, <1>9, Zenon
  <2>4. \A t \in Tasks : handler[t].pc # "ended" => sends'[t] = sends[t]
    BY <1>4, <1>5, Zenon
  <2>5. \A v \in Workers : /\ worker'[v].pc = "requeue" => worker'[v].ev.attempt < MaxDurable
                           /\ worker'[v].pc = "dead" => worker'[v].ev.attempt = MaxDurable
    BY <1>6, <1>7, SMTT(30) DEF DeliveryInv, EventsCounted
  <2> QED BY <1>3, <2>1, <2>2, <2>3, <2>4, <2>5, Zenon DEF DeliveryInv, EventsCounted
<1>14. AckedIsLast'
  <2> SUFFICES ASSUME faults = 0, NEW t \in acked'
               PROVE  /\ handler[t].pc \in {"mark", "ended"}
                      /\ \A f \in retry \cup dlq : f.attempt > 0 => f.task # t
                      /\ \A v \in Workers :
                            worker'[v].pc \in {"send", "requeue", "dead"} => worker'[v].ev.task # t
    BY <1>3, Zenon DEF AckedIsLast
  <2>1. CASE t \in acked
    <3>1. e.task # t
      BY <1>1, <1>3, <2>1, Zenon DEF DeliveryInv, AckedIsLast
    <3> QED BY <1>6, <2>1, <3>1, SMTT(30) DEF DeliveryInv, AckedIsLast
  <2>2. CASE t \notin acked
    BY <1>4, <1>6, <1>7, <1>9, <2>2, SMTT(30) DEF Held
  <2> QED BY <2>1, <2>2, Zenon
<1>15. CallbackKept'
  <2>1. After(e, a) = "mark" => e.task \in answered'
    BY <1>7, Zenon
  <2> DEFINE Active(v, t) == worker[v].pc \in {"send", "requeue", "dead"} /\ worker[v].ev.task = t
  <2>2. \A t \in Tasks, v \in Workers : Active(v, t) => Active(v, t)' \/ t \in answered'
    <3> SUFFICES ASSUME NEW t \in Tasks, NEW v \in Workers, Active(v, t)
                 PROVE  Active(v, t)' \/ t \in answered'
      BY Zenon
    <3>1. CASE v # w
      BY <1>6, <3>1, Zenon
    <3>2. CASE v = w
      <4>1. t = e.task
        BY <1>1, <3>2, Zenon
      <4>2. CASE After(e, a) = "mark"
        BY <2>1, <4>1, <4>2, Zenon
      <4>3. CASE After(e, a) # "mark"
        BY <1>6, <3>2, <4>1, <4>3, Zenon
      <4> QED BY <4>2, <4>3, Zenon
    <3> QED BY <3>1, <3>2, Zenon
  <2>3. /\ handler' = handler /\ retry' = retry /\ dlq' = dlq /\ hurt' = hurt
        /\ answered \subseteq answered'
    BY <1>3, <1>7, Zenon
  <2> QED BY <2>2, <2>3, Zenon DEF DeliveryInv, CallbackKept
<1> QED BY <1>10, <1>11, <1>12, <1>13, <1>14, <1>15, Zenon DEF DeliveryInv

\* The outcome of a post is settled: the marker is written, or the event goes back
\* with the next attempt, or it is a dead letter.
LEMMA SettleStep ==
    ASSUME DeliveryInv, NEW w \in Workers, Settle(w)
    PROVE  DeliveryInv'
<1> USE DEF inline, faultVars
<1>1. PICK e \in Events : e = worker[w].ev
  BY Zenon DEF DeliveryInv, DeliveryTypes
<1>2. /\ worker[w].pc \in {"mark", "requeue", "dead"} /\ Held(w)
      /\ worker' = [worker EXCEPT ![w] = Rest(worker[w].batch)]
      /\ UNCHANGED <<record, handler, payload, recon, sends, answered, acked, hurt, faults>>
  BY Zenon DEF Settle, Held
<1>3. /\ e.task \in Tasks /\ e.attempt \in 1 .. MaxDurable
      /\ sends[e.task] = e.attempt /\ handler[e.task].pc = "ended"
  <2>1. e.task \in Tasks /\ e.attempt \in 0 .. MaxDurable
    BY Zenon DEF Events
  <2>2. worker[w].pc # "send"
    BY <1>2
  <2>3. e.attempt > 0 /\ sends[e.task] = e.attempt - 0 /\ handler[e.task].pc = "ended"
    BY <1>1, <1>2, <2>2, Zenon DEF DeliveryInv, EventsCounted
  <2> QED BY <2>1, <2>3, DeliveryAssumption
<1>4. /\ worker' \in [Workers -> [pc : {"idle", "pop", "send", "mark", "requeue", "dead"},
                                  batch : SUBSET Events, ev : Events]]
      /\ \A v \in Workers : v # w => worker'[v] = worker[v] /\ Held(v)' = Held(v)
      /\ worker'[w].pc \in {"idle", "pop"} /\ ~Held(w)'
  <2>1. worker[w].batch \in SUBSET Events
    BY Zenon DEF DeliveryInv, DeliveryTypes
  <2> QED BY <1>2, <2>1, DeliveryParts DEF DeliveryInv, DeliveryTypes, Held
<1>5. /\ \A f \in retry : f.attempt > 0 => f.task # e.task
      /\ \A f \in dlq : f.task # e.task
      /\ \A v \in Workers : v # w /\ Held(v) => worker[v].ev.task # e.task
  BY <1>1, <1>2, Zenon DEF DeliveryInv, EventsApart
<1>9. /\ \A g, h \in retry : g.attempt > 0 /\ h.attempt > 0 /\ g.task = h.task => g = h
      /\ \A v, u \in Workers :
            Held(v) /\ Held(u) /\ worker[v].ev.task = worker[u].ev.task => v = u
      /\ \A u \in Workers, g \in retry : Held(u) /\ g.attempt > 0 => worker[u].ev.task # g.task
      /\ \A u \in Workers, h \in dlq : Held(u) => worker[u].ev.task # h.task
      /\ \A g \in retry, h \in dlq : g.attempt > 0 => g.task # h.task
  BY Zenon DEF DeliveryInv, EventsApart
<1>10. \A u \in Workers : Held(u)' =>
          u # w /\ worker'[u].ev.task = worker[u].ev.task /\ Held(u)
  BY <1>4, Zenon
<1>11. \A v, u \in Workers :
          Held(v)' /\ Held(u)' /\ worker'[v].ev.task = worker'[u].ev.task => v = u
  <2> SUFFICES ASSUME NEW v \in Workers, NEW u \in Workers, Held(v)', Held(u)',
                      worker'[v].ev.task = worker'[u].ev.task
               PROVE  v = u
    BY Zenon
  <2>1. Held(v) /\ Held(u) /\ worker[v].ev.task = worker[u].ev.task
    BY <1>10, Zenon
  <2> QED BY <1>9, <2>1, Zenon
<1>12. \A v \in Workers :
          /\ Held(v)' =>
                /\ worker'[v].ev.attempt > 0
                /\ handler'[worker'[v].ev.task].pc = "ended"
                /\ sends'[worker'[v].ev.task] =
                      worker'[v].ev.attempt - (IF worker'[v].pc = "send" THEN 1 ELSE 0)
          /\ worker'[v].pc = "requeue" => worker'[v].ev.attempt < MaxDurable
          /\ worker'[v].pc = "dead" => worker'[v].ev.attempt = MaxDurable
  <2>0. sends' = sends /\ handler' = handler
    BY <1>2, Zenon
  <2>1. ASSUME NEW v \in Workers, v # w PROVE <1>12!(v)
    <3>1. worker'[v] = worker[v] /\ Held(v)' = Held(v)
      BY <1>4, <2>1, Zenon
    <3> QED BY <2>0, <3>1, Zenon DEF DeliveryInv, EventsCounted
  <2>2. /\ ~Held(w)' /\ worker'[w].pc # "requeue" /\ worker'[w].pc # "dead"
    BY <1>4
  <2> QED BY <2>1, <2>2, Zenon
<1>6. CASE worker[w].pc = "mark"
  <2>1. UNCHANGED <<retry, dlq>> /\ done' = done \cup {e.task} /\ e.task \in acked
    BY <1>1, <1>6, Zenon DEF Settle, DeliveryInv, DeliveryTypes
  <2>2. DeliveryTypeOK' /\ DeliveryTypes'
    BY <1>2, <1>4, <2>1, Zenon DEF DeliveryInv, DeliveryTypeOK, DeliveryTypes
  <2>3. EventsApart'
    <3>1. retry' = retry /\ dlq' = dlq
      BY <2>1, Zenon
    <3>2. /\ \A u \in Workers, g \in retry :
                Held(u)' /\ g.attempt > 0 => worker'[u].ev.task # g.task
          /\ \A u \in Workers, h \in dlq : Held(u)' => worker'[u].ev.task # h.task
      BY <1>9, <1>10, Zenon
    <3> QED BY <1>9, <1>11, <3>1, <3>2, Zenon DEF EventsApart
  <2>4. EventsCounted'
    <3>1. retry' = retry /\ dlq' = dlq /\ sends' = sends /\ handler' = handler
      BY <1>2, <2>1, Zenon
    <3> QED BY <1>12, <3>1, Zenon DEF DeliveryInv, EventsCounted
  <2>5. AckedIsLast' /\ CallbackKept'
    BY <1>1, <1>2, <1>4, <1>6, <2>1
       DEF DeliveryInv, AckedIsLast, CallbackKept, DeliveryTypeOK
  <2> QED BY <2>2, <2>3, <2>4, <2>5, Zenon DEF DeliveryInv
<1>7. CASE worker[w].pc = "requeue"
  <2>1. e.attempt + 1 \in 1 .. MaxDurable
    <3>1. e.attempt < MaxDurable
      BY <1>1, <1>7, Zenon DEF DeliveryInv, EventsCounted
    <3> QED BY <1>3, <3>1, DeliveryAssumption
  <2>2. PICK f \in Events : /\ f = Event(e.task, e.attempt + 1)
                                     /\ f.task = e.task /\ f.attempt = e.attempt + 1
    <3>1. e.attempt + 1 \in 0 .. MaxDurable
      BY <2>1, DeliveryAssumption
    <3>2. \A t \in Tasks, n \in 0 .. MaxDurable :
             Event(t, n) \in Events /\ Event(t, n).task = t /\ Event(t, n).attempt = n
      BY DeliveryParts, Zenon
    <3>3. /\ Event(e.task, e.attempt + 1) \in Events
          /\ Event(e.task, e.attempt + 1).task = e.task
          /\ Event(e.task, e.attempt + 1).attempt = e.attempt + 1
      BY <1>3, <3>1, <3>2, Zenon
    <3> QED BY <3>3, Zenon
  <2>3. UNCHANGED <<done, dlq>> /\ retry' = retry \cup {f}
    BY <1>1, <1>7, <2>2, Zenon DEF Settle
  <2>4. DeliveryTypeOK' /\ DeliveryTypes'
    BY <1>2, <1>4, <2>3, Zenon DEF DeliveryInv, DeliveryTypeOK, DeliveryTypes
  <2>5. EventsApart'
    <3>0. dlq' = dlq /\ f.task = e.task /\ \A g \in retry' : g \in retry \/ g = f
      BY <2>2, <2>3, Zenon
    <3>1. \A g, h \in retry' : g.attempt > 0 /\ h.attempt > 0 /\ g.task = h.task => g = h
      BY <1>5, <1>9, <3>0, Zenon
    <3>3. \A u \in Workers, g \in retry' : Held(u)' /\ g.attempt > 0 => worker'[u].ev.task # g.task
      BY <1>5, <1>9, <1>10, <3>0, Zenon
    <3>4. \A u \in Workers, g \in dlq' : Held(u)' => worker'[u].ev.task # g.task
      BY <1>9, <1>10, <3>0, Zenon
    <3>5. \A g \in retry', h \in dlq' : g.attempt > 0 => g.task # h.task
      BY <1>5, <1>9, <3>0, Zenon
    <3> QED
      BY <1>11, <3>1, <3>3, <3>4, <3>5, Zenon DEF EventsApart
  <2>6. EventsCounted'
    <3>1. /\ dlq' = dlq /\ sends' = sends /\ handler' = handler
          /\ \A g \in retry' : g \in retry \/ g = f
      BY <1>2, <2>3, Zenon
    <3>2. f.attempt - 1 = e.attempt
      BY <1>3, <2>2
    <3>3. \A g \in retry' : g.attempt > 0 =>
             handler'[g.task].pc = "ended" /\ sends'[g.task] = g.attempt - 1
      <4>1. \A g \in retry : g.attempt > 0 =>
               handler[g.task].pc = "ended" /\ sends[g.task] = g.attempt - 1
        BY Zenon DEF DeliveryInv, EventsCounted
      <4>2. handler'[f.task].pc = "ended" /\ sends'[f.task] = f.attempt - 1
        BY <1>3, <2>2, <3>1, <3>2, Zenon
      <4> QED BY <3>1, <4>1, <4>2, Zenon
    <3> QED BY <1>12, <3>1, <3>3, Zenon DEF DeliveryInv, EventsCounted
  <2>7. AckedIsLast'
    <3>1. faults = 0 => e.task \notin acked
      BY <1>1, <1>7, Zenon DEF DeliveryInv, AckedIsLast
    <3> QED BY <1>2, <1>4, <2>2, <2>3, <3>1, SMTT(30) DEF DeliveryInv, AckedIsLast
  <2>8. CallbackKept'
    BY <1>1, <1>2, <1>4, <2>1, <2>2, <2>3 DEF DeliveryInv, CallbackKept
  <2> QED BY <2>4, <2>5, <2>6, <2>7, <2>8, Zenon DEF DeliveryInv
<1>8. CASE worker[w].pc = "dead"
  <2>1. UNCHANGED <<done, retry>> /\ dlq' = dlq \cup {e} /\ e.attempt = MaxDurable
    BY <1>1, <1>8, Zenon DEF Settle, DeliveryInv, EventsCounted
  <2>2. DeliveryTypeOK' /\ DeliveryTypes'
    BY <1>2, <1>4, <2>1, Zenon DEF DeliveryInv, DeliveryTypeOK, DeliveryTypes
  <2>3. EventsApart'
    <3>1. retry' = retry /\ \A g \in dlq' : g \in dlq \/ g = e
      BY <2>1, Zenon
    <3>4. \A u \in Workers, g \in retry' : Held(u)' /\ g.attempt > 0 => worker'[u].ev.task # g.task
      <4>1. \A u \in Workers, g \in retry : Held(u)' /\ g.attempt > 0 => worker'[u].ev.task # g.task
        BY <1>9, <1>10, Zenon
      <4> QED BY <3>1, <4>1, Zenon
    <3>5. \A u \in Workers, g \in dlq' : Held(u)' => worker'[u].ev.task # g.task
      BY <1>5, <1>9, <1>10, <3>1, Zenon
    <3>6. \A g \in retry', h \in dlq' : g.attempt > 0 => g.task # h.task
      BY <1>5, <1>9, <3>1, Zenon
    <3> QED BY <1>9, <1>11, <3>1, <3>4, <3>5, <3>6, Zenon DEF EventsApart
  <2>4. EventsCounted'
    <3>1. /\ retry' = retry /\ sends' = sends /\ handler' = handler
          /\ \A g \in dlq' : g \in dlq \/ g = e
      BY <1>2, <2>1, Zenon
    <3>2. \A g \in dlq' : /\ g.attempt = MaxDurable /\ sends'[g.task] = MaxDurable
                          /\ handler'[g.task].pc = "ended"
      BY <1>3, <2>1, <3>1, Zenon DEF DeliveryInv, EventsCounted
    <3> QED BY <1>12, <3>1, <3>2, Zenon DEF DeliveryInv, EventsCounted
  <2>5. AckedIsLast'
    <3>1. faults = 0 => e.task \notin acked
      BY <1>1, <1>8, Zenon DEF DeliveryInv, AckedIsLast
    <3> QED BY <1>2, <1>4, <2>1, <3>1, SMTT(30) DEF DeliveryInv, AckedIsLast
  <2>6. CallbackKept'
    <3>1. Event(e.task, e.attempt) = e
      BY Zenon DEF Event, Events
    <3> QED BY <1>1, <1>2, <1>3, <1>4, <2>1, <3>1 DEF DeliveryInv, CallbackKept
  <2> QED BY <2>2, <2>3, <2>4, <2>5, <2>6, Zenon DEF DeliveryInv
<1> QED BY <1>2, <1>6, <1>7, <1>8, Zenon

LEMMA DeliveryKept == DeliveryInv /\ [DeliveryNext]_deliveryVars => DeliveryInv'
<1> SUFFICES ASSUME DeliveryInv, [DeliveryNext]_deliveryVars PROVE DeliveryInv'
  OBVIOUS
<1>1. CASE UNCHANGED deliveryVars
  <2>1. /\ UNCHANGED <<record, handler, retry, payload, dlq, done, worker, recon>>
        /\ UNCHANGED <<answered, acked, sends, hurt, faults>>
    BY <1>1, Zenon DEF deliveryVars
  <2>2. DeliveryTypeOK' /\ DeliveryTypes'
    BY <2>1, Zenon DEF DeliveryInv, DeliveryTypeOK, DeliveryTypes
  <2>3. EventsApart'
    BY <2>1, Zenon DEF DeliveryInv, EventsApart, Held
  <2>4. EventsCounted'
    BY <2>1, Zenon DEF DeliveryInv, EventsCounted, Held
  <2>5. AckedIsLast'
    BY <2>1, Zenon DEF DeliveryInv, AckedIsLast
  <2> QED BY <2>1, <2>2, <2>3, <2>4, <2>5, Zenon DEF DeliveryInv, CallbackKept
<1> QED
  BY <1>1, InlineStep, EnqueueStep, PhaseStep, PassStep, PopStep, SendStep, SettleStep, Zenon
     DEF DeliveryNext

\* Callbacks, for any number of tasks, processors, retries and faults: a failed
\* inline delivery is kept until it is answered, dead or destroyed by a fault, a
\* task gets at most _MAX_DURABLE_ATTEMPTS durable posts whichever processors read
\* its event, and a dead letter has spent them all.
THEOREM CallbacksCorrect == DeliverySpec => []CallbackSound
<1>1. DeliveryInv => CallbackSound
  <2> SUFFICES ASSUME DeliveryInv PROVE CallbackSound
    OBVIOUS
  <2>1. DurablePostsBounded
    BY DeliveryAssumption DEF DeliveryInv, DeliveryTypes, DurablePostsBounded
  <2>2. DeadLetterSpent
    BY DeliveryAssumption, SMTT(30)
       DEF DeliveryInv, DeliveryTypes, EventsCounted, AckedIsLast, DeadLetterSpent
  <2> QED BY <2>1, <2>2, Zenon DEF DeliveryInv, CallbackSound
<1> QED BY <1>1, DeliveryStarts, DeliveryKept, PTL DEF DeliverySpec

-----------------------------------------------------------------------------
\* The row and what a session holds of it.
RowTypes ==
    /\ status \in [Rows -> Statuses]
    /\ attempts \in [Rows -> Nat]
    /\ seen \in [Dispatchers -> [Rows -> Nat]]
    /\ fate \in [Dispatchers -> [Rows -> Fates]]
    /\ posts \in [Rows -> Nat]

\* An uncommitted outcome is backed by a POST the row does not show yet.
FateSound(d, r) ==
    /\ seen[d][r] <= posts[r]
    /\ fate[d][r] # "none" => seen[d][r] + 1 <= posts[r]
    /\ fate[d][r] = "delivered" => r \in received
    /\ fate[d][r] = "dead_letter" => posts[r] >= MaxAttempts

OutboxInv ==
    /\ RowTypes
    /\ DeliveredWasReceived
    /\ GivenUpAfterMaxAttempts
    /\ \A d \in Dispatchers, r \in Rows : FateSound(d, r)

LEMMA OutboxInit == Init => OutboxInv
  BY OutboxAssumption DEF Init, OutboxInv, RowTypes, FateSound, DeliveredWasReceived,
     GivenUpAfterMaxAttempts, Zero, Nothing, Statuses, Fates

\* Steps that leave rows, sessions and history alone.
LEMMA OutboxQuiet ==
    ASSUME OutboxInv, UNCHANGED <<status, attempts, seen, fate, posts, received>>
    PROVE  OutboxInv'
  BY Zenon DEF OutboxInv, RowTypes, FateSound, DeliveredWasReceived, GivenUpAfterMaxAttempts

\* A session begins or ends without a commit.
LEMMA OutboxLoad ==
    ASSUME OutboxInv, NEW d \in Dispatchers, LoadBatch(d)
    PROVE  OutboxInv'
<1>1. UNCHANGED <<status, attempts, posts, received>>
  BY Zenon DEF LoadBatch, table, history
<1>2. RowTypes' BY <1>1, Zenon DEF OutboxInv, RowTypes, LoadBatch, Nothing, Fates
<1>3. ASSUME NEW e \in Dispatchers, NEW r \in Rows PROVE FateSound(e, r)'
  <2>1. CASE e = d
    BY <1>1, <2>1, Zenon DEF OutboxInv, RowTypes, LoadBatch, Nothing, FateSound,
       GivenUpAfterMaxAttempts
  <2>2. CASE e # d
    BY <1>1, <2>2, Zenon DEF OutboxInv, RowTypes, LoadBatch, FateSound
  <2> QED BY <2>1, <2>2, Zenon
<1> QED
  BY <1>1, <1>2, <1>3, Zenon DEF OutboxInv, DeliveredWasReceived, GivenUpAfterMaxAttempts

LEMMA OutboxEnd ==
    ASSUME OutboxInv, NEW d \in Dispatchers, NEW next, EndSession(d, next),
           UNCHANGED <<status, attempts, posts, received>>
    PROVE  OutboxInv'
<1>1. RowTypes' BY Zenon DEF OutboxInv, RowTypes, EndSession, Nothing, Zero, Fates
<1>2. ASSUME NEW e \in Dispatchers, NEW r \in Rows PROVE FateSound(e, r)'
  <2>1. CASE e = d
    BY <2>1 DEF OutboxInv, RowTypes, EndSession, Nothing, Zero, FateSound
  <2>2. CASE e # d
    BY <2>2, Zenon DEF OutboxInv, RowTypes, EndSession, FateSound
  <2> QED BY <2>1, <2>2, Zenon
<1> QED
  BY <1>1, <1>2, Zenon DEF OutboxInv, DeliveredWasReceived, GivenUpAfterMaxAttempts

\* A POST is counted before anything is concluded from it.
LEMMA OutboxPost ==
    ASSUME OutboxInv, NEW d \in Dispatchers, NEW r \in Rows, NEW out \in Fates,
           Posted(d, r, out),
           received' = received \/ received' = received \cup {r},
           out = "delivered" => r \in received',
           out = "dead_letter" => seen[d][r] + 1 >= MaxAttempts
    PROVE  OutboxInv'
<1> USE OutboxAssumption
<1>1. /\ UNCHANGED <<status, attempts, seen>>
      /\ posts' = [posts EXCEPT ![r] = posts[r] + 1]
      /\ fate' = [fate EXCEPT ![d][r] = out]
  BY Zenon DEF Posted, table
<1>2. RowTypes' BY <1>1 DEF OutboxInv, RowTypes
<1>3. \A q \in Rows : posts[q] \in Nat /\ posts'[q] \in Nat /\ posts[q] <= posts'[q]
  BY <1>1 DEF OutboxInv, RowTypes
<1>4. ASSUME NEW e \in Dispatchers, NEW q \in Rows PROVE FateSound(e, q)'
  <2>1. seen[e][q] \in Nat /\ FateSound(e, q)
    BY DEF OutboxInv, RowTypes
  <2>2. CASE e = d /\ q = r
    <3>1. fate'[e][q] = out /\ posts'[q] = posts[q] + 1
      BY <1>1, <2>2, Zenon DEF OutboxInv, RowTypes
    <3>2. seen'[e][q] = seen[e][q]
      BY <1>1, Zenon
    <3>3. posts[q] \in Nat /\ seen[e][q] <= posts[q]
      BY <1>3, <2>1, Zenon DEF FateSound
    <3>4. /\ seen[e][q] <= posts[q] + 1 /\ seen[e][q] + 1 <= posts[q] + 1
          /\ seen[e][q] + 1 >= MaxAttempts => posts[q] + 1 >= MaxAttempts
      BY <2>1, <3>3
    <3> QED BY <2>2, <3>1, <3>2, <3>4, Zenon DEF FateSound
  <2>3. CASE ~(e = d /\ q = r)
    <3>1. fate'[e][q] = fate[e][q]
      BY <1>1, <2>3, Zenon DEF OutboxInv, RowTypes
    <3> QED BY <1>1, <1>3, <2>1, <3>1 DEF FateSound
  <2> QED BY <2>2, <2>3, Zenon
<1>5. DeliveredWasReceived'
  BY <1>1, Zenon DEF OutboxInv, DeliveredWasReceived
<1>6. GivenUpAfterMaxAttempts'
  <2> SUFFICES ASSUME NEW q \in Rows
               PROVE  /\ attempts[q] <= posts'[q]
                      /\ status[q] = "dead_letter" => posts'[q] >= MaxAttempts
    BY <1>1, Zenon DEF GivenUpAfterMaxAttempts
  <2>1. /\ attempts[q] \in Nat /\ attempts[q] <= posts[q]
        /\ status[q] = "dead_letter" => posts[q] >= MaxAttempts
    BY Zenon DEF OutboxInv, RowTypes, GivenUpAfterMaxAttempts
  <2> QED BY <1>3, <2>1
<1> QED BY <1>2, <1>4, <1>5, <1>6, Zenon DEF OutboxInv

\* A commit writes only what FateSound vouches for.
LEMMA OutboxCommit ==
    ASSUME OutboxInv, NEW d \in Dispatchers, Commit(d)
    PROVE  OutboxInv'
<1> DEFINE NewStatus == [r \in Rows |->
               IF fate[d][r] \in Statuses THEN fate[d][r] ELSE status[r]]
           NewAttempts == [r \in Rows |->
               IF fate[d][r] # "none" THEN seen[d][r] + 1 ELSE attempts[r]]
<1>1. status' = NewStatus /\ attempts' = NewAttempts /\ UNCHANGED <<posts, received>>
  BY Zenon DEF Commit, CommitChanges, history
<1>2. \A r \in Rows : FateSound(d, r) BY Zenon DEF OutboxInv
<1>3. RowTypes'
  BY <1>1 DEF OutboxInv, RowTypes, Commit, EndSession, Nothing, Zero, Fates
<1>4. ASSUME NEW e \in Dispatchers, NEW r \in Rows PROVE FateSound(e, r)'
  <2>1. CASE e = d
    BY <1>1, <2>1 DEF OutboxInv, RowTypes, Commit, EndSession, Nothing, Zero, FateSound
  <2>2. CASE e # d
    BY <1>1, <2>2, Zenon DEF OutboxInv, RowTypes, Commit, EndSession, FateSound
  <2> QED BY <2>1, <2>2, Zenon
<1>5. DeliveredWasReceived'
  BY <1>1, <1>2, Zenon DEF OutboxInv, DeliveredWasReceived, FateSound
<1>6. GivenUpAfterMaxAttempts'
  BY <1>1, <1>2, Zenon DEF OutboxInv, GivenUpAfterMaxAttempts, FateSound, Statuses
<1> QED BY <1>3, <1>4, <1>5, <1>6, Zenon DEF OutboxInv

LEMMA OutboxReplay ==
    ASSUME OutboxInv, NEW o \in Operators, NEW r \in Rows, ReplayDeadLetter(o, r)
    PROVE  OutboxInv'
<1>1. /\ UNCHANGED <<attempts, seen, fate, posts, received>>
      /\ status' = [status EXCEPT ![r] = "pending"]
  BY Zenon DEF ReplayDeadLetter, session, history
<1> QED
  BY <1>1, Zenon DEF OutboxInv, RowTypes, FateSound, DeliveredWasReceived,
     GivenUpAfterMaxAttempts, Statuses

\* Every step, replays, restarts and dying loops included, keeps the accounts.
THEOREM OutboxAccounting == Spec => []OutboxInv
<1>1. ASSUME OutboxInv, [Next]_vars PROVE OutboxInv'
  <2>1. ASSUME NEW d \in Dispatchers, DispatcherStep(d) PROVE OutboxInv'
    <3>1. ASSUME NEW r \in Rows, PostSucceeds(d, r) PROVE OutboxInv'
      BY <1>1, <3>1, OutboxPost, Zenon DEF PostSucceeds, Fates
    <3>2. ASSUME NEW r \in Rows, PostFails(d, r) PROVE OutboxInv'
      <4>1. FailedFate(seen[d][r] + 1) \in {"retry", "dead_letter"}
        BY Zenon DEF FailedFate
      <4>2. FailedFate(seen[d][r] + 1) = "dead_letter" => seen[d][r] + 1 >= MaxAttempts
        BY Zenon DEF FailedFate
      <4> QED BY <1>1, <3>2, <4>1, <4>2, OutboxPost, Zenon DEF PostFails, Fates
    <3> QED BY <1>1, <2>1, <3>1, <3>2, OutboxLoad, OutboxCommit, Zenon DEF DispatcherStep
  <2>2. ASSUME NEW d \in Dispatchers, DatabaseError(d) \/ Restart(d) PROVE OutboxInv'
    BY <1>1, <2>2, OutboxEnd, Zenon DEF DatabaseError, Restart, table, history
  <2>3. ASSUME NEW o \in Operators, NEW r \in Rows, CheckReplay(o, r) PROVE OutboxInv'
    BY <1>1, <2>3, OutboxQuiet, Zenon DEF CheckReplay, table, session, history
  <2>4. CASE Tick BY <1>1, <2>4, OutboxQuiet, Zenon DEF Tick, history
  <2>5. CASE UNCHANGED vars
    BY <1>1, <2>5, OutboxQuiet, Zenon DEF vars, table, session, history
  <2> QED BY <1>1, <2>1, <2>2, <2>3, <2>4, <2>5, OutboxReplay, Zenon DEF Next
<1> QED BY <1>1, OutboxInit, PTL DEF Spec

\* What is marked delivered was received.
THEOREM DeliveredSound == Spec => []DeliveredWasReceived
<1>1. OutboxInv => DeliveredWasReceived BY Zenon DEF OutboxInv
<1> QED BY <1>1, OutboxAccounting, PTL

\* What is given up was posted max_attempts times, and attempt_count never
\* counts a POST that was not made.
THEOREM GivenUpSound == Spec => []GivenUpAfterMaxAttempts
<1>1. OutboxInv => GivenUpAfterMaxAttempts BY Zenon DEF OutboxInv
<1> QED BY <1>1, OutboxAccounting, PTL

\* The columns keep their types: the backoff table is read inside its bounds and
\* the delays it gives stay natural numbers.
THEOREM OutboxTypeCorrect == Spec => []TypeOK
<1> USE OutboxAssumption
<1>1. Init => TypeOK
  BY DEF Init, TypeOK, Zero, Nothing, Statuses, Fates
<1>2. ASSUME TypeOK, [Next]_vars PROVE TypeOK'
  <2>1. ASSUME NEW d \in Dispatchers, LoadBatch(d) PROVE TypeOK'
    <3>1. todo' \in [Dispatchers -> SUBSET Rows]
      BY <1>2, <2>1 DEF TypeOK, LoadBatch, Due
    <3> QED BY <1>2, <2>1, <3>1, Zenon
               DEF TypeOK, LoadBatch, Nothing, Fates, table, ops, history
  <2>2. ASSUME NEW d \in Dispatchers, NEW r \in Rows, PostSucceeds(d, r) PROVE TypeOK'
    BY <1>2, <2>2 DEF TypeOK, PostSucceeds, Posted, Fates, table, ops
  <2>3. ASSUME NEW d \in Dispatchers, NEW r \in Rows, PostFails(d, r) PROVE TypeOK'
    <3>1. FailedFate(seen[d][r] + 1) \in Fates BY Zenon DEF FailedFate, Fates
    <3>2. received' \subseteq Rows BY <1>2, <2>3, Zenon DEF TypeOK, PostFails
    <3>3. /\ fate' = [fate EXCEPT ![d][r] = FailedFate(seen[d][r] + 1)]
          /\ posts' = [posts EXCEPT ![r] = @ + 1]
      BY <2>3, Zenon DEF PostFails, Posted
    <3>4. fate' \in [Dispatchers -> [Rows -> Fates]] /\ posts' \in [Rows -> Nat]
      BY <1>2, <3>1, <3>3 DEF TypeOK
    <3> QED BY <1>2, <2>3, <3>2, <3>4 DEF TypeOK, PostFails, Posted, table, ops
  <2>4. ASSUME NEW d \in Dispatchers, Commit(d) PROVE TypeOK'
    <3>1. ASSUME NEW n \in Nat PROVE NextAttemptDelay(n) \in Nat
      BY DEF NextAttemptDelay, Steps
    <3>2. ASSUME NEW r \in Rows PROVE CommitWait(d, r) \in Nat
      <4>1. seen[d][r] + 1 \in Nat /\ elapsed[d] \in Nat BY <1>2 DEF TypeOK
      <4>2. NextAttemptDelay(seen[d][r] + 1) \in Nat BY <3>1, <4>1, Zenon
      <4> HIDE DEF NextAttemptDelay
      <4> QED BY <4>1, <4>2 DEF CommitWait
    <3>3. wait' \in [Rows -> Nat]
      BY <1>2, <2>4, <3>2, Zenon DEF TypeOK, Commit, CommitChanges
    <3>4. status' \in [Rows -> Statuses] /\ attempts' \in [Rows -> Nat]
      BY <1>2, <2>4 DEF TypeOK, Commit, CommitChanges
    <3> QED
      BY <1>2, <2>4, <3>3, <3>4, Zenon DEF TypeOK, Commit, EndSession, Nothing, Zero, Fates,
         ops, history
  <2>5. ASSUME NEW d \in Dispatchers, DatabaseError(d) \/ Restart(d) PROVE TypeOK'
    <3>1. crashes' \in 0 .. MaxCrashes
      BY <1>2, <2>5 DEF TypeOK, DatabaseError, Restart
    <3>2. UNCHANGED <<status, attempts, wait, request, asked, posts, received>>
      BY <2>5, Zenon DEF DatabaseError, Restart, table, ops, history
    <3>3. \E next \in {"idle", "dead"} : EndSession(d, next)
      BY <2>5, Zenon DEF DatabaseError, Restart
    <3> QED
      BY <1>2, <3>1, <3>2, <3>3 DEF TypeOK, EndSession, Nothing, Zero, Fates
  <2>6. ASSUME NEW o \in Operators, NEW r \in Rows,
               CheckReplay(o, r) \/ ReplayDeadLetter(o, r)
        PROVE  TypeOK'
    <3>1. CASE CheckReplay(o, r)
      BY <1>2, <3>1, Zenon DEF TypeOK, CheckReplay, table, session, history
    <3>2. CASE ReplayDeadLetter(o, r)
      BY <1>2, <3>2, Zenon DEF TypeOK, ReplayDeadLetter, Statuses, session, history
    <3> QED BY <2>6, <3>1, <3>2, Zenon
  <2>7. CASE Tick
    <3>1. wait' \in [Rows -> Nat] BY <1>2, <2>7 DEF TypeOK, Tick
    <3>2. elapsed' \in [Dispatchers -> Nat] BY <1>2, <2>7 DEF TypeOK, Tick
    <3> QED BY <1>2, <2>7, <3>1, <3>2, Zenon DEF TypeOK, Tick, ops, history
  <2>8. CASE UNCHANGED vars
    BY <1>2, <2>8, Zenon DEF TypeOK, vars, table, session, ops, history
  <2> QED
    BY <1>2, <2>1, <2>2, <2>3, <2>4, <2>5, <2>6, <2>7, <2>8, Zenon DEF Next, DispatcherStep
<1> QED BY <1>1, <1>2, PTL DEF Spec

=============================================================================
