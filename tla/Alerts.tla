------------------------------- MODULE Alerts -------------------------------
(***************************************************************************)
(* src/monitoring/alerts.py and src/api/routes/alerts.py: the webhook that *)
(* Alertmanager calls, its history in Redis, and the silences.             *)
(*                                                                         *)
(*   post      each webhook call: the severities of its alerts, whether    *)
(*             the payload parses, and the alert it is at                  *)
(*   received  the channels that took each alert (by post and position)    *)
(*   history   alerts:history, entries numbered in the order of their ZADD *)
(*   added     entries ever added                                          *)
(*   inquiry   a call of get_alert_status: what it read, and the newest    *)
(*             entry there was when it counted                             *)
(*   silences  alerts:silences, silence -> expires_at (0: not there)       *)
(*   expiry    the time at which the whole hash expires (0: never)         *)
(*                                                                         *)
(* The webhook channel always answers False: without ALERT_WEBHOOK_URL it  *)
(* is skipped, and with it the payload holds a datetime, which httpx       *)
(* cannot encode.  The infoflow channel is a log line and answers True.    *)
(* Nothing reads the silences or the acknowledgements.                     *)
(***************************************************************************)
EXTENDS Integers, Sequences, FiniteSets

CONSTANTS
    Posts, Silences,
    MaxLen,     \* _ALERT_HISTORY_MAXLEN (1000)
    Durations,  \* duration_minutes the callers choose
    Grace,      \* the hour that create_silence adds to the expiry of the hash
    Horizon,    \* bound: the clock
    MaxFaults   \* bound: Redis errors

VARIABLES post, received, history, added, inquiry, silences, expiry, cut, now, faults

vars == <<post, received, history, added, inquiry, silences, expiry, cut, now, faults>>

Severities == {"critical", "warning", "info"}

Idle == [pc |-> "idle", batch |-> <<>>, parses |-> TRUE, stored |-> TRUE, at |-> 1]

Batches == {<<s>> : s \in Severities} \cup {<<s, "warning">> : s \in Severities}

\* route_alert; the two default rules add infoflow to alerts that have it
Route(severity) ==
    CASE severity = "critical" -> {"infoflow", "webhook"}
      [] severity = "warning"  -> {"infoflow"}
      [] OTHER                 -> {"webhook"}

\* the webhook is tried first and its failure ends the loop
SentToFirstFailure(severity) ==
    IF "webhook" \in Route(severity) THEN {} ELSE Route(severity)

\* notify: every channel of the alert is tried, whatever the others answer
Sent(severity) == Route(severity) \ {"webhook"}

NoStatus == [pc |-> "idle", total |-> 0, last |-> 0, newest |-> 0]

TypeOK ==
    /\ \A p \in Posts : /\ post[p].pc \in {"idle", "notify", "add", "trim", "done", "refused"}
                        /\ post[p].at \in 1..(Len(post[p].batch) + 1)
    /\ \A p \in Posts : received[p] \in [1..2 -> SUBSET {"infoflow", "webhook"}]
    /\ history \subseteq 1..added
    /\ added \in 0..(2 * Cardinality(Posts))
    /\ inquiry.pc \in {"idle", "counted", "answered", "failed"}
    /\ inquiry.total \in 0..added /\ inquiry.last \in 0..added
    /\ \A s \in Silences : silences[s] \in Nat
    /\ cut \subseteq Silences
    /\ {expiry, now, faults} \subseteq Nat

Init ==
    /\ post = [p \in Posts |-> Idle]
    /\ received = [p \in Posts |-> [i \in 1..2 |-> {}]]
    /\ history = {}
    /\ added = 0
    /\ inquiry = NoStatus
    /\ silences = [s \in Silences |-> 0]
    /\ expiry = 0
    /\ cut = {}
    /\ now = 0
    /\ faults = 0

\* alertmanager_webhook: a payload that AlertManagerWebhook refuses is
\* persisted all the same and answered with 400 at the end
Receive(p) ==
    /\ post[p].pc = "idle"
    /\ \E b \in Batches, ok \in BOOLEAN :
        post' = [post EXCEPT ![p] = [pc |-> IF ok THEN "notify" ELSE "add", batch |-> b,
                                     parses |-> ok, stored |-> TRUE, at |-> 1]]
    /\ UNCHANGED <<received, history, added, inquiry, silences, expiry, cut, now, faults>>

\* test_alert: one warning of its own goes the same way and is not persisted
TestAlert(p) ==
    /\ post[p].pc = "idle"
    /\ post' = [post EXCEPT ![p] = [Idle EXCEPT !.pc = "notify", !.batch = <<"warning">>, !.stored = FALSE]]
    /\ UNCHANGED <<received, history, added, inquiry, silences, expiry, cut, now, faults>>

Notify(p) ==
    LET i == post[p].at IN
    /\ post[p].pc = "notify"
    /\ IF i > Len(post[p].batch)
       THEN /\ post' = [post EXCEPT ![p].pc = IF post[p].stored THEN "add" ELSE "done", ![p].at = 1]
            /\ UNCHANGED received
       ELSE /\ received' = [received EXCEPT ![p][i] = Sent(post[p].batch[i])]
            /\ post' = [post EXCEPT ![p].at = i + 1]
    /\ UNCHANGED <<history, added, inquiry, silences, expiry, cut, now, faults>>

\* the alert after the one at `at`, or the answer
After(p) ==
    LET last == post[p].at >= Len(post[p].batch)
    IN  [post[p] EXCEPT !.at = @ + 1,
                        !.pc = IF ~last THEN "add"
                               ELSE IF post[p].parses THEN "done" ELSE "refused"]

Add(p) ==
    /\ post[p].pc = "add"
    /\ added' = added + 1
    /\ history' = history \cup {added + 1}
    /\ post' = [post EXCEPT ![p].pc = "trim"]
    /\ UNCHANGED <<received, inquiry, silences, expiry, cut, now, faults>>

Smallest(n, S) == {e \in S : Cardinality({d \in S : d < e}) < n}

TrimmedOneMore(h) == Smallest(Cardinality(h) - MaxLen + 1, h)

\* zremrangebyrank(key, 0, -MaxLen - 1): all but the MaxLen highest scores
Trimmed(h) == Smallest(Cardinality(h) - MaxLen, h)

Trim(p) ==
    /\ post[p].pc = "trim"
    /\ history' = history \ Trimmed(history)
    /\ post' = [post EXCEPT ![p] = After(p)]
    /\ UNCHANGED <<received, added, inquiry, silences, expiry, cut, now, faults>>

\* a failing ZADD or ZREMRANGEBYRANK is logged and the loop goes on
PersistFails(p) ==
    /\ post[p].pc \in {"add", "trim"}
    /\ faults < MaxFaults
    /\ faults' = faults + 1
    /\ post' = [post EXCEPT ![p] = After(p)]
    /\ UNCHANGED <<received, history, added, inquiry, silences, expiry, cut, now>>

NewestOldest(h) == IF h = {} THEN 0 ELSE CHOOSE e \in h : \A d \in h : d >= e

\* zrevrange(key, 0, 0): the entry of the highest score, 0 when there is none
Newest(h) == IF h = {} THEN 0 ELSE CHOOSE e \in h : \A d \in h : d <= e

\* get_alert_status: ZCARD, then the newest entry; an error of either is logged
\* and the answer holds what was read before it
CountAlerts ==
    /\ inquiry.pc = "idle"
    /\ inquiry' = [NoStatus EXCEPT !.pc = "counted", !.total = Cardinality(history), !.newest = added]
    /\ UNCHANGED <<post, received, history, added, silences, expiry, cut, now, faults>>

LastAlert ==
    /\ inquiry.pc = "counted"
    /\ inquiry' = [inquiry EXCEPT !.pc = "answered", !.last = Newest(history)]
    /\ UNCHANGED <<post, received, history, added, silences, expiry, cut, now, faults>>

StatusFails ==
    /\ inquiry.pc \in {"idle", "counted"}
    /\ faults < MaxFaults
    /\ faults' = faults + 1
    /\ inquiry' = [inquiry EXCEPT !.pc = "failed"]
    /\ UNCHANGED <<post, received, history, added, silences, expiry, cut, now>>

AlertStatus == CountAlerts \/ LastAlert \/ StatusFails

HashExpiryShort(d) == now + d

\* EXPIRE counts from now and covers the whole hash
HashExpiry(d) == now + d + Grace

\* create_silence; the history variable cut collects the silences that this
\* EXPIRE will remove before they end
Silence(s) ==
    /\ silences[s] = 0
    /\ \E d \in Durations :
        /\ silences' = [silences EXCEPT ![s] = now + d]
        /\ expiry' = HashExpiry(d)
        /\ cut' = cut \cup {t \in Silences : silences[t] > now + d + Grace}
    /\ UNCHANGED <<post, received, history, added, inquiry, now, faults>>

\* HSET succeeded and EXPIRE failed: the hash keeps the expiry it had
SilenceHalf(s) ==
    /\ silences[s] = 0
    /\ faults < MaxFaults
    /\ faults' = faults + 1
    /\ \E d \in Durations :
        /\ silences' = [silences EXCEPT ![s] = now + d]
        /\ cut' = IF expiry # 0 /\ now + d > expiry THEN cut \cup {s} ELSE cut
    /\ UNCHANGED <<post, received, history, added, inquiry, expiry, now>>

DeleteSilence(s) ==
    /\ silences[s] # 0
    /\ silences' = [silences EXCEPT ![s] = 0]
    /\ expiry' = IF \A t \in Silences \ {s} : silences[t] = 0 THEN 0 ELSE expiry
    /\ cut' = cut \ {s}
    /\ UNCHANGED <<post, received, history, added, inquiry, now, faults>>

\* time passes and Redis drops the hash when its expiry has come
Tick ==
    /\ now < Horizon
    /\ now' = now + 1
    /\ IF expiry # 0 /\ expiry <= now + 1
       THEN silences' = [s \in Silences |-> 0] /\ expiry' = 0
       ELSE UNCHANGED <<silences, expiry>>
    /\ UNCHANGED <<post, received, history, added, inquiry, cut, faults>>

\* the two GET routes that follow the webhook
Probes == AlertStatus \/ \E p \in Posts : TestAlert(p)

Webhook ==
    \/ \E p \in Posts : Receive(p) \/ Notify(p) \/ Add(p) \/ Trim(p) \/ PersistFails(p)
    \/ Probes

Silencing ==
    \/ \E s \in Silences : Silence(s) \/ SilenceHalf(s) \/ DeleteSilence(s)
    \/ Tick

Next == Webhook \/ Silencing

(***************************************************************************)
(* Properties                                                              *)
(***************************************************************************)

\* alertmanager_webhook: however calls, their trims and failed trims
\* interleave, the history is the newest part of what was added, without a
\* gap, and nothing is dropped before MaxLen newer entries exist.
HistoryIsNewest ==
    /\ history = (added - Cardinality(history) + 1)..added
    /\ Cardinality(history) >= (IF added < MaxLen THEN added ELSE MaxLen)

\* notify: when a payload that parses has been answered, every critical and
\* warning alert of it has reached a channel, although the webhook channel
\* fails for the critical ones.
UrgentAlertsSent ==
    \A p \in Posts :
        post[p].pc = "done" =>
            \A i \in 1..Len(post[p].batch) :
                post[p].batch[i] # "info" => received[p][i] # {}

\* get_alert_status: although webhooks add and trim between its two reads, the
\* alert it names as the last is at least as new as every alert it counted.
StatusNamesNewest ==
    inquiry.pc = "answered" => inquiry.last >= inquiry.newest /\ inquiry.last >= inquiry.total

\* create_silence: the expiry of the hash removes a silence before its own
\* end only if a later silence was shorter by more than the grace of an hour,
\* or an EXPIRE failed.
SilencesLast ==
    [][\A s \in Silences :
        silences[s] > now' /\ silences'[s] = 0 /\ now' # now => s \in cut]_vars
=============================================================================
