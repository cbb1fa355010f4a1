---------------------------- MODULE AlertPipeline ----------------------------
(***************************************************************************)
(* From a detection to the people it is for: deduplication, the alert      *)
(* store, the Wazuh log, the kill-chain bundle of an entity                *)
(* (alert_manager/subscriber.py, store.py) and the notification of every   *)
(* user (observability/notifications.py), as coroutines on one event loop. *)
(*                                                                         *)
(* A chain is a task that emits on the bus and waits for every handler:    *)
(* the detection loop, the replay of a dead letter, the end-to-end test.   *)
(* Between two awaits a chain runs alone, so a step below is the code from *)
(* one await that gives way to the next: the delivery of an emitted event  *)
(* (asyncio.gather starts the handlers later), the sends of one            *)
(* notification, and the return to the emitter.                            *)
(* A unit of time is the correlation and notification window or a part of  *)
(* it; all windows are counted in it.                                      *)
(***************************************************************************)
EXTENDS Integers, FiniteSets

CONSTANTS Chains, Entities, Detectors,
          NumUsers,           \* users paged, in the order of the accounts
          MaxAlerts, MaxTests, MaxTime, MaxRestarts,
          DedupWindow,        \* dedup_window_minutes
          Lag,                \* the oldest the newest event of a detection may be
          CorrelationWindow,  \* correlation_window_seconds
          NoticeWindow,       \* dedup_window_seconds of the dispatcher
          Patience,           \* the longest an alert's awaits take
          SmsCap              \* max_sms_per_day

ASSUME WindowsAssumption ==
    /\ Entities # {} /\ Chains # {} /\ IsFiniteSet(Chains) /\ IsFiniteSet(Detectors)
    /\ NumUsers \in Nat /\ MaxAlerts \in Nat /\ MaxTests \in Nat /\ MaxTime \in Nat /\ MaxRestarts \in Nat
    /\ CorrelationWindow \in Nat /\ NoticeWindow \in Nat /\ SmsCap \in Nat /\ Patience \in Nat
    /\ DedupWindow \in Nat /\ Lag \in Nat /\ DedupWindow - Lag > 2 * (CorrelationWindow + Patience)

VARIABLES
    now,
    alerts,         \* the alerts and detections tables
    stored,         \* alerts so far, the end-to-end test's included
    notices,        \* the notifications table: one row per alert and user;
                    \* "unsent" covers waiting, failed and skipped by the cap
    recent,         \* AlertSubscriber._recent
    correlatedUntil,
    lapsed,         \* history: alerts of a second detector whose bundle failed
    chain,          \* what each chain is waiting in
    restarts

dbVars == <<alerts, stored, notices>>
memVars == <<recent, correlatedUntil, lapsed>>
vars == <<now, dbVars, memVars, chain, restarts>>

Alerts == 1 .. MaxAlerts
Users  == 1 .. NumUsers
Times  == 0 .. MaxTime
Never  == -1

(* at: when it was raised; event: the time of the newest event behind a     *)
(* single alert; fate: whether it reached the Wazuh log; when: the time of it. *)
AlertType  == [kind: {"none", "single", "bundle", "test"}, entity: Entities, detectors: SUBSET Detectors,
               at: Times, event: -Lag .. MaxTime,
               fate: {"stored", "published"}, when: Times \cup {Never}]
NoticeType == [sms: {"none", "unsent", "sent"}, at: Times]
ChainType  == [pc: {"idle", "emit", "send", "return"}, alert: 0 .. MaxAlerts, user: 0 .. NumUsers,
               sms: BOOLEAN, began: Times]
HeardType  == [at: Times, detector: Detectors]

NoAlert  == [kind |-> "none", entity |-> CHOOSE e \in Entities : TRUE, detectors |-> {},
             at |-> 0, event |-> 0, fate |-> "stored", when |-> Never]
NoNotice == [sms |-> "none", at |-> 0]
Idle     == [pc |-> "idle", alert |-> 0, user |-> 0, sms |-> FALSE, began |-> 0]
Emitting(a, t) == [pc |-> "emit", alert |-> a, user |-> 0, sms |-> FALSE, began |-> t]

TypeOK ==
    /\ now \in Times
    /\ alerts \in [Alerts -> AlertType]
    /\ stored \in 0 .. MaxAlerts
    /\ notices \in [Alerts -> [Users -> NoticeType]]
    /\ recent \in [Entities -> SUBSET HeardType]
    /\ correlatedUntil \in [Entities -> Never .. MaxTime + CorrelationWindow]
    /\ lapsed \subseteq Alerts
    /\ chain \in [Chains -> ChainType]
    /\ restarts \in 0 .. MaxRestarts

Init ==
    /\ now = 0
    /\ alerts = [a \in Alerts |-> NoAlert] /\ stored = 0
    /\ notices = [a \in Alerts |-> [u \in Users |-> NoNotice]]
    /\ recent = [e \in Entities |-> {}]
    /\ correlatedUntil = [e \in Entities |-> Never]
    /\ lapsed = {}
    /\ chain = [c \in Chains |-> Idle]
    /\ restarts = 0

Stored(kind) == {a \in Alerts : alerts[a].kind = kind}

-----------------------------------------------------------------------------
(* AlertStore.store_alert of a new alert, which the chain then emits.      *)
NewAlert(kind, e, ds, event) == [kind |-> kind, entity |-> e, detectors |-> ds, at |-> now,
                                 event |-> event, fate |-> "stored", when |-> Never]

StoreAndEmit(c, kind, e, ds, event) ==
    /\ stored < MaxAlerts
    /\ stored' = stored + 1
    /\ alerts' = [alerts EXCEPT ![stored'] = NewAlert(kind, e, ds, event)]
    /\ chain' = [chain EXCEPT ![c] = Emitting(stored', now)]

(* Mutant: only alerts that reached Wazuh count as raised.                 *)
IsDuplicateOfPublished(e, d) == \E a \in Stored("single") : /\ alerts[a].entity = e
                                                            /\ alerts[a].detectors = {d}
                                                            /\ alerts[a].fate = "published"
                                                            /\ alerts[a].event > now - DedupWindow

(* AlertStore.is_duplicate: a row of the pair inside the window.  A row has *)
(* the time of the events, not of the alert.                               *)
IsDuplicate(e, d) == \E a \in Stored("single") : /\ alerts[a].entity = e
                                                 /\ alerts[a].detectors = {d}
                                                 /\ alerts[a].event > now - DedupWindow

(* on_detection_made up to its first await.  A duplicate, a failed         *)
(* enrichment, the engine gate and a failed write leave no trace.          *)
OnDetectionMade(c, e, d, lag) ==
    /\ chain[c].pc = "idle"
    /\ ~IsDuplicate(e, d)
    /\ StoreAndEmit(c, "single", e, {d}, now - lag)
    /\ UNCHANGED <<now, notices, memVars, restarts>>

(* The end-to-end test emits an alert about no real entity.                *)
TestNotification(c) ==
    /\ chain[c].pc = "idle"
    /\ Cardinality(Stored("test")) < MaxTests
    /\ StoreAndEmit(c, "test", NoAlert.entity, {}, now)
    /\ UNCHANGED <<now, notices, memVars, restarts>>

-----------------------------------------------------------------------------
(* NotificationDispatcher.dispatch.                                        *)
Key(a) == <<alerts[a].entity, alerts[a].detectors>>

(* Mutant: only a message that was delivered counts as told.               *)
FindRecentSent(a, u) == \E b \in Alerts : /\ Key(b) = Key(a)
                                          /\ notices[b][u].sms = "sent"
                                          /\ notices[b][u].at >= now - NoticeWindow

(* find_recent_dup: the user was told of the same entity and detectors.    *)
FindRecentDup(a, u) == \E b \in Alerts : /\ Key(b) = Key(a)
                                         /\ notices[b][u].sms # "none"
                                         /\ notices[b][u].at >= now - NoticeWindow

(* The next user with no such notification, 0 when there is none left.     *)
NextRecipient(a, u) ==
    LET left == {v \in Users : v > u /\ ~FindRecentDup(a, v)}
    IN  IF left = {} THEN 0 ELSE CHOOSE v \in left : \A w \in left : v <= w

DailySmsCount(rows) == Cardinality({x \in Alerts \X Users : rows[x[1]][x[2]].sms = "sent"})

(* Mutant: the cap is off by one.                                          *)
DispatchFromOverCap(c, a, u, rows) ==
    LET v == NextRecipient(a, u)
        room == DailySmsCount(rows) <= SmsCap
        told == [rows EXCEPT ![a] = [rows[a] EXCEPT ![v] = [sms |-> "unsent", at |-> now]]]
        quiet == [chain EXCEPT ![c] = [chain[c] EXCEPT !.pc = "return", !.user = 0, !.sms = FALSE]]
        busy == [chain EXCEPT ![c] = [chain[c] EXCEPT !.pc = "send", !.user = v, !.sms = room]]
    IN  \/ notices' = rows /\ chain' = quiet
        \/ v # 0 /\ notices' = told /\ chain' \in {quiet, busy}

(* From user u on, up to the next send or the end of the dispatch: the row *)
(* is inserted and the cap looked at before the sends are awaited.  There   *)
(* is no next user, or an error of the tables ends the dispatch before or   *)
(* after the row: the subscriber swallows it.                              *)
DispatchFrom(c, a, u, rows) ==
    LET v == NextRecipient(a, u)
        room == DailySmsCount(rows) < SmsCap
        told == [rows EXCEPT ![a] = [rows[a] EXCEPT ![v] = [sms |-> "unsent", at |-> now]]]
        quiet == [chain EXCEPT ![c] = [chain[c] EXCEPT !.pc = "return", !.user = 0, !.sms = FALSE]]
        busy == [chain EXCEPT ![c] = [chain[c] EXCEPT !.pc = "send", !.user = v, !.sms = room]]
    IN  \/ notices' = rows /\ chain' = quiet
        \/ v # 0 /\ notices' = told /\ chain' \in {quiet, busy}

Dispatch(c) ==
    /\ chain[c].pc = "emit"
    /\ DispatchFrom(c, chain[c].alert, 0, notices)
    /\ UNCHANGED <<now, alerts, stored, memVars, restarts>>

(* _send_one has an answer for every channel: the SMS status is written,   *)
(* and the loop over the users goes on.                                    *)
SendDone(c, ok) ==
    /\ chain[c].pc = "send"
    /\ ok => chain[c].sms
    /\ LET a == chain[c].alert
           u == chain[c].user
           sent == [notices EXCEPT ![a] = [notices[a] EXCEPT ![u] = [notices[a][u] EXCEPT !.sms = "sent"]]]
       IN DispatchFrom(c, a, u, IF ok THEN sent ELSE notices)
    /\ UNCHANGED <<now, alerts, stored, memVars, restarts>>

-----------------------------------------------------------------------------
(* After the emit: WazuhPublisher.publish, which never gives way, and what *)
(* follows it.                                                             *)
Published(a) == [alerts EXCEPT ![a] = [alerts[a] EXCEPT !.fate = "published", !.when = now]]

(* Mutants: a detection at the edge of the window is dropped; nothing is.   *)
HeardForever(e, d) == recent[e] \cup {[at |-> now, detector |-> d]}
HeardInside(e, d) == {t \in recent[e] : t.at > now - CorrelationWindow} \cup {[at |-> now, detector |-> d]}

(* _maybe_correlate: the buffer without what fell out of the window, and   *)
(* this detection.                                                         *)
Heard(e, d) == {t \in recent[e] : t.at >= now - CorrelationWindow} \cup {[at |-> now, detector |-> d]}

(* The audit entry after the emit cannot be written, which is not guarded,  *)
(* or the publication fails: the chain ends, the alert is in the store, and *)
(* the correlation does not hear of it.                                    *)
PublishFails(c) ==
    /\ chain[c].pc = "return" /\ alerts[chain[c].alert].kind = "single"
    /\ chain' = [chain EXCEPT ![c] = Idle]
    /\ UNCHANGED <<now, dbVars, memVars, restarts>>

(* Mutant: one detector is enough.                                         *)
CorrelateAny(c, e, d, fate) ==
    LET heard == Heard(e, d)
        ds == {t.detector : t \in heard}
        chained == ~(correlatedUntil[e] >= now) /\ Cardinality(ds) >= 1
    IN  /\ recent' = [recent EXCEPT ![e] = heard]
        /\ \/ /\ lapsed' = IF chained THEN lapsed \cup {chain[c].alert} ELSE lapsed
              /\ alerts' = fate
              /\ chain' = [chain EXCEPT ![c] = Idle]
              /\ UNCHANGED stored
           \/ /\ chained /\ stored < MaxAlerts
              /\ stored' = stored + 1
              /\ alerts' = [fate EXCEPT ![stored'] = NewAlert("bundle", e, ds, now)]
              /\ chain' = [chain EXCEPT ![c] = Emitting(stored', now)]
              /\ UNCHANGED lapsed

(* Two distinct detectors, and the entity not announced yet: the bundle is  *)
(* stored and emitted, or its enrichment or its write fails and nothing     *)
(* tries again.                                                            *)
Correlate(c, e, d, fate) ==
    LET heard == Heard(e, d)
        ds == {t.detector : t \in heard}
        chained == ~(correlatedUntil[e] >= now) /\ Cardinality(ds) >= 2
    IN  /\ recent' = [recent EXCEPT ![e] = heard]
        /\ \/ /\ lapsed' = IF chained THEN lapsed \cup {chain[c].alert} ELSE lapsed
              /\ alerts' = fate
              /\ chain' = [chain EXCEPT ![c] = Idle]
              /\ UNCHANGED stored
           \/ /\ chained /\ stored < MaxAlerts
              /\ stored' = stored + 1
              /\ alerts' = [fate EXCEPT ![stored'] = NewAlert("bundle", e, ds, now)]
              /\ chain' = [chain EXCEPT ![c] = Emitting(stored', now)]
              /\ UNCHANGED lapsed

PublishSingle(c) ==
    LET a == chain[c].alert IN
    /\ chain[c].pc = "return" /\ alerts[a].kind = "single"
    /\ \E d \in alerts[a].detectors : Correlate(c, alerts[a].entity, d, Published(a))
    /\ UNCHANGED <<now, notices, correlatedUntil, restarts>>

(* Mutant: the entity is quiet for the deduplication window.               *)
PublishBundleQuiet(c, ok, audited) ==
    LET a == chain[c].alert IN
    /\ chain[c].pc = "return" /\ alerts[a].kind = "bundle"
    /\ alerts' = IF ok THEN Published(a) ELSE alerts
    /\ correlatedUntil' = IF audited THEN [correlatedUntil EXCEPT ![alerts[a].entity] = chain[c].began + DedupWindow + CorrelationWindow]
                                     ELSE correlatedUntil
    /\ chain' = [chain EXCEPT ![c] = Idle]
    /\ UNCHANGED <<now, stored, notices, recent, lapsed, restarts>>

(* The bundle's publication may fail too.  The entity is quiet afterwards,  *)
(* unless the audit entry between the two cannot be written.               *)
PublishBundle(c, ok, audited) ==
    LET a == chain[c].alert IN
    /\ chain[c].pc = "return" /\ alerts[a].kind = "bundle"
    /\ alerts' = IF ok THEN Published(a) ELSE alerts
    /\ correlatedUntil' = IF audited THEN [correlatedUntil EXCEPT ![alerts[a].entity] = chain[c].began + CorrelationWindow]
                                     ELSE correlatedUntil
    /\ chain' = [chain EXCEPT ![c] = Idle]
    /\ UNCHANGED <<now, stored, notices, recent, lapsed, restarts>>

TestDone(c) ==
    /\ chain[c].pc = "return" /\ alerts[chain[c].alert].kind = "test"
    /\ chain' = [chain EXCEPT ![c] = Idle]
    /\ UNCHANGED <<now, dbVars, memVars, restarts>>

-----------------------------------------------------------------------------
(* Awaits have timeouts: an alert is through within Patience units.        *)
Tick ==
    /\ now < MaxTime
    /\ \A c \in Chains : chain[c].pc # "idle" => now - chain[c].began < Patience
    /\ now' = now + 1
    /\ UNCHANGED <<dbVars, memVars, chain, restarts>>

(* The platform is killed and started again: the tables stay.              *)
Restart ==
    /\ restarts < MaxRestarts
    /\ restarts' = restarts + 1
    /\ recent' = [e \in Entities |-> {}]
    /\ correlatedUntil' = [e \in Entities |-> Never]
    /\ chain' = [c \in Chains |-> Idle]
    /\ UNCHANGED <<now, dbVars, lapsed>>

Continue(c) == \/ Dispatch(c) \/ PublishFails(c) \/ PublishSingle(c) \/ TestDone(c)
               \/ \E ok \in BOOLEAN : SendDone(c, ok)
               \/ \E ok, audited \in BOOLEAN : PublishBundle(c, ok, audited)

Next == \/ Tick \/ Restart
        \/ \E c \in Chains : \/ Continue(c)
                             \/ TestNotification(c)
                             \/ \E e \in Entities, d \in Detectors, lag \in 0 .. Lag : OnDetectionMade(c, e, d, lag)

Spec == Init /\ [][Next]_vars

-----------------------------------------------------------------------------
(* However the chains interleave, one detector raises one alert on one     *)
(* entity per deduplication window, across restarts too.  The window runs  *)
(* from the events, so it is shorter by as much as they are late.          *)
Apart(a, b, window) == alerts[a].at - alerts[b].at >= window \/ alerts[b].at - alerts[a].at >= window

OneAlertPerWindow ==
    \A a, b \in Stored("single") :
        a # b /\ alerts[a].entity = alerts[b].entity /\ alerts[a].detectors = alerts[b].detectors
            => Apart(a, b, DedupWindow - Lag)

(* "once we've fired a correlated alert for this source_entity within the  *)
(* window, don't re-fire": the flag is set after the awaits and lost with   *)
(* the process, so what keeps two chains from firing twice is the           *)
(* deduplication before them, as long as no third detector has a say.       *)
OneBundlePerWindow ==
    \A a, b \in Stored("bundle") :
        a # b /\ alerts[a].entity = alerts[b].entity => Apart(a, b, CorrelationWindow + 1)

(* Two detectors whose alerts on one entity were published within the      *)
(* window are bundled, whichever chains carried them: when the second was   *)
(* published a bundle of the entity, at most one window old, was there, or  *)
(* was tried for in that step and failed.                                  *)
KillChainBundled ==
    restarts = 0 =>
        \A a, b \in Stored("single") :
            /\ alerts[a].entity = alerts[b].entity /\ alerts[a].detectors # alerts[b].detectors
            /\ alerts[a].fate = "published" /\ alerts[b].fate = "published"
            /\ alerts[a].when <= alerts[b].when /\ alerts[b].when - alerts[a].when <= CorrelationWindow
            => \/ \E x \in Stored("bundle") : /\ alerts[x].entity = alerts[a].entity
                                              /\ alerts[x].at <= alerts[b].when
                                              /\ alerts[b].when - alerts[x].at <= CorrelationWindow
               \/ b \in lapsed
               \/ a \in lapsed /\ alerts[a].when = alerts[b].when

(* No kill chain out of thin air: a bundle names two detectors at least,   *)
(* and each it names raised an alert on its entity that was published at    *)
(* most a window before, however late the chains come to it.               *)
BundleEarned ==
    \A x \in Stored("bundle") :
        /\ \E i, j \in alerts[x].detectors : i # j
        /\ \A d \in alerts[x].detectors : \E a \in Stored("single") :
              /\ alerts[a].entity = alerts[x].entity /\ alerts[a].detectors = {d}
              /\ alerts[a].fate = "published"
              /\ alerts[a].when <= alerts[x].at /\ alerts[x].at - alerts[a].when <= CorrelationWindow

(* A user hears of the same entity and detectors once per window.          *)
OneNoticePerWindow ==
    \A u \in Users : \A a, b \in Alerts :
        /\ a # b /\ Key(a) = Key(b)
        /\ notices[a][u].sms # "none" /\ notices[b][u].sms # "none"
        => notices[a][u].at - notices[b][u].at > NoticeWindow \/ notices[b][u].at - notices[a][u].at > NoticeWindow

(* The daily cap is looked at before the send and counted after it: each   *)
(* other dispatch under way may go over it by one message, never more.     *)
SmsBounded == DailySmsCount(notices) <= SmsCap + Cardinality(Chains) - 1
=============================================================================
