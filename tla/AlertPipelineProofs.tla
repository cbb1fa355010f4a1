------------------------- MODULE AlertPipelineProofs -------------------------
(***************************************************************************)
(* Proofs about AlertPipeline, for any chains, entities, detectors, users, *)
(* windows and bounds: types; one alert of a detector on an entity per     *)
(* deduplication window, and one bundle of the entity per correlation      *)
(* window when there are two detectors; a bundle of any two detectors      *)
(* published within it; one notice to a user per notification window; the  *)
(* bound on the messages of a day; no bundle without its detections.       *)
(***************************************************************************)
EXTENDS AlertPipeline, TLAPS, FiniteSetTheorems, WellFoundedInduction

LEMMA LeastUser ==
  ASSUME NEW S \in SUBSET Users, S # {}
  PROVE  \E v \in S : \A w \in S : v <= w
<1>1. S \subseteq Nat
  BY WindowsAssumption DEF Users
<1>2. \E v \in S : \A w \in S : <<w, v>> \notin OpToRel(<, Nat)
  BY <1>1, NatLessThanWellFounded, WFMin
<1>3. PICK v \in S : \A w \in S : <<w, v>> \notin OpToRel(<, Nat)
  BY <1>2
<1>4. \A w \in S : ~(w < v)
  BY <1>1, <1>3 DEF OpToRel
<1> QED
  BY <1>1, <1>4

-----------------------------------------------------------------------------
(* Types, by the variables they are about.                                 *)

TypeOfAlerts == now \in Times /\ alerts \in [Alerts -> AlertType] /\ stored \in 0 .. MaxAlerts
TypeOfNotices == notices \in [Alerts -> [Users -> NoticeType]]
TypeOfMemory == /\ recent \in [Entities -> SUBSET HeardType]
                /\ correlatedUntil \in [Entities -> Never .. MaxTime + CorrelationWindow]
                /\ lapsed \subseteq Alerts

(* A chain that is not idle carries an alert.                              *)
LiveChain == {r \in ChainType : r.pc # "idle" => r.alert \in Alerts}
TypeOfChains == chain \in [Chains -> LiveChain] /\ restarts \in 0 .. MaxRestarts

Typed == TypeOfAlerts /\ TypeOfNotices /\ TypeOfMemory /\ TypeOfChains

LEMMA TypedTypeOK == Typed => TypeOK
BY DEF Typed, TypeOK, TypeOfAlerts, TypeOfNotices, TypeOfMemory, TypeOfChains, LiveChain

LEMMA AnyEntity == NoAlert.entity \in Entities
BY WindowsAssumption DEF NoAlert

LEMMA EmptyTypes == NoAlert \in AlertType /\ NoNotice \in NoticeType /\ Idle \in LiveChain
<1>1. NoAlert \in AlertType
  BY AnyEntity, WindowsAssumption DEF NoAlert, AlertType, Times, Never
<1>2. NoNotice \in NoticeType
  BY WindowsAssumption DEF NoNotice, NoticeType, Times
<1>3. Idle \in LiveChain
  BY WindowsAssumption DEF Idle, ChainType, LiveChain, Times
<1> QED
  BY <1>1, <1>2, <1>3

(* What an alert is about does not change.                                 *)
SameAlert(r, s) == /\ r.kind = s.kind /\ r.entity = s.entity /\ r.detectors = s.detectors
                   /\ r.at = s.at /\ r.event = s.event

LEMMA NewAlertMoves ==
  ASSUME TypeOfAlerts, NEW kind \in {"single", "bundle", "test"}, NEW e \in Entities,
         NEW ds \in SUBSET Detectors, NEW event \in -Lag .. MaxTime
  PROVE  LET new == NewAlert(kind, e, ds, event) IN
         new \in AlertType /\ new.kind = kind /\ new.entity = e /\ new.detectors = ds /\ new.at = now /\ new.event = event
BY DEF TypeOfAlerts, NewAlert, AlertType, Never

LEMMA UpdatedAlert ==
  ASSUME NEW r \in AlertType, NEW when \in Times,
         NEW new, new = [r EXCEPT !.fate = "published", !.when = when]
  PROVE  new \in AlertType /\ SameAlert(new, r)
<1>1. new = [kind |-> r.kind, entity |-> r.entity, detectors |-> r.detectors,
             at |-> r.at, event |-> r.event, fate |-> "published", when |-> when]
  BY DEF AlertType
<1> QED
  BY <1>1 DEF AlertType, SameAlert

LEMMA UpdatedChain ==
  ASSUME NEW r \in LiveChain, r.pc # "idle", NEW pc \in {"send", "return"}, NEW user \in 0 .. NumUsers, NEW sms \in BOOLEAN,
         NEW new, new = [r EXCEPT !.pc = pc, !.user = user, !.sms = sms]
  PROVE  new \in LiveChain
<1>1. new = [pc |-> pc, alert |-> r.alert, user |-> user, sms |-> sms, began |-> r.began]
  BY DEF ChainType, LiveChain
<1> QED
  BY <1>1 DEF ChainType, LiveChain

LEMMA PublishedMoves ==
  ASSUME TypeOfAlerts, NEW a
  PROVE  /\ Published(a) \in [Alerts -> AlertType]
         /\ \A b \in Alerts : SameAlert(Published(a)[b], alerts[b])
<1>1. CASE a \notin Alerts
  BY <1>1 DEF Published, TypeOfAlerts, SameAlert
<1>2. CASE a \in Alerts
  <2> DEFINE r == [alerts[a] EXCEPT !.fate = "published", !.when = now]
  <2>1. alerts[a] \in AlertType /\ now \in Times
    BY <1>2 DEF TypeOfAlerts
  <2>2. r = [alerts[a] EXCEPT !.fate = "published", !.when = now]
    OBVIOUS
  <2>3. Published(a) = [alerts EXCEPT ![a] = r]
    BY DEF Published
  <2> HIDE DEF r
  <2>4. r \in AlertType /\ SameAlert(r, alerts[a])
    BY <2>1, <2>2, UpdatedAlert
  <2> QED
    BY <2>4, <2>3 DEF TypeOfAlerts, SameAlert
<1> QED
  BY <1>1, <1>2

LEMMA StoreAndEmitMoves ==
  ASSUME TypeOfAlerts, TypeOfChains, NEW c \in Chains, NEW kind \in {"single", "bundle", "test"}, NEW e \in Entities,
         NEW ds \in SUBSET Detectors, NEW event \in -Lag .. MaxTime, StoreAndEmit(c, kind, e, ds, event)
  PROVE  /\ stored' = stored + 1 /\ stored' \in 0 .. MaxAlerts /\ stored' \in Alerts
         /\ alerts' = [alerts EXCEPT ![stored'] = NewAlert(kind, e, ds, event)]
         /\ alerts' \in [Alerts -> AlertType]
         /\ chain' \in [Chains -> LiveChain]
<1>1. stored' = stored + 1 /\ stored' \in 0 .. MaxAlerts /\ stored' \in Alerts
  BY WindowsAssumption DEF StoreAndEmit, TypeOfAlerts, Alerts
<1>2. NewAlert(kind, e, ds, event) \in AlertType
  BY NewAlertMoves
<1>3. Emitting(stored', now) \in LiveChain
  BY <1>1, WindowsAssumption DEF Emitting, ChainType, LiveChain, TypeOfAlerts
<1> QED
  BY <1>1, <1>2, <1>3 DEF StoreAndEmit, TypeOfAlerts, TypeOfChains

LEMMA DispatchMoves ==
  ASSUME TypeOfAlerts, TypeOfChains, NEW c \in Chains, NEW a, NEW u \in 0 .. NumUsers,
         NEW rows \in [Alerts -> [Users -> NoticeType]], chain[c].pc # "idle", DispatchFrom(c, a, u, rows)
  PROVE  notices' \in [Alerts -> [Users -> NoticeType]] /\ chain' \in [Chains -> LiveChain]
<1> DEFINE v == NextRecipient(a, u)
           room == DailySmsCount(rows) < SmsCap
           quiet == [chain[c] EXCEPT !.pc = "return", !.user = 0, !.sms = FALSE]
           told == [rows EXCEPT ![a] = [rows[a] EXCEPT ![v] = [sms |-> "unsent", at |-> now]]]
           busy == [chain[c] EXCEPT !.pc = "send", !.user = v, !.sms = room]
<1>1. v = 0 \/ v \in Users
  <2> DEFINE left == {w \in Users : w > u /\ ~FindRecentDup(a, w)}
  <2>1. left \in SUBSET Users
    OBVIOUS
  <2>2. left # {} => (CHOOSE w \in left : \A x \in left : w <= x) \in left
    BY <2>1, LeastUser
  <2> QED
    BY <2>1, <2>2 DEF NextRecipient
<1>2. chain[c] \in LiveChain /\ room \in BOOLEAN /\ now \in Times
  BY DEF TypeOfChains, TypeOfAlerts
<1>3. v \in 0 .. NumUsers
  BY <1>1, WindowsAssumption DEF Users
<1> HIDE DEF v, room
<1>4. /\ quiet = [chain[c] EXCEPT !.pc = "return", !.user = 0, !.sms = FALSE]
      /\ busy = [chain[c] EXCEPT !.pc = "send", !.user = v, !.sms = room]
  OBVIOUS
<1>5. [sms |-> "unsent", at |-> now] \in NoticeType
  BY <1>2 DEF NoticeType
<1>6. told \in [Alerts -> [Users -> NoticeType]]
  BY <1>5
<1>7. /\ notices' = rows \/ notices' = told
      /\ chain' = [chain EXCEPT ![c] = quiet] \/ chain' = [chain EXCEPT ![c] = busy]
  BY DEF DispatchFrom, v, room
<1> HIDE DEF quiet, busy, told
<1>8. quiet \in LiveChain /\ busy \in LiveChain
  <2>1. 0 \in 0 .. NumUsers
    BY WindowsAssumption
  <2> QED
    BY <1>2, <1>3, <1>4, <2>1, UpdatedChain
<1> QED
  BY <1>8, <1>6, <1>7 DEF TypeOfChains

LEMMA CorrelateMoves ==
  ASSUME TypeOfAlerts, TypeOfChains, TypeOfMemory, NEW c \in Chains, NEW e \in Entities, NEW d \in Detectors,
         NEW fate \in [Alerts -> AlertType], Correlate(c, e, d, fate)
  PROVE  /\ alerts' \in [Alerts -> AlertType] /\ stored' \in 0 .. MaxAlerts
         /\ recent' \in [Entities -> SUBSET HeardType] /\ chain' \in [Chains -> LiveChain]
         /\ \A a \in Alerts : alerts'[a] = fate[a] \/ alerts'[a].kind = "bundle"
         /\ lapsed' = lapsed \/ lapsed' = lapsed \cup {chain[c].alert}
<1> DEFINE heard == Heard(e, d)
           ds == {t.detector : t \in heard}
<1>1. now \in Times /\ stored \in 0 .. MaxAlerts
  BY DEF TypeOfAlerts
<1>2. [at |-> now, detector |-> d] \in HeardType
  BY <1>1 DEF HeardType
<1>3. heard \in SUBSET HeardType
  BY <1>2 DEF Heard, TypeOfMemory
<1>4. ds \in SUBSET Detectors
  BY <1>3 DEF HeardType
<1>5. /\ recent' = [recent EXCEPT ![e] = heard]
      /\ lapsed' = lapsed \/ lapsed' = lapsed \cup {chain[c].alert}
  BY DEF Correlate
<1>6. \/ alerts' = fate /\ chain' = [chain EXCEPT ![c] = Idle] /\ stored' = stored
      \/ /\ stored < MaxAlerts /\ stored' = stored + 1
         /\ alerts' = [fate EXCEPT ![stored'] = NewAlert("bundle", e, ds, now)]
         /\ chain' = [chain EXCEPT ![c] = Emitting(stored', now)]
  BY DEF Correlate
<1> HIDE DEF heard, ds
<1>7. CASE alerts' = fate /\ chain' = [chain EXCEPT ![c] = Idle] /\ stored' = stored
  BY <1>1, <1>3, <1>5, <1>7, EmptyTypes DEF TypeOfMemory, TypeOfChains
<1>8. CASE /\ stored < MaxAlerts /\ stored' = stored + 1
           /\ alerts' = [fate EXCEPT ![stored'] = NewAlert("bundle", e, ds, now)]
           /\ chain' = [chain EXCEPT ![c] = Emitting(stored', now)]
  <2>1. stored' \in 0 .. MaxAlerts /\ stored' \in Alerts
    BY <1>1, <1>8, WindowsAssumption DEF Alerts
  <2>2. now \in -Lag .. MaxTime
    BY <1>1, WindowsAssumption DEF Times
  <2>3. NewAlert("bundle", e, ds, now) \in AlertType /\ NewAlert("bundle", e, ds, now).kind = "bundle"
    BY <1>4, <2>2, NewAlertMoves
  <2>4. Emitting(stored', now) \in LiveChain
    BY <1>1, <2>1, WindowsAssumption DEF Emitting, ChainType, LiveChain
  <2> QED
    BY <1>3, <1>5, <1>8, <2>1, <2>3, <2>4 DEF TypeOfMemory, TypeOfChains
<1> QED
  BY <1>6, <1>7, <1>8

(* The row of a delivered message.                                         *)
Delivered(a, u) == [notices EXCEPT ![a] = [notices[a] EXCEPT ![u] = [notices[a][u] EXCEPT !.sms = "sent"]]]

(* A send leaves the rows as they are, or delivers what it had room for.    *)
LEMMA SendRows ==
  ASSUME TypeOfNotices, TypeOfChains, NEW c \in Chains, \E ok \in BOOLEAN : SendDone(c, ok)
  PROVE  \E rows \in [Alerts -> [Users -> NoticeType]] :
            /\ DispatchFrom(c, chain[c].alert, chain[c].user, rows)
            /\ rows = notices \/ (chain[c].sms /\ rows = Delivered(chain[c].alert, chain[c].user))
<1>1. PICK ok \in BOOLEAN : SendDone(c, ok)
  OBVIOUS
<1> DEFINE a == chain[c].alert
           u == chain[c].user
           row == [notices[a][u] EXCEPT !.sms = "sent"]
           sent == [notices EXCEPT ![a] = [notices[a] EXCEPT ![u] = row]]
<1>2. DispatchFrom(c, a, u, IF ok THEN sent ELSE notices) /\ (ok => chain[c].sms)
  BY <1>1 DEF SendDone
<1>3. sent \in [Alerts -> [Users -> NoticeType]]
  <2>1. CASE a \in Alerts /\ u \in Users
    <3>1. notices[a][u] \in NoticeType /\ notices[a] \in [Users -> NoticeType]
      BY <2>1 DEF TypeOfNotices
    <3>2. row \in NoticeType
      BY <3>1 DEF NoticeType
    <3> HIDE DEF a, u, row
    <3>3. [notices[a] EXCEPT ![u] = row] \in [Users -> NoticeType]
      BY <3>1, <3>2
    <3> QED
      BY <3>3 DEF TypeOfNotices
  <2>2. CASE a \in Alerts /\ u \notin Users
    <3>1. notices[a] \in [Users -> NoticeType]
      BY <2>2 DEF TypeOfNotices
    <3> HIDE DEF a, u, row
    <3>2. [notices[a] EXCEPT ![u] = row] \in [Users -> NoticeType]
      BY <2>2, <3>1
    <3> QED
      BY <3>2 DEF TypeOfNotices
  <2>3. CASE a \notin Alerts
    <3> HIDE DEF a, u, row
    <3> QED
      BY <2>3 DEF TypeOfNotices
  <2> QED
    BY <2>1, <2>2, <2>3
<1>4. sent = Delivered(a, u)
  BY DEF Delivered
<1> HIDE DEF sent
<1>5. CASE ok
  BY <1>2, <1>3, <1>4, <1>5
<1>6. CASE ~ok
  BY <1>2, <1>6 DEF TypeOfNotices
<1> QED
  BY <1>5, <1>6

-----------------------------------------------------------------------------
(* What one step does to the alerts.                                       *)

LEMMA AlertsMove ==
  ASSUME Typed, [Next]_vars
  PROVE  /\ TypeOfAlerts' /\ chain' \in [Chains -> LiveChain] /\ recent' \in [Entities -> SUBSET HeardType]
         /\ now' >= now
         /\ \/ \A a \in Alerts : SameAlert(alerts'[a], alerts[a]) \/ alerts'[a].kind # "single"
            \/ \E c \in Chains, e \in Entities, d \in Detectors, lag \in 0 .. Lag : OnDetectionMade(c, e, d, lag)
<1>1. TypeOfAlerts /\ TypeOfNotices /\ TypeOfMemory /\ TypeOfChains /\ now \in Nat
  BY DEF Typed, TypeOfAlerts, Times
<1>2. \A a \in Alerts : SameAlert(alerts[a], alerts[a])
  BY DEF SameAlert
<1>3. CASE UNCHANGED <<now, alerts, stored, recent>> /\ chain' \in [Chains -> LiveChain]
  BY <1>1, <1>2, <1>3 DEF TypeOfAlerts, TypeOfMemory
<1>4. CASE Tick
  BY <1>1, <1>2, <1>4, WindowsAssumption DEF Tick, dbVars, memVars, TypeOfAlerts, TypeOfMemory, TypeOfChains, Times
<1>5. CASE Restart
  BY <1>1, <1>2, <1>5, EmptyTypes DEF Restart, dbVars, TypeOfAlerts
<1>6. CASE \E c \in Chains, e \in Entities, d \in Detectors, lag \in 0 .. Lag : OnDetectionMade(c, e, d, lag)
  <2>1. PICK c \in Chains, e \in Entities, d \in Detectors, lag \in 0 .. Lag : OnDetectionMade(c, e, d, lag)
    BY <1>6
  <2>2. now - lag \in -Lag .. MaxTime /\ {d} \in SUBSET Detectors
    BY <1>1, WindowsAssumption DEF TypeOfAlerts, Times
  <2>3. StoreAndEmit(c, "single", e, {d}, now - lag) /\ now' = now /\ recent' = recent
    BY <2>1 DEF OnDetectionMade, memVars
  <2>4. alerts' \in [Alerts -> AlertType] /\ stored' \in 0 .. MaxAlerts /\ chain' \in [Chains -> LiveChain]
    BY <1>1, <2>2, <2>3, StoreAndEmitMoves
  <2> QED
    BY <1>1, <1>6, <2>3, <2>4 DEF TypeOfAlerts, TypeOfMemory
<1>7. CASE \E c \in Chains : TestNotification(c)
  <2>1. PICK c \in Chains : TestNotification(c)
    BY <1>7
  <2> DEFINE e == NoAlert.entity
  <2>2. StoreAndEmit(c, "test", e, {}, now) /\ now' = now /\ recent' = recent
    BY <2>1 DEF TestNotification, memVars
  <2>3. now \in -Lag .. MaxTime /\ {} \in SUBSET Detectors /\ e \in Entities
    BY <1>1, AnyEntity, WindowsAssumption DEF TypeOfAlerts, Times
  <2> HIDE DEF e
  <2>4. /\ alerts' \in [Alerts -> AlertType] /\ stored' \in 0 .. MaxAlerts /\ chain' \in [Chains -> LiveChain]
    BY <1>1, <2>2, <2>3, StoreAndEmitMoves
  <2>5. /\ alerts' = [alerts EXCEPT ![stored'] = NewAlert("test", e, {}, now)]
        /\ NewAlert("test", e, {}, now).kind = "test"
    BY <2>2 DEF StoreAndEmit, NewAlert
  <2> QED
    BY <1>1, <1>2, <2>2, <2>4, <2>5 DEF TypeOfAlerts, TypeOfMemory
<1>8. CASE \E c \in Chains : Dispatch(c)
  <2>1. PICK c \in Chains : Dispatch(c)
    BY <1>8
  <2>2. 0 \in 0 .. NumUsers
    BY WindowsAssumption
  <2>3. chain' \in [Chains -> LiveChain]
    BY <1>1, <2>1, <2>2, DispatchMoves DEF Dispatch, TypeOfNotices
  <2> QED
    BY <1>3, <2>1, <2>3 DEF Dispatch, memVars
<1>9. CASE \E c \in Chains : \E ok \in BOOLEAN : SendDone(c, ok)
  <2>1. PICK c \in Chains : \E ok \in BOOLEAN : SendDone(c, ok)
    BY <1>9
  <2>2. PICK rows \in [Alerts -> [Users -> NoticeType]] : DispatchFrom(c, chain[c].alert, chain[c].user, rows)
    BY <1>1, <2>1, SendRows
  <2>3. chain[c].user \in 0 .. NumUsers
    BY <1>1 DEF TypeOfChains, LiveChain, ChainType
  <2>4. chain' \in [Chains -> LiveChain]
    BY <1>1, <2>1, <2>2, <2>3, DispatchMoves DEF SendDone
  <2> QED
    BY <1>3, <2>1, <2>4 DEF SendDone, memVars
<1>10. CASE \E c \in Chains : PublishFails(c)
  BY <1>1, <1>3, <1>10, EmptyTypes DEF PublishFails, dbVars, memVars, TypeOfChains
<1>11. CASE \E c \in Chains : PublishSingle(c)
  <2>1. PICK c \in Chains : PublishSingle(c)
    BY <1>11
  <2> DEFINE x == chain[c].alert
  <2>2. alerts[x].kind = "single" /\ UNCHANGED now
    BY <2>1 DEF PublishSingle
  <2>3. PICK d \in alerts[x].detectors : Correlate(c, alerts[x].entity, d, Published(x))
    BY <2>1 DEF PublishSingle
  <2>4. x \in Alerts
    BY <1>1, <2>1 DEF PublishSingle, TypeOfChains, LiveChain
  <2>5. alerts[x].entity \in Entities /\ d \in Detectors
    BY <1>1, <2>3, <2>4 DEF TypeOfAlerts, AlertType
  <2>6. /\ Published(x) \in [Alerts -> AlertType]
        /\ \A a \in Alerts : SameAlert(Published(x)[a], alerts[a])
    BY <1>1, PublishedMoves
  <2> HIDE DEF x
  <2>7. /\ alerts' \in [Alerts -> AlertType] /\ stored' \in 0 .. MaxAlerts
        /\ recent' \in [Entities -> SUBSET HeardType] /\ chain' \in [Chains -> LiveChain]
        /\ \A a \in Alerts : alerts'[a] = Published(x)[a] \/ alerts'[a].kind = "bundle"
    BY <1>1, <2>3, <2>5, <2>6, CorrelateMoves
  <2> QED
    BY <1>1, <2>2, <2>6, <2>7 DEF TypeOfAlerts
<1>12. CASE \E c \in Chains : \E ok, audited \in BOOLEAN : PublishBundle(c, ok, audited)
  <2>1. PICK c \in Chains, ok \in BOOLEAN, audited \in BOOLEAN : PublishBundle(c, ok, audited)
    BY <1>12
  <2>2. /\ alerts' = Published(chain[c].alert) \/ alerts' = alerts
        /\ chain' = [chain EXCEPT ![c] = Idle]
        /\ UNCHANGED <<now, stored, recent>>
    BY <2>1 DEF PublishBundle
  <2> QED
    BY <1>1, <1>2, <2>2, PublishedMoves, EmptyTypes DEF TypeOfAlerts, TypeOfMemory, TypeOfChains
<1>13. CASE \E c \in Chains : TestDone(c)
  BY <1>1, <1>3, <1>13, EmptyTypes DEF TestDone, dbVars, memVars, TypeOfChains
<1>14. CASE UNCHANGED vars
  BY <1>1, <1>3, <1>14 DEF vars, dbVars, memVars, TypeOfChains
<1> QED
  BY <1>4, <1>5, <1>6, <1>7, <1>8, <1>9, <1>10, <1>11, <1>12, <1>13, <1>14 DEF Next, Continue

(* The notices, the correlation memory and the restarts.                   *)
LEMMA RestStep ==
  ASSUME Typed, [Next]_vars
  PROVE  /\ notices' \in [Alerts -> [Users -> NoticeType]]
         /\ correlatedUntil' \in [Entities -> Never .. MaxTime + CorrelationWindow]
         /\ lapsed' \subseteq Alerts
         /\ restarts' \in 0 .. MaxRestarts
<1>1. TypeOfAlerts /\ TypeOfNotices /\ TypeOfMemory /\ TypeOfChains
  BY DEF Typed
<1>2. /\ notices \in [Alerts -> [Users -> NoticeType]]
      /\ correlatedUntil \in [Entities -> Never .. MaxTime + CorrelationWindow]
      /\ lapsed \subseteq Alerts
      /\ restarts \in 0 .. MaxRestarts
  BY <1>1 DEF TypeOfNotices, TypeOfMemory, TypeOfChains
<1>3. CASE \E c \in Chains : Dispatch(c)
  <2>1. PICK c \in Chains : Dispatch(c)
    BY <1>3
  <2>2. 0 \in 0 .. NumUsers
    BY WindowsAssumption
  <2> QED
    BY <1>1, <1>2, <2>1, <2>2, DispatchMoves DEF Dispatch, memVars
<1>4. CASE \E c \in Chains : \E ok \in BOOLEAN : SendDone(c, ok)
  <2>1. PICK c \in Chains : \E ok \in BOOLEAN : SendDone(c, ok)
    BY <1>4
  <2>2. PICK rows \in [Alerts -> [Users -> NoticeType]] : DispatchFrom(c, chain[c].alert, chain[c].user, rows)
    BY <1>1, <2>1, SendRows
  <2>3. chain[c].user \in 0 .. NumUsers
    BY <1>1 DEF TypeOfChains, LiveChain, ChainType
  <2>4. notices' \in [Alerts -> [Users -> NoticeType]]
    BY <1>1, <2>1, <2>2, <2>3, DispatchMoves DEF SendDone
  <2> QED
    BY <1>2, <2>1, <2>4 DEF SendDone, memVars
<1>5. CASE \E c \in Chains : \E ok, audited \in BOOLEAN : PublishBundle(c, ok, audited)
  <2>1. PICK c \in Chains, ok \in BOOLEAN, audited \in BOOLEAN : PublishBundle(c, ok, audited)
    BY <1>5
  <2> DEFINE until == chain[c].began + CorrelationWindow
  <2>2. chain[c].began \in 0 .. MaxTime
    BY <1>1 DEF TypeOfChains, LiveChain, ChainType, Times
  <2>3. until \in Never .. MaxTime + CorrelationWindow
    BY <2>2, WindowsAssumption DEF Never
  <2>4. /\ \/ correlatedUntil' = [correlatedUntil EXCEPT ![alerts[chain[c].alert].entity] = until]
           \/ correlatedUntil' = correlatedUntil
        /\ UNCHANGED <<notices, lapsed, restarts>>
    BY <2>1 DEF PublishBundle
  <2> HIDE DEF until
  <2> QED
    BY <1>2, <2>3, <2>4
<1>6. CASE Restart
  <2>1. Never \in Never .. MaxTime + CorrelationWindow
    BY WindowsAssumption DEF Never
  <2>2. restarts' \in 0 .. MaxRestarts
    BY <1>2, <1>6, WindowsAssumption DEF Restart
  <2> QED
    BY <1>2, <1>6, <2>1, <2>2 DEF Restart, dbVars
<1>7. CASE UNCHANGED <<notices, correlatedUntil, lapsed, restarts>>
  BY <1>2, <1>7
<1>8. CASE \E c \in Chains : \/ PublishFails(c) \/ TestDone(c) \/ TestNotification(c)
                             \/ \E e \in Entities, d \in Detectors, lag \in 0 .. Lag : OnDetectionMade(c, e, d, lag)
  BY <1>7, <1>8 DEF PublishFails, TestDone, TestNotification, OnDetectionMade, dbVars, memVars
<1>10. CASE \E c \in Chains : PublishSingle(c)
  <2>1. PICK c \in Chains : PublishSingle(c)
    BY <1>10
  <2>2. chain[c].alert \in Alerts
    BY <1>1, <2>1 DEF PublishSingle, TypeOfChains, LiveChain
  <2>3. lapsed' = lapsed \/ lapsed' = lapsed \cup {chain[c].alert}
    BY <2>1 DEF PublishSingle, Correlate
  <2> QED
    BY <1>2, <2>1, <2>2, <2>3 DEF PublishSingle
<1>9. CASE Tick \/ UNCHANGED vars
  BY <1>7, <1>9 DEF Tick, vars, dbVars, memVars
<1> QED
  BY <1>3, <1>4, <1>5, <1>6, <1>8, <1>9, <1>10 DEF Next, Continue

LEMMA TypedInit == Init => Typed
<1> SUFFICES ASSUME Init PROVE Typed
  OBVIOUS
<1>1. TypeOfAlerts
  BY EmptyTypes, WindowsAssumption DEF Init, TypeOfAlerts, Times
<1>2. TypeOfNotices
  BY EmptyTypes DEF Init, TypeOfNotices
<1>3. TypeOfMemory
  BY WindowsAssumption DEF Init, TypeOfMemory, Never
<1>4. TypeOfChains
  BY EmptyTypes, WindowsAssumption DEF Init, TypeOfChains
<1> QED
  BY <1>1, <1>2, <1>3, <1>4 DEF Typed

LEMMA TypedStep == Typed /\ [Next]_vars => Typed'
BY AlertsMove, RestStep DEF Typed, TypeOfAlerts, TypeOfNotices, TypeOfMemory, TypeOfChains

(* Every variable has its type, whatever the chains, the sends, the         *)
(* publications and the restarts do.                                       *)
THEOREM TypeCorrect == Spec => []TypeOK
BY TypedInit, TypedStep, TypedTypeOK, PTL DEF Spec

-----------------------------------------------------------------------------
(* Deduplication.                                                          *)

(* The time of a stored alert's events, which is_duplicate reads, is not    *)
(* after the alert, and not longer before it than the events may be late.  *)
Dated == \A a \in Stored("single") : /\ alerts[a].at <= now
                                     /\ alerts[a].event <= alerts[a].at
                                     /\ alerts[a].at - alerts[a].event <= Lag

Deduplicated == Dated /\ OneAlertPerWindow

LEMMA Numbers ==
  ASSUME TypeOfAlerts
  PROVE  /\ \A a \in Alerts : alerts[a].at \in Nat /\ alerts[a].event \in Int
         /\ now \in Nat /\ DedupWindow \in Nat /\ Lag \in Nat
         /\ DedupWindow - Lag \in Nat
BY WindowsAssumption DEF TypeOfAlerts, AlertType, Times

LEMMA DeduplicatedInit == Init => Deduplicated
BY DEF Init, NoAlert, Deduplicated, Dated, OneAlertPerWindow, Stored

LEMMA DeduplicatedStep == Typed /\ Deduplicated /\ [Next]_vars => Deduplicated'
<1> SUFFICES ASSUME Typed, Deduplicated, [Next]_vars PROVE Deduplicated'
  OBVIOUS
<1>1. TypeOfAlerts /\ TypeOfChains /\ TypeOfAlerts' /\ now' >= now
  BY AlertsMove DEF Typed
<1>2. /\ \A a \in Alerts : alerts[a].at \in Nat /\ alerts[a].event \in Int
      /\ now \in Nat /\ DedupWindow \in Nat /\ Lag \in Nat
  BY <1>1, Numbers
<1>3. now' \in Nat
  BY <1>1 DEF TypeOfAlerts, Times
<1>4. CASE \A a \in Alerts : SameAlert(alerts'[a], alerts[a]) \/ alerts'[a].kind # "single"
  <2>1. \A a \in Stored("single")' : a \in Stored("single") /\ SameAlert(alerts'[a], alerts[a])
    BY <1>4 DEF Stored, SameAlert
  <2>2. Stored("single") \subseteq Alerts
    BY DEF Stored
  <2>3. Dated'
    BY <1>1, <1>2, <1>3, <2>1, <2>2 DEF Deduplicated, Dated, SameAlert
  <2>4. OneAlertPerWindow'
    BY <2>1 DEF Deduplicated, OneAlertPerWindow, Apart, SameAlert
  <2> QED
    BY <2>3, <2>4 DEF Deduplicated
<1>5. CASE \E c \in Chains, e \in Entities, d \in Detectors, lag \in 0 .. Lag : OnDetectionMade(c, e, d, lag)
  <2>1. PICK c \in Chains, e \in Entities, d \in Detectors, lag \in 0 .. Lag : OnDetectionMade(c, e, d, lag)
    BY <1>5
  <2> DEFINE new == NewAlert("single", e, {d}, now - lag)
             x == stored + 1
  <2>2. now - lag \in -Lag .. MaxTime /\ {d} \in SUBSET Detectors
    BY <1>1, WindowsAssumption DEF TypeOfAlerts, Times
  <2>3. StoreAndEmit(c, "single", e, {d}, now - lag) /\ ~IsDuplicate(e, d) /\ now' = now
    BY <2>1 DEF OnDetectionMade
  <2>4. x \in Alerts /\ alerts' = [alerts EXCEPT ![x] = new]
    BY <1>1, <2>3, WindowsAssumption DEF StoreAndEmit, TypeOfAlerts, Alerts
  <2>5. new.kind = "single" /\ new.entity = e /\ new.detectors = {d} /\ new.at = now /\ new.event = now - lag
    BY DEF NewAlert
  <2> HIDE DEF new, x
  <2>6. alerts'[x] = new /\ \A a \in Alerts : a # x => alerts'[a] = alerts[a]
    BY <1>1, <2>4 DEF TypeOfAlerts
  <2>7. \A a \in Stored("single")' : a \in Alerts /\ (a = x \/ a \in Stored("single"))
    BY <2>6 DEF Stored
  <2>8. Dated'
    BY <1>2, <2>3, <2>5, <2>6, <2>7 DEF Deduplicated, Dated
  <2>9. ASSUME NEW a \in Stored("single"), a \in Alerts, alerts[a].entity = e, alerts[a].detectors = {d}
        PROVE  now - alerts[a].at >= DedupWindow - Lag
    <3>1. ~(alerts[a].event > now - DedupWindow)
      BY <2>3, <2>9 DEF IsDuplicate
    <3>2. alerts[a].at - alerts[a].event <= Lag
      BY DEF Deduplicated, Dated
    <3> QED
      BY <1>2, <2>9, <3>1, <3>2
  <2>10. OneAlertPerWindow'
    BY <2>5, <2>6, <2>7, <2>9 DEF Deduplicated, OneAlertPerWindow, Apart
  <2> QED
    BY <2>8, <2>10 DEF Deduplicated
<1> QED
  BY <1>4, <1>5, AlertsMove

(* However many chains raise alerts at once, however long their awaits      *)
(* take and wherever a restart falls, one detector raises one alert on one  *)
(* entity per deduplication window: is_duplicate and store_alert are one    *)
(* step of the event loop, and the rows outlive the process.                *)
THEOREM OneAlert == Spec => []OneAlertPerWindow
<1>1. Deduplicated => OneAlertPerWindow
  BY DEF Deduplicated
<1> QED
  BY <1>1, TypedInit, TypedStep, DeduplicatedInit, DeduplicatedStep, PTL DEF Spec
-----------------------------------------------------------------------------
(* What one step does to the chains, the alerts and the memory of the       *)
(* correlation, told from the actions once.                                *)

(* Time passes, or nothing happens.                                        *)
Waits == /\ UNCHANGED <<dbVars, memVars, chain, restarts>>
         /\ now' = now \/ (now' = now + 1 /\ \A c \in Chains : chain[c].pc # "idle" => now - chain[c].began < Patience)

(* An idle chain stores a new alert and emits it.                          *)
Raises(c, new) ==
    /\ chain[c].pc = "idle"
    /\ new \in AlertType /\ new.kind \in {"single", "test"} /\ new.at = now /\ new.fate = "stored"
    /\ new.kind = "single" => \E d \in Detectors : new.detectors = {d}
    /\ stored' = stored + 1 /\ stored' \in Alerts
    /\ alerts' = [alerts EXCEPT ![stored'] = new]
    /\ chain' = [chain EXCEPT ![c] = Emitting(stored', now)]
    /\ UNCHANGED <<now, notices, memVars, restarts>>

(* The notifications of an alert go on or end.                             *)
Notifies(c, next) ==
    /\ Dispatch(c) \/ \E ok \in BOOLEAN : SendDone(c, ok)
    /\ chain[c].pc \in {"emit", "send"}
    /\ next \in LiveChain /\ next.pc \in {"send", "return"}
    /\ next.alert = chain[c].alert /\ next.began = chain[c].began
    /\ chain' = [chain EXCEPT ![c] = next]
    /\ UNCHANGED <<now, alerts, stored, memVars, restarts>>

(* A chain is done with its alert, which is published or not.              *)
Ends(c) ==
    /\ chain[c].pc = "return"
    /\ chain' = [chain EXCEPT ![c] = Idle]
    /\ UNCHANGED <<now, stored, notices, restarts>>

EndsUnheard(c) == Ends(c) /\ UNCHANGED <<alerts, memVars>>

EndsBundle(c) ==
    LET a == chain[c].alert IN
    /\ Ends(c) /\ alerts[a].kind = "bundle" /\ UNCHANGED <<recent, lapsed>>
    /\ alerts' = Published(a) \/ alerts' = alerts
    /\ \/ correlatedUntil' = [correlatedUntil EXCEPT ![alerts[a].entity] = chain[c].began + CorrelationWindow]
       \/ correlatedUntil' = correlatedUntil

(* The alert of a chain is published and remembered.                       *)
Remembers(c, d) ==
    LET e == alerts[chain[c].alert].entity IN
    /\ chain[c].pc = "return" /\ alerts[chain[c].alert].kind = "single" /\ d \in alerts[chain[c].alert].detectors
    /\ recent' = [recent EXCEPT ![e] = Heard(e, d)]
    /\ UNCHANGED <<now, notices, correlatedUntil, restarts>>

Names(heard) == {t.detector : t \in heard}

(* No bundle: one was announced already, there is only one detector, or     *)
(* the bundle fails.                                                       *)
EndsSingle(c, d) ==
    LET e == alerts[chain[c].alert].entity IN
    /\ Remembers(c, d) /\ Ends(c)
    /\ alerts' = Published(chain[c].alert)
    /\ \/ lapsed' = lapsed /\ (correlatedUntil[e] >= now \/ Cardinality(Names(Heard(e, d))) < 2)
       \/ lapsed' = lapsed \cup {chain[c].alert}

Bundles(c, d, new) ==
    LET e == alerts[chain[c].alert].entity IN
    /\ Remembers(c, d) /\ lapsed' = lapsed
    /\ new \in AlertType /\ new.kind = "bundle" /\ new.at = now /\ new.fate = "stored" /\ new.entity = e
    /\ new.detectors = Names(Heard(e, d))
    /\ stored' = stored + 1 /\ stored' \in Alerts
    /\ alerts' = [Published(chain[c].alert) EXCEPT ![stored'] = new]
    /\ chain' = [chain EXCEPT ![c] = Emitting(stored', now)]
    /\ ~(correlatedUntil[e] >= now) /\ ~(Cardinality(Names(Heard(e, d))) < 2)

LEMMA NewFields ==
  ASSUME NEW kind, NEW e, NEW ds, NEW event
  PROVE  LET new == NewAlert(kind, e, ds, event) IN
         new.kind = kind /\ new.entity = e /\ new.detectors = ds /\ new.at = now /\ new.fate = "stored"
BY DEF NewAlert

LEMMA PublishedFields ==
  ASSUME TypeOfAlerts, NEW a \in Alerts
  PROVE  /\ \A b \in Alerts : b # a => Published(a)[b] = alerts[b]
         /\ SameAlert(Published(a)[a], alerts[a])
         /\ Published(a)[a].fate = "published" /\ Published(a)[a].when = now
<1> DEFINE r == [alerts[a] EXCEPT !.fate = "published", !.when = now]
<1>1. r.fate = "published" /\ r.when = now /\ SameAlert(r, alerts[a])
  BY DEF TypeOfAlerts, AlertType, SameAlert
<1>2. Published(a) = [alerts EXCEPT ![a] = r]
  BY DEF Published
<1> HIDE DEF r
<1> QED
  BY <1>1, <1>2 DEF TypeOfAlerts

(* The next recipient has no such notification yet.                        *)
LEMMA NextRecipientFacts ==
  ASSUME NEW a, NEW u
  PROVE  LET v == NextRecipient(a, u) IN v # 0 => v \in Users /\ ~FindRecentDup(a, v)
<1> DEFINE left == {w \in Users : w > u /\ ~FindRecentDup(a, w)}
<1>1. left \in SUBSET Users
  OBVIOUS
<1>2. left # {} => (CHOOSE w \in left : \A x \in left : w <= x) \in left
  BY <1>1, LeastUser
<1>3. NextRecipient(a, u) = IF left = {} THEN 0 ELSE CHOOSE v \in left : \A w \in left : v <= w
  BY DEF NextRecipient
<1>4. \A v \in left : v \in Users /\ ~FindRecentDup(a, v)
  OBVIOUS
<1> HIDE DEF left
<1> QED
  BY <1>2, <1>3, <1>4

(* The dispatch ends, or tells one more user, with room under the cap or   *)
(* without.                                                                *)
Told(rows, a, v) == [rows EXCEPT ![a] = [rows[a] EXCEPT ![v] = [sms |-> "unsent", at |-> now]]]

LEMMA DispatchForms ==
  ASSUME TypeOfChains, NEW c \in Chains, chain[c].pc # "idle", NEW a, NEW u, NEW rows, DispatchFrom(c, a, u, rows)
  PROVE  \E next \in LiveChain :
            /\ chain' = [chain EXCEPT ![c] = next]
            /\ next.alert = chain[c].alert /\ next.began = chain[c].began
            /\ \/ next.pc = "return" /\ notices' = rows
               \/ \E v \in Users : /\ ~FindRecentDup(a, v) /\ notices' = Told(rows, a, v)
                                   /\ next.pc \in {"send", "return"} /\ (next.pc = "send" => next.user = v)
                                   /\ next.pc = "send" /\ next.sms => DailySmsCount(rows) < SmsCap
<1> DEFINE v == NextRecipient(a, u)
           room == DailySmsCount(rows) < SmsCap
           quiet == [chain[c] EXCEPT !.pc = "return", !.user = 0, !.sms = FALSE]
           busy == [chain[c] EXCEPT !.pc = "send", !.user = v, !.sms = room]
<1>1. chain[c] \in LiveChain /\ room \in BOOLEAN
  BY DEF TypeOfChains
<1>2. v # 0 => v \in Users /\ ~FindRecentDup(a, v)
  BY NextRecipientFacts
<1>3. Users \subseteq 0 .. NumUsers /\ 0 \in 0 .. NumUsers
  BY WindowsAssumption DEF Users
<1>4. room <=> DailySmsCount(rows) < SmsCap
  OBVIOUS
<1>5. \/ notices' = rows /\ chain' = [chain EXCEPT ![c] = quiet]
      \/ v # 0 /\ notices' = Told(rows, a, v) /\ chain' = [chain EXCEPT ![c] = quiet]
      \/ v # 0 /\ notices' = Told(rows, a, v) /\ chain' = [chain EXCEPT ![c] = busy]
  BY DEF DispatchFrom, Told
<1> HIDE DEF v, room
<1>6. /\ quiet = [chain[c] EXCEPT !.pc = "return", !.user = 0, !.sms = FALSE]
      /\ busy = [chain[c] EXCEPT !.pc = "send", !.user = v, !.sms = room]
  OBVIOUS
<1>7. /\ quiet.pc = "return" /\ quiet.alert = chain[c].alert /\ quiet.began = chain[c].began
      /\ busy.pc = "send" /\ busy.user = v /\ busy.alert = chain[c].alert /\ busy.began = chain[c].began
  BY <1>1 DEF LiveChain, ChainType
<1>8. busy.sms = room
  BY <1>1 DEF LiveChain, ChainType
<1> HIDE DEF quiet, busy
<1>9. v \in 0 .. NumUsers => quiet \in LiveChain /\ busy \in LiveChain
  BY <1>1, <1>3, <1>6, UpdatedChain
<1>10. v \in 0 .. NumUsers
  BY <1>2, <1>3
<1>11. CASE notices' = rows /\ chain' = [chain EXCEPT ![c] = quiet]
  BY <1>7, <1>9, <1>10, <1>11
<1>13. CASE v # 0 /\ notices' = Told(rows, a, v) /\ chain' = [chain EXCEPT ![c] = quiet]
  BY <1>2, <1>7, <1>9, <1>10, <1>13
<1>12. CASE v # 0 /\ notices' = Told(rows, a, v) /\ chain' = [chain EXCEPT ![c] = busy]
  <2>1. busy.sms => DailySmsCount(rows) < SmsCap
    BY <1>4, <1>8, Zenon
  <2> QED
    BY <1>2, <1>7, <1>9, <1>10, <1>12, <2>1
<1> QED
  BY <1>5, <1>11, <1>12, <1>13

LEMMA StepForms ==
  ASSUME Typed, [Next]_vars
  PROVE  \/ Waits \/ Restart
         \/ \E c \in Chains : \/ \E new \in AlertType : Raises(c, new)
                              \/ \E next \in LiveChain : Notifies(c, next)
                              \/ EndsUnheard(c) \/ EndsBundle(c)
                              \/ \E d \in Detectors : EndsSingle(c, d)
                              \/ \E d \in Detectors, new \in AlertType : Bundles(c, d, new)
<1>1. TypeOfAlerts /\ TypeOfNotices /\ TypeOfMemory /\ TypeOfChains
  BY DEF Typed
<1>2. CASE Tick \/ UNCHANGED vars
  BY <1>2 DEF Tick, Waits, vars
<1>3. CASE \E c \in Chains, e \in Entities, d \in Detectors, lag \in 0 .. Lag : OnDetectionMade(c, e, d, lag)
  <2>1. PICK c \in Chains, e \in Entities, d \in Detectors, lag \in 0 .. Lag : OnDetectionMade(c, e, d, lag)
    BY <1>3
  <2> DEFINE new == NewAlert("single", e, {d}, now - lag)
  <2>2. now - lag \in -Lag .. MaxTime /\ {d} \in SUBSET Detectors
    BY <1>1, WindowsAssumption DEF TypeOfAlerts, Times
  <2>3. StoreAndEmit(c, "single", e, {d}, now - lag)
    BY <2>1 DEF OnDetectionMade
  <2>4. new \in AlertType /\ new.kind = "single" /\ new.detectors = {d} /\ new.at = now /\ new.fate = "stored"
    BY <1>1, <2>2, NewAlertMoves, NewFields
  <2>5. stored' = stored + 1 /\ stored' \in Alerts
    BY <1>1, <2>2, <2>3, StoreAndEmitMoves
  <2>6. /\ alerts' = [alerts EXCEPT ![stored'] = new] /\ chain' = [chain EXCEPT ![c] = Emitting(stored', now)]
        /\ chain[c].pc = "idle" /\ UNCHANGED <<now, notices, memVars, restarts>>
    BY <2>1, <2>3 DEF OnDetectionMade, StoreAndEmit
  <2> HIDE DEF new
  <2>7. Raises(c, new)
    BY <2>4, <2>5, <2>6 DEF Raises
  <2> QED
    BY <2>4, <2>7
<1>4. CASE \E c \in Chains : TestNotification(c)
  <2>1. PICK c \in Chains : TestNotification(c)
    BY <1>4
  <2> DEFINE e == NoAlert.entity
             new == NewAlert("test", e, {}, now)
  <2>2. now \in -Lag .. MaxTime /\ {} \in SUBSET Detectors /\ e \in Entities
    BY <1>1, AnyEntity, WindowsAssumption DEF TypeOfAlerts, Times
  <2>3. StoreAndEmit(c, "test", e, {}, now)
    BY <2>1 DEF TestNotification
  <2>4. new \in AlertType /\ new.kind = "test" /\ new.at = now /\ new.fate = "stored"
    BY <1>1, <2>2, NewAlertMoves, NewFields
  <2>5. stored' = stored + 1 /\ stored' \in Alerts
    BY <1>1, <2>2, <2>3, StoreAndEmitMoves
  <2>6. /\ alerts' = [alerts EXCEPT ![stored'] = new] /\ chain' = [chain EXCEPT ![c] = Emitting(stored', now)]
        /\ chain[c].pc = "idle" /\ UNCHANGED <<now, notices, memVars, restarts>>
    BY <2>1, <2>3 DEF TestNotification, StoreAndEmit
  <2> HIDE DEF new
  <2>7. Raises(c, new)
    BY <2>4, <2>5, <2>6 DEF Raises
  <2> QED
    BY <2>4, <2>7
<1>5. CASE \E c \in Chains : Dispatch(c) \/ \E ok \in BOOLEAN : SendDone(c, ok)
  <2>1. PICK c \in Chains : Dispatch(c) \/ \E ok \in BOOLEAN : SendDone(c, ok)
    BY <1>5
  <2>2. chain[c].pc \in {"emit", "send"} /\ UNCHANGED <<now, alerts, stored, memVars, restarts>>
    BY <2>1 DEF Dispatch, SendDone
  <2>3. \E u, rows : DispatchFrom(c, chain[c].alert, u, rows)
    BY <2>1 DEF Dispatch, SendDone
  <2>4. PICK next \in LiveChain : /\ chain' = [chain EXCEPT ![c] = next] /\ next.pc \in {"send", "return"}
                                  /\ next.alert = chain[c].alert /\ next.began = chain[c].began
    BY <1>1, <2>2, <2>3, DispatchForms
  <2> QED
    BY <2>1, <2>2, <2>4 DEF Notifies
<1>6. CASE \E c \in Chains : PublishFails(c)
  BY <1>6 DEF PublishFails, Ends, EndsUnheard, dbVars
<1>7. CASE \E c \in Chains : PublishSingle(c)
  <2>1. PICK c \in Chains : PublishSingle(c)
    BY <1>7
  <2> DEFINE a == chain[c].alert
             e == alerts[a].entity
  <2>2. PICK d \in alerts[a].detectors : Correlate(c, e, d, Published(a))
    BY <2>1 DEF PublishSingle
  <2>3. a \in Alerts /\ chain[c].pc = "return" /\ alerts[a].kind = "single"
    BY <1>1, <2>1 DEF PublishSingle, TypeOfChains, LiveChain
  <2>4. e \in Entities /\ d \in Detectors
    BY <1>1, <2>2, <2>3 DEF TypeOfAlerts, AlertType
  <2>5. Remembers(c, d)
    BY <2>1, <2>2, <2>3 DEF PublishSingle, Remembers, Correlate
  <2> DEFINE ds == Names(Heard(e, d))
             new == NewAlert("bundle", e, ds, now)
  <2>6. ds \in SUBSET Detectors
    BY <1>1, <2>4 DEF Names, Heard, TypeOfMemory, HeardType
  <2>7. now \in -Lag .. MaxTime
    BY <1>1, WindowsAssumption DEF TypeOfAlerts, Times
  <2>13. Cardinality(ds) \in Nat
    BY <2>6, WindowsAssumption, FS_Subset, FS_CardinalityType
  <2>8. \/ /\ \/ lapsed' = lapsed /\ (correlatedUntil[e] >= now \/ Cardinality(ds) < 2)
              \/ lapsed' = lapsed \cup {a}
           /\ alerts' = Published(a) /\ chain' = [chain EXCEPT ![c] = Idle] /\ UNCHANGED stored
        \/ /\ ~(correlatedUntil[e] >= now) /\ ~(Cardinality(ds) < 2) /\ lapsed' = lapsed
           /\ stored < MaxAlerts /\ stored' = stored + 1
           /\ alerts' = [Published(a) EXCEPT ![stored'] = new]
           /\ chain' = [chain EXCEPT ![c] = Emitting(stored', now)]
    BY <2>2, <2>13 DEF Correlate, Names
  <2>9. /\ new \in AlertType /\ new.kind = "bundle" /\ new.entity = e /\ new.at = now /\ new.fate = "stored"
        /\ new.detectors = ds
    BY <1>1, <2>4, <2>6, <2>7, NewAlertMoves, NewFields
  <2>10. UNCHANGED <<now, notices, restarts>>
    BY <2>1 DEF PublishSingle
  <2>11. stored < MaxAlerts => stored + 1 \in Alerts
    BY <1>1, WindowsAssumption DEF TypeOfAlerts, Alerts
  <2> HIDE DEF new
  <2>12. EndsSingle(c, d) \/ Bundles(c, d, new)
    BY <2>3, <2>5, <2>8, <2>9, <2>10, <2>11 DEF EndsSingle, Ends, Bundles
  <2> QED
    BY <2>4, <2>9, <2>12
<1>8. CASE \E c \in Chains : \E ok, audited \in BOOLEAN : PublishBundle(c, ok, audited)
  BY <1>8 DEF PublishBundle, EndsBundle, Ends
<1>9. CASE \E c \in Chains : TestDone(c)
  BY <1>9 DEF TestDone, EndsUnheard, Ends, dbVars
<1> QED
  BY <1>2, <1>3, <1>4, <1>5, <1>6, <1>7, <1>8, <1>9 DEF Next, Continue

-----------------------------------------------------------------------------
(* The books: which alert a chain carries, and what a row says of its own   *)
(* alert.                                                                  *)

(* A chain carries one alert, not published yet, since it was stored.       *)
Carrying(c) ==
    /\ chain[c].pc = "idle" => chain[c].alert = 0
    /\ chain[c].pc # "idle" =>
         /\ chain[c].alert <= stored
         /\ alerts[chain[c].alert].fate = "stored"
         /\ chain[c].began = alerts[chain[c].alert].at
         /\ chain[c].began <= now /\ now - chain[c].began <= Patience

Shared(c, k) == chain[c].pc # "idle" /\ chain[k].pc # "idle" /\ chain[c].alert = chain[k].alert

(* Alerts are numbered as they are stored; a single alert names one         *)
(* detector, and is published within the patience of its awaits.           *)
Filed(a) ==
    /\ a > stored <=> alerts[a].kind = "none"
    /\ alerts[a].at <= now
    /\ alerts[a].kind = "single" => \E d \in Detectors : alerts[a].detectors = {d}
    /\ alerts[a].fate = "published" =>
         /\ alerts[a].at <= alerts[a].when /\ alerts[a].when <= now
         /\ alerts[a].when - alerts[a].at <= Patience

Bookkeeping == /\ \A c \in Chains : Carrying(c)
               /\ \A c, k \in Chains : Shared(c, k) => c = k
               /\ \A a \in Alerts : Filed(a)

LEMMA ChainNumbers ==
  ASSUME Typed
  PROVE  /\ now \in Nat /\ stored \in Nat /\ Patience \in Nat /\ CorrelationWindow \in Nat
         /\ Alerts \subseteq Nat /\ 0 \notin Alerts
         /\ \A a \in Alerts : alerts[a].at \in Nat /\ alerts[a].when \in Int
         /\ \A c \in Chains : /\ chain[c].began \in Nat /\ chain[c].alert \in Nat
                              /\ chain[c].pc # "idle" => chain[c].alert \in Alerts
<1>1. /\ alerts \in [Alerts -> AlertType] /\ now \in Times /\ stored \in 0 .. MaxAlerts
      /\ chain \in [Chains -> LiveChain]
  BY DEF Typed, TypeOfAlerts, TypeOfChains
<1>2. \A a \in Alerts : alerts[a].at \in Times /\ alerts[a].when \in Times \cup {Never}
  BY <1>1 DEF AlertType
<1>3. \A c \in Chains : /\ chain[c].began \in Times /\ chain[c].alert \in 0 .. MaxAlerts
                        /\ chain[c].pc # "idle" => chain[c].alert \in Alerts
  BY <1>1 DEF LiveChain, ChainType
<1> QED
  BY <1>1, <1>2, <1>3, WindowsAssumption DEF Times, Never, Alerts

LEMMA EmittingFields ==
  ASSUME NEW a, NEW t
  PROVE  Emitting(a, t).pc = "emit" /\ Emitting(a, t).alert = a /\ Emitting(a, t).began = t
BY DEF Emitting

LEMMA BookkeepingInit == Init => Bookkeeping
<1> SUFFICES ASSUME Init PROVE Bookkeeping
  OBVIOUS
<1>1. \A c \in Chains : chain[c].pc = "idle" /\ chain[c].alert = 0
  BY DEF Init, Idle
<1>2. \A a \in Alerts : alerts[a].kind = "none" /\ alerts[a].at = 0 /\ alerts[a].fate = "stored" /\ a > stored /\ now = 0
  BY WindowsAssumption DEF Init, NoAlert, Alerts
<1> QED
  BY <1>1, <1>2 DEF Bookkeeping, Carrying, Shared, Filed

(* A chain that ends gives its alert back, and one that goes on with a new  *)
(* alert is the only one to carry it.                                      *)
LEMMA CarryingStep == Typed /\ Bookkeeping /\ [Next]_vars => \A k \in Chains : Carrying(k)'
<1> SUFFICES ASSUME Typed, Bookkeeping, [Next]_vars, NEW k \in Chains PROVE Carrying(k)'
  OBVIOUS
<1> USE ChainNumbers
<1>1. /\ TypeOfAlerts /\ chain \in [Chains -> LiveChain] /\ alerts \in [Alerts -> AlertType]
      /\ Carrying(k)
  BY DEF Typed, TypeOfAlerts, TypeOfChains, Bookkeeping
<1>2. CASE Waits
  BY <1>1, <1>2 DEF Waits, dbVars, Carrying
<1>3. CASE Restart
  BY <1>3 DEF Restart, Carrying, Idle
<1>4. ASSUME NEW c \in Chains, NEW new \in AlertType, Raises(c, new) PROVE Carrying(k)'
  <2>1. alerts'[stored'] = new /\ stored' = stored + 1 /\ \A b \in Alerts : b <= stored => alerts'[b] = alerts[b]
    BY <1>1, <1>4 DEF Raises
  <2>2. CASE k = c
    BY <1>1, <1>4, <2>1, <2>2, EmittingFields DEF Raises, Carrying
  <2>3. CASE k # c
    BY <1>1, <1>4, <2>1, <2>3 DEF Raises, Carrying
  <2> QED
    BY <2>2, <2>3
<1>5. ASSUME NEW c \in Chains, NEW next \in LiveChain, Notifies(c, next) PROVE Carrying(k)'
  BY <1>1, <1>5 DEF Notifies, Carrying
<1>6. ASSUME NEW c \in Chains, Ends(c) \/ chain'[c].pc # "idle", chain[c].pc # "idle",
             NEW books \in [Alerts -> AlertType], \A b \in Alerts : b # chain[c].alert => books[b] = alerts[b],
             \A b \in Alerts : b <= stored => alerts'[b] = books[b],
             stored <= stored', stored' \in Nat, now' = now, \A j \in Chains : j # c => chain'[j] = chain[j]
      PROVE  k # c => Carrying(k)'
  <2> SUFFICES ASSUME k # c PROVE Carrying(k)'
    OBVIOUS
  <2>1. chain[k].pc # "idle" => chain[k].alert # chain[c].alert
    BY <1>6 DEF Bookkeeping, Shared
  <2> QED
    BY <1>1, <1>6, <2>1 DEF Carrying
<1>7. ASSUME NEW c \in Chains, Ends(c), alerts' = alerts \/ alerts' = Published(chain[c].alert),
             alerts' \in [Alerts -> AlertType]
      PROVE  Carrying(k)'
  <2>1. \A b \in Alerts : b # chain[c].alert => alerts'[b] = alerts[b]
    BY <1>1, <1>7, PublishedFields DEF Ends
  <2>2. chain[c].pc # "idle" /\ chain'[c] = Idle /\ (\A j \in Chains : j # c => chain'[j] = chain[j])
        /\ now' = now /\ stored' = stored
    BY <1>1, <1>7 DEF Ends
  <2>3. CASE k = c
    BY <2>2, <2>3 DEF Carrying, Idle
  <2>4. CASE k # c
    BY <1>6, <1>7, <2>1, <2>2, <2>4
  <2> QED
    BY <2>3, <2>4
<1>8. ASSUME NEW c \in Chains, NEW d \in Detectors, NEW new \in AlertType, Bundles(c, d, new) PROVE Carrying(k)'
  <2> DEFINE books == Published(chain[c].alert)
  <2>1. books \in [Alerts -> AlertType] /\ chain[c].pc # "idle" /\ chain[c].alert \in Alerts
    BY <1>1, <1>8, PublishedMoves DEF Bundles, Remembers
  <2>2. \A b \in Alerts : b # chain[c].alert => books[b] = alerts[b]
    BY <1>1, <2>1, PublishedFields
  <2>3. /\ alerts' = [books EXCEPT ![stored'] = new] /\ stored' = stored + 1 /\ stored' \in Alerts /\ now' = now
        /\ chain' = [chain EXCEPT ![c] = Emitting(stored', now)]
    BY <1>8 DEF Bundles, Remembers
  <2> HIDE DEF books
  <2>4. alerts'[stored'] = new /\ \A b \in Alerts : b <= stored => alerts'[b] = books[b]
    BY <2>1, <2>3
  <2>5. CASE k = c
    BY <1>1, <1>8, <2>3, <2>4, <2>5, EmittingFields DEF Bundles, Carrying
  <2>6. CASE k # c
    <3>1. chain'[c].pc # "idle" /\ \A j \in Chains : j # c => chain'[j] = chain[j]
      BY <1>1, <2>3, EmittingFields
    <3> QED
      BY <1>6, <2>1, <2>2, <2>3, <2>4, <2>6, <3>1
  <2> QED
    BY <2>5, <2>6
<1>9. alerts' \in [Alerts -> AlertType]
  BY AlertsMove DEF TypeOfAlerts
<1>10. ASSUME NEW c \in Chains, EndsUnheard(c) PROVE Carrying(k)'
  BY <1>7, <1>9, <1>10 DEF EndsUnheard
<1>11. ASSUME NEW c \in Chains, EndsBundle(c) PROVE Carrying(k)'
  BY <1>7, <1>9, <1>11 DEF EndsBundle
<1>12. ASSUME NEW c \in Chains, NEW d \in Detectors, EndsSingle(c, d) PROVE Carrying(k)'
  BY <1>7, <1>9, <1>12 DEF EndsSingle
<1> QED
  BY <1>2, <1>3, <1>4, <1>5, <1>8, <1>10, <1>11, <1>12, StepForms

LEMMA SharedStep ==
  Typed /\ Bookkeeping /\ [Next]_vars => \A c, k \in Chains : Shared(c, k)' => c = k
<1> SUFFICES ASSUME Typed, Bookkeeping, [Next]_vars, NEW i \in Chains, NEW j \in Chains, Shared(i, j)' PROVE i = j
  OBVIOUS
<1> USE ChainNumbers
<1>1. chain \in [Chains -> LiveChain] /\ (Shared(i, j) => i = j)
  BY DEF Typed, TypeOfChains, Bookkeeping
<1>2. \A c \in Chains : chain[c].pc # "idle" => chain[c].alert <= stored
  BY DEF Bookkeeping, Carrying
<1>3. CASE Waits
  BY <1>1, <1>3 DEF Waits, Shared
<1>4. CASE Restart
  BY <1>4 DEF Restart, Shared, Idle
<1>5. ASSUME NEW c \in Chains, stored' = stored + 1, chain' = [chain EXCEPT ![c] = Emitting(stored', now)] PROVE i = j
  BY <1>1, <1>2, <1>5, EmittingFields DEF Shared
<1>6. ASSUME NEW c \in Chains, NEW next \in LiveChain, Notifies(c, next) PROVE i = j
  BY <1>1, <1>6 DEF Notifies, Shared
<1>7. ASSUME NEW c \in Chains, Ends(c) PROVE i = j
  BY <1>1, <1>7 DEF Ends, Shared, Idle
<1> QED
  BY <1>3, <1>4, <1>5, <1>6, <1>7, StepForms DEF Raises, EndsUnheard, EndsBundle, EndsSingle, Bundles

LEMMA FiledStep == Typed /\ Bookkeeping /\ [Next]_vars => \A a \in Alerts : Filed(a)'
<1> SUFFICES ASSUME Typed, Bookkeeping, [Next]_vars, NEW a \in Alerts PROVE Filed(a)'
  OBVIOUS
<1> USE ChainNumbers
<1>1. TypeOfAlerts /\ alerts \in [Alerts -> AlertType] /\ Filed(a)
  BY DEF Typed, TypeOfAlerts, Bookkeeping
<1>2. CASE Waits \/ Restart
  BY <1>1, <1>2 DEF Waits, Restart, dbVars, Filed
<1>3. ASSUME NEW c \in Chains, NEW new \in AlertType, Raises(c, new) PROVE Filed(a)'
  BY <1>1, <1>3 DEF Raises, Filed
<1>4. ASSUME NEW c \in Chains, NEW next \in LiveChain, Notifies(c, next) PROVE Filed(a)'
  BY <1>1, <1>4 DEF Notifies, Filed
(* Publication leaves a row as it is but for the fate and the time.        *)
<1>5. ASSUME NEW c \in Chains, chain[c].pc # "idle"
      PROVE  LET r == Published(chain[c].alert)[a] IN
             /\ r.kind = alerts[a].kind /\ r.at = alerts[a].at /\ r.detectors = alerts[a].detectors
             /\ r.fate = "published" => r.at <= r.when /\ r.when <= now /\ r.when - r.at <= Patience
  <2>1. chain[c].alert \in Alerts /\ Carrying(c)
    BY <1>5 DEF Bookkeeping
  <2>2. CASE a = chain[c].alert
    BY <1>1, <1>5, <2>1, <2>2, PublishedFields DEF Carrying, SameAlert
  <2>3. CASE a # chain[c].alert
    BY <1>1, <2>1, <2>3, PublishedFields DEF Filed
  <2> QED
    BY <2>2, <2>3
<1>6. ASSUME NEW c \in Chains, Ends(c), alerts' = alerts \/ alerts' = Published(chain[c].alert)
      PROVE  Filed(a)'
  <2>1. chain[c].pc # "idle" /\ now' = now /\ stored' = stored
    BY <1>6 DEF Ends
  <2> QED
    BY <1>1, <1>5, <1>6, <2>1 DEF Filed
<1>7. ASSUME NEW c \in Chains, NEW d \in Detectors, NEW new \in AlertType, Bundles(c, d, new) PROVE Filed(a)'
  <2> DEFINE books == Published(chain[c].alert)
  <2>1. books \in [Alerts -> AlertType] /\ chain[c].pc # "idle"
    BY <1>1, <1>7, PublishedMoves DEF Bundles, Remembers
  <2>2. /\ books[a].kind = alerts[a].kind /\ books[a].at = alerts[a].at /\ books[a].detectors = alerts[a].detectors
        /\ books[a].fate = "published" =>
              books[a].at <= books[a].when /\ books[a].when <= now /\ books[a].when - books[a].at <= Patience
    BY <1>5, <2>1
  <2>3. /\ alerts' = [books EXCEPT ![stored'] = new] /\ stored' = stored + 1 /\ stored' \in Alerts /\ now' = now
        /\ new.kind = "bundle" /\ new.at = now /\ new.fate = "stored"
    BY <1>7 DEF Bundles, Remembers
  <2> HIDE DEF books
  <2>4. CASE a = stored'
    BY <2>1, <2>3, <2>4 DEF Filed
  <2>5. CASE a # stored'
    BY <1>1, <2>1, <2>2, <2>3, <2>5 DEF Filed
  <2> QED
    BY <2>4, <2>5
<1>8. ASSUME NEW c \in Chains, EndsUnheard(c) PROVE Filed(a)'
  BY <1>6, <1>8 DEF EndsUnheard
<1>9. ASSUME NEW c \in Chains, EndsBundle(c) PROVE Filed(a)'
  BY <1>6, <1>9 DEF EndsBundle
<1>10. ASSUME NEW c \in Chains, NEW d \in Detectors, EndsSingle(c, d) PROVE Filed(a)'
  BY <1>6, <1>10 DEF EndsSingle
<1> QED
  BY <1>2, <1>3, <1>4, <1>7, <1>8, <1>9, <1>10, StepForms

LEMMA BookkeepingStep == Typed /\ Bookkeeping /\ [Next]_vars => Bookkeeping'
BY CarryingStep, SharedStep, FiledStep DEF Bookkeeping

-----------------------------------------------------------------------------
(* Published alerts, and how the correlation remembers them.               *)

(* Alert a of detector d about e was published at t.                       *)
Out(a, e, d, t) == /\ alerts[a].kind = "single" /\ alerts[a].entity = e /\ alerts[a].detectors = {d}
                   /\ alerts[a].fate = "published" /\ alerts[a].when = t

(* A row is about what it was about, or it is the one just stored.          *)
LEMMA RowsMove ==
  ASSUME Typed, Bookkeeping, [Next]_vars, NEW a \in Alerts
  PROVE  \/ SameAlert(alerts'[a], alerts[a])
         \/ a = stored' /\ a > stored /\ \E c \in Chains, new \in AlertType : Raises(c, new) /\ alerts'[a] = new
         \/ a = stored' /\ a > stored /\ \E c \in Chains, d \in Detectors, new \in AlertType :
                                             Bundles(c, d, new) /\ alerts'[a] = new
<1>1. TypeOfAlerts /\ TypeOfChains /\ alerts \in [Alerts -> AlertType] /\ stored \in Nat
  BY ChainNumbers DEF Typed, TypeOfAlerts
<1>2. SameAlert(alerts[a], alerts[a])
  BY DEF SameAlert
<1>3. CASE UNCHANGED alerts
  BY <1>2, <1>3
<1>4. ASSUME NEW c \in Chains, NEW new \in AlertType, Raises(c, new)
      PROVE  SameAlert(alerts'[a], alerts[a]) \/ (a = stored' /\ a > stored /\ alerts'[a] = new)
  BY <1>1, <1>2, <1>4 DEF Raises
<1>5. ASSUME NEW b, alerts' = Published(b)
      PROVE  SameAlert(alerts'[a], alerts[a])
  BY <1>1, <1>5, PublishedMoves
<1>6. ASSUME NEW c \in Chains, NEW d \in Detectors, NEW new \in AlertType, Bundles(c, d, new)
      PROVE  SameAlert(alerts'[a], alerts[a]) \/ (a = stored' /\ a > stored /\ alerts'[a] = new)
  <2> DEFINE books == Published(chain[c].alert)
  <2>1. books \in [Alerts -> AlertType] /\ SameAlert(books[a], alerts[a])
    BY <1>1, PublishedMoves
  <2>2. alerts' = [books EXCEPT ![stored'] = new] /\ stored' = stored + 1
    BY <1>6 DEF Bundles
  <2> HIDE DEF books
  <2> QED
    BY <1>1, <2>1, <2>2
<1> QED
  BY <1>3, <1>4, <1>5, <1>6, StepForms
  DEF Waits, dbVars, Restart, Notifies, EndsUnheard, EndsBundle, EndsSingle

(* The alert that a chain publishes: what was published stays, it is        *)
(* published now, and nothing else is.                                     *)
LEMMA PublishedOut ==
  ASSUME Typed, Bookkeeping, NEW c \in Chains, chain[c].pc # "idle", NEW a \in Alerts,
         NEW r, r = Published(chain[c].alert)[a]
  PROVE  /\ a # chain[c].alert => r = alerts[a]
         /\ a = chain[c].alert => SameAlert(r, alerts[a]) /\ r.fate = "published" /\ r.when = now
         /\ alerts[a].fate = "published" => a # chain[c].alert
<1>1. TypeOfAlerts /\ chain[c].alert \in Alerts /\ Carrying(c)
  BY ChainNumbers DEF Typed, Bookkeeping
<1> QED
  BY <1>1, PublishedFields DEF Carrying

LEMMA OutMoves ==
  ASSUME Typed, Bookkeeping, [Next]_vars, NEW a \in Alerts
  PROVE  \/ \A e, d, t : Out(a, e, d, t)' <=> Out(a, e, d, t)
         \/ \E c \in Chains, d \in Detectors :
              /\ Remembers(c, d) /\ a = chain[c].alert
              /\ EndsSingle(c, d) \/ \E new \in AlertType : Bundles(c, d, new)
              /\ alerts[a].detectors = {d} /\ alerts[a].entity \in Entities
              /\ \A i, j, t : ~Out(a, i, j, t)
              /\ \A i, j, t : Out(a, i, j, t)' <=> i = alerts[a].entity /\ j = d /\ t = now
<1>1. /\ TypeOfAlerts /\ TypeOfChains /\ alerts \in [Alerts -> AlertType] /\ stored \in Nat /\ a \in Nat
      /\ alerts' \in [Alerts -> AlertType]
  BY ChainNumbers, AlertsMove DEF Typed, TypeOfAlerts
<1>2. CASE UNCHANGED alerts
  BY <1>2 DEF Out
<1>3. ASSUME NEW c \in Chains, NEW new \in AlertType, Raises(c, new)
      PROVE  \A e, d, t : Out(a, e, d, t)' <=> Out(a, e, d, t)
  <2>1. alerts'[a] = alerts[a] \/ (a > stored /\ alerts'[a].fate = "stored")
    BY <1>1, <1>3 DEF Raises
  <2>2. a > stored => alerts[a].kind = "none"
    BY DEF Bookkeeping, Filed
  <2> QED
    BY <2>1, <2>2 DEF Out
<1>4. ASSUME NEW c \in Chains, alerts' = Published(chain[c].alert),
             chain[c].pc # "idle", alerts[chain[c].alert].kind # "single"
      PROVE  \A e, d, t : Out(a, e, d, t)' <=> Out(a, e, d, t)
  <2>1. /\ a # chain[c].alert => alerts'[a] = alerts[a]
        /\ a = chain[c].alert => SameAlert(alerts'[a], alerts[a]) 
        /\ alerts[a].fate = "published" => a # chain[c].alert
    BY <1>4, PublishedOut
  <2> QED
    BY <1>4, <2>1 DEF Out, SameAlert
<1>5. ASSUME NEW c \in Chains, NEW d \in Detectors, EndsSingle(c, d) \/ \E new \in AlertType : Bundles(c, d, new)
      PROVE  \/ \A i, j, t : Out(a, i, j, t)' <=> Out(a, i, j, t)
             \/ /\ Remembers(c, d) /\ a = chain[c].alert
                /\ alerts[a].detectors = {d} /\ alerts[a].entity \in Entities
                /\ \A i, j, t : ~Out(a, i, j, t)
                /\ \A i, j, t : Out(a, i, j, t)' <=> i = alerts[a].entity /\ j = d /\ t = now
  <2> DEFINE books == Published(chain[c].alert)
  <2>1. Remembers(c, d) /\ chain[c].pc # "idle"
    BY <1>5 DEF EndsSingle, Bundles, Remembers
  <2>2. /\ a # chain[c].alert => books[a] = alerts[a]
        /\ a = chain[c].alert => SameAlert(books[a], alerts[a]) /\ books[a].fate = "published" /\ books[a].when = now
        /\ alerts[a].fate = "published" => a # chain[c].alert
    BY <2>1, PublishedOut
  <2>3. books \in [Alerts -> AlertType]
    BY <1>1, PublishedMoves
  <2>4. alerts' = books \/ \E new \in AlertType : /\ alerts' = [books EXCEPT ![stored'] = new] /\ stored' = stored + 1
                                                  /\ new.fate = "stored" /\ stored' \in Alerts
    BY <1>5 DEF EndsSingle, Bundles
  <2> HIDE DEF books
  <2>5. CASE a # chain[c].alert
    <3>1. alerts'[a] = alerts[a] \/ (a > stored /\ alerts'[a].fate = "stored")
      BY <1>1, <2>2, <2>3, <2>4, <2>5
    <3>2. a > stored => alerts[a].kind = "none"
      BY DEF Bookkeeping, Filed
    <3> QED
      BY <3>1, <3>2 DEF Out
  <2>6. CASE a = chain[c].alert
    <3>1. a <= stored /\ alerts[a].kind = "single" /\ d \in alerts[a].detectors
      BY <2>1, <2>6 DEF Bookkeeping, Carrying, Remembers
    <3>2. alerts'[a] = books[a]
      BY <1>1, <2>3, <2>4, <3>1
    <3>3. alerts[a].detectors = {d}
      BY <3>1 DEF Bookkeeping, Filed
    <3>4. alerts[a].entity \in Entities
      BY <1>1 DEF AlertType
    <3>5. SameAlert(alerts'[a], alerts[a]) /\ alerts'[a].fate = "published" /\ alerts'[a].when = now
      BY <2>2, <2>6, <3>2
    <3>6. \A i, j, t : Out(a, i, j, t)' <=> i = alerts[a].entity /\ j = d /\ t = now
      BY <3>1, <3>3, <3>5 DEF Out, SameAlert
    <3>7. \A i, j, t : ~Out(a, i, j, t)
      BY <2>2, <2>6 DEF Out
    <3> QED
      BY <2>1, <2>6, <3>3, <3>4, <3>6, <3>7
  <2> QED
    BY <2>5, <2>6
<1>8. CASE Waits \/ Restart
  BY <1>2, <1>8 DEF Waits, dbVars, Restart
<1>9. ASSUME NEW c \in Chains,
              \/ \E new \in AlertType : Raises(c, new)
              \/ \E next \in LiveChain : Notifies(c, next)
              \/ EndsUnheard(c) \/ EndsBundle(c)
       PROVE  \A e, d, t : Out(a, e, d, t)' <=> Out(a, e, d, t)
  <2>1. CASE \E new \in AlertType : Raises(c, new)
    BY <1>3, <2>1
  <2>2. CASE (\E next \in LiveChain : Notifies(c, next)) \/ EndsUnheard(c)
    <3>1. UNCHANGED alerts
      BY <2>2 DEF Notifies, EndsUnheard
    <3> QED
      BY <3>1 DEF Out
  <2>3. CASE EndsBundle(c)
    <3>1. CASE alerts' = alerts
      BY <3>1 DEF Out
    <3>2. CASE alerts' = Published(chain[c].alert)
      BY <1>4, <2>3, <3>2 DEF EndsBundle, Ends
    <3> QED
      BY <2>3, <3>1, <3>2 DEF EndsBundle
  <2> QED
    BY <1>9, <2>1, <2>2, <2>3
<1>10. ASSUME NEW c \in Chains, NEW d \in Detectors, EndsSingle(c, d) \/ \E new \in AlertType : Bundles(c, d, new)
       PROVE  \/ \A i, j, t : Out(a, i, j, t)' <=> Out(a, i, j, t)
              \/ /\ Remembers(c, d) /\ a = chain[c].alert
                 /\ EndsSingle(c, d) \/ \E new \in AlertType : Bundles(c, d, new)
                 /\ alerts[a].detectors = {d} /\ alerts[a].entity \in Entities
                 /\ \A i, j, t : ~Out(a, i, j, t)
                 /\ \A i, j, t : Out(a, i, j, t)' <=> i = alerts[a].entity /\ j = d /\ t = now
  BY <1>5, <1>10
<1> QED
  BY <1>2, <1>8, <1>9, <1>10, StepForms

(* Published alerts stay published.                                        *)
LEMMA OutStays ==
  ASSUME Typed, Bookkeeping, [Next]_vars, NEW a \in Alerts, NEW e, NEW d, NEW t, Out(a, e, d, t)
  PROVE  Out(a, e, d, t)'
BY OutMoves

(* The chain that remembers has just published its alert.                  *)
LEMMA RememberedOut ==
  ASSUME Typed, Bookkeeping, [Next]_vars, NEW c \in Chains, NEW d \in Detectors,
         EndsSingle(c, d) \/ \E new \in AlertType : Bundles(c, d, new)
  PROVE  \E a \in Alerts : \E e \in Entities : \E t :
            /\ a = chain[c].alert /\ e = alerts[a].entity /\ t = now
            /\ a <= stored /\ alerts[a].fate = "stored" /\ Out(a, e, d, t)'
<1> DEFINE a == chain[c].alert
           books == Published(a)
<1>1. /\ TypeOfAlerts /\ TypeOfChains /\ alerts \in [Alerts -> AlertType] /\ stored \in Nat
  BY ChainNumbers DEF Typed, TypeOfAlerts
<1>2. Remembers(c, d) /\ chain[c].pc # "idle" /\ a \in Alerts /\ a \in Nat
  BY ChainNumbers DEF EndsSingle, Bundles, Remembers
<1>3. a <= stored /\ alerts[a].fate = "stored" /\ alerts[a].kind = "single" /\ alerts[a].detectors = {d}
  BY <1>2 DEF Bookkeeping, Carrying, Remembers, Filed
<1>4. SameAlert(books[a], alerts[a]) /\ books[a].fate = "published" /\ books[a].when = now
  BY <1>2, PublishedOut
<1>5. books \in [Alerts -> AlertType]
  BY <1>1, PublishedMoves
<1>6. alerts' = books \/ \E new \in AlertType : alerts' = [books EXCEPT ![stored'] = new] /\ stored' = stored + 1
  BY DEF EndsSingle, Bundles
<1>7. alerts[a].entity \in Entities
  BY <1>1, <1>2 DEF AlertType
<1> HIDE DEF books, a
<1>8. alerts'[a] = books[a]
  BY <1>1, <1>2, <1>3, <1>5, <1>6
<1>9. ASSUME NEW x, NEW e, NEW t, x = a, e = alerts[x].entity, t = now PROVE Out(x, e, d, t)'
  BY <1>3, <1>4, <1>8, <1>9 DEF Out, SameAlert
<1> QED
  BY <1>2, <1>3, <1>7, <1>9 DEF a

LEMMA TwoNames ==
  ASSUME NEW S \in SUBSET Detectors
  PROVE  ~(Cardinality(S) < 2) <=> \E i, j \in S : i # j
<1>1. IsFiniteSet(S) /\ Cardinality(S) \in Nat
  BY WindowsAssumption, FS_Subset, FS_CardinalityType
<1>2. ASSUME ~(Cardinality(S) < 2) PROVE \E i, j \in S : i # j
  <2>1. S # {} /\ \A x : S # {x}
    BY <1>1, <1>2, FS_EmptySet, FS_Singleton
  <2>2. PICK x \in S : TRUE
    BY <2>1
  <2> QED
    BY <2>1, <2>2
<1>3. ASSUME NEW i \in S, NEW j \in S, i # j PROVE ~(Cardinality(S) < 2)
  <2>1. IsFiniteSet({i}) /\ Cardinality({i}) = 1
    BY FS_Singleton
  <2>2. IsFiniteSet({i} \cup {j}) /\ Cardinality({i} \cup {j}) = 2
    BY <1>3, <2>1, FS_AddElement
  <2>3. {i} \cup {j} \in SUBSET S
    OBVIOUS
  <2> QED
    BY <1>1, <2>2, <2>3, FS_Subset
<1> QED
  BY <1>2, <1>3

LEMMA TwoOfTwo ==
  ASSUME Cardinality(Detectors) <= 2, NEW i \in Detectors, NEW j \in Detectors, NEW k \in Detectors, i # j
  PROVE  k = i \/ k = j
<1> SUFFICES ASSUME k # i, k # j PROVE FALSE
  OBVIOUS
<1>1. IsFiniteSet(Detectors) /\ Cardinality(Detectors) \in Nat
  BY WindowsAssumption, FS_CardinalityType
<1>2. IsFiniteSet({i}) /\ Cardinality({i}) = 1
  BY FS_Singleton
<1>3. IsFiniteSet({i} \cup {j}) /\ Cardinality({i} \cup {j}) = 2
  <2>1. j \notin {i}
    OBVIOUS
  <2> QED
    BY <1>2, <2>1, FS_AddElement
<1>4. k \notin {i} \cup {j}
  OBVIOUS
<1>5. Cardinality(({i} \cup {j}) \cup {k}) = 3
  BY <1>3, <1>4, FS_AddElement
<1>6. ({i} \cup {j}) \cup {k} \in SUBSET Detectors
  OBVIOUS
<1> QED
  BY <1>1, <1>5, <1>6, FS_Subset

(* What the correlation remembers was published, then and by that detector. *)
HeardOut == \A e \in Entities : \A h \in recent[e] : \E a \in Alerts : Out(a, e, h.detector, h.at)

(* A bundle names two detectors; behind each is a published alert on its    *)
(* entity, at most a correlation window old.                               *)
Behind(a, d, x) ==
    \E t \in Int : Out(a, alerts[x].entity, d, t) /\ t <= alerts[x].at /\ alerts[x].at - t <= CorrelationWindow
BundleOut == \A x \in Alerts : alerts[x].kind = "bundle" =>
                 /\ \E i, j \in alerts[x].detectors : i # j
                 /\ \A d \in alerts[x].detectors : d \in Detectors /\ \E a \in Alerts : Behind(a, d, x)

LEMMA TwoBehind ==
  ASSUME BundleOut, NEW x \in Alerts, alerts[x].kind = "bundle"
  PROVE  \E a, b \in Alerts : \E i, j \in Detectors : i # j /\ Behind(a, i, x) /\ Behind(b, j, x)
BY DEF BundleOut

LEMMA HeardFacts ==
  ASSUME Typed, NEW e \in Entities, NEW d \in Detectors
  PROVE  /\ Names(Heard(e, d)) \in SUBSET Detectors
         /\ \A h \in Heard(e, d) : h.at \in Nat /\ h.detector \in Detectors /\ h.at >= now - CorrelationWindow
         /\ \A h \in recent[e] : h.at >= now - CorrelationWindow => h \in Heard(e, d)
         /\ [at |-> now, detector |-> d] \in Heard(e, d)
<1>1. recent[e] \in SUBSET HeardType /\ now \in Nat /\ now \in Times /\ CorrelationWindow \in Nat
  BY ChainNumbers, WindowsAssumption DEF Typed, TypeOfMemory, TypeOfAlerts
<1>2. \A h \in recent[e] : h.at \in Nat /\ h.detector \in Detectors
  BY <1>1, WindowsAssumption DEF HeardType, Times
<1> QED
  BY <1>1, <1>2 DEF Heard, Names

LEMMA HeardOutStep == Typed /\ Bookkeeping /\ HeardOut /\ [Next]_vars => HeardOut'
<1> SUFFICES ASSUME Typed, Bookkeeping, HeardOut, [Next]_vars, NEW e \in Entities, NEW h \in recent'[e]
             PROVE  \E a \in Alerts : Out(a, e, h.detector, h.at)'
  BY DEF HeardOut
<1>1. CASE h \in recent[e]
  <2>1. PICK a \in Alerts : Out(a, e, h.detector, h.at)
    BY <1>1 DEF HeardOut
  <2> QED
    BY <2>1, OutStays
<1>2. CASE UNCHANGED recent
  BY <1>1, <1>2
<1>3. CASE Restart
  BY <1>3 DEF Restart
<1>4. ASSUME NEW c \in Chains, NEW d \in Detectors, EndsSingle(c, d) \/ \E new \in AlertType : Bundles(c, d, new)
      PROVE  \E a \in Alerts : Out(a, e, h.detector, h.at)'
  <2>1. PICK a \in Alerts : \E i \in Entities : \E t :
               a = chain[c].alert /\ i = alerts[a].entity /\ t = now /\ Out(a, i, d, t)'
    BY <1>4, RememberedOut
  <2>2. PICK i, t : i \in Entities /\ a = chain[c].alert /\ i = alerts[a].entity /\ t = now /\ Out(a, i, d, t)'
    BY <2>1
  <2>3. recent' = [recent EXCEPT ![i] = Heard(i, d)] /\ recent \in [Entities -> SUBSET HeardType]
    BY <1>4, <2>2 DEF EndsSingle, Bundles, Remembers, Typed, TypeOfMemory
  <2>4. h \in recent[e] \/ (e = i /\ h.at = t /\ h.detector = d)
    BY <2>2, <2>3 DEF Heard
  <2> QED
    BY <1>1, <2>2, <2>4
<1> QED
  BY <1>2, <1>3, <1>4, StepForms
  DEF Waits, memVars, Raises, Notifies, EndsUnheard, EndsBundle

LEMMA BundleOutStep == Typed /\ Bookkeeping /\ HeardOut /\ BundleOut /\ [Next]_vars => BundleOut'
<1> SUFFICES ASSUME Typed, Bookkeeping, HeardOut, BundleOut, [Next]_vars,
                    NEW x \in Alerts, alerts'[x].kind = "bundle"
             PROVE  /\ \E i, j \in alerts'[x].detectors : i # j
                    /\ \A d \in alerts'[x].detectors : d \in Detectors /\ \E a \in Alerts : Behind(a, d, x)'
  BY DEF BundleOut
<1>1. CASE SameAlert(alerts'[x], alerts[x])
  <2>1. /\ alerts[x].kind = "bundle" /\ alerts'[x].entity = alerts[x].entity /\ alerts'[x].at = alerts[x].at
        /\ alerts'[x].detectors = alerts[x].detectors
    BY <1>1 DEF SameAlert
  <2>2. /\ \E i, j \in alerts[x].detectors : i # j
        /\ \A d \in alerts[x].detectors : d \in Detectors /\ \E a \in Alerts : Behind(a, d, x)
    BY <2>1 DEF BundleOut
  <2>3. ASSUME NEW k \in Alerts, NEW d \in Detectors, Behind(k, d, x) PROVE Behind(k, d, x)'
    <3>1. PICK t \in Int : Out(k, alerts[x].entity, d, t) /\ t <= alerts[x].at /\ alerts[x].at - t <= CorrelationWindow
      BY <2>3 DEF Behind
    <3>2. ASSUME NEW e, e = alerts[x].entity PROVE Out(k, e, d, t)'
      BY <3>1, <3>2, OutStays
    <3>3. alerts'[k].entity = alerts'[x].entity /\ Out(k, alerts[k].entity, d, t) /\ alerts'[k].kind = "single"
          /\ alerts'[k].detectors = {d} /\ alerts'[k].fate = "published" /\ alerts'[k].when = t
      BY <2>1, <3>1, <3>2 DEF Out
    <3> QED
      BY <2>1, <3>1, <3>3 DEF Behind, Out
  <2> QED
    BY <2>1, <2>2, <2>3
<1>2. ASSUME NEW c \in Chains, NEW new \in AlertType, Raises(c, new), alerts'[x] = new PROVE FALSE
  BY <1>2 DEF Raises
<1>3. ASSUME NEW c \in Chains, NEW d \in Detectors, NEW new \in AlertType, Bundles(c, d, new), alerts'[x] = new
      PROVE  /\ \E i, j \in alerts'[x].detectors : i # j
             /\ \A k \in alerts'[x].detectors : k \in Detectors /\ \E a \in Alerts : Behind(a, k, x)'
  <2>1. PICK a \in Alerts : \E e \in Entities : \E t :
               a = chain[c].alert /\ e = alerts[a].entity /\ t = now /\ Out(a, e, d, t)'
    BY <1>3, RememberedOut
  <2>2. PICK e \in Entities : \E t : a = chain[c].alert /\ e = alerts[a].entity /\ t = now /\ Out(a, e, d, t)'
    BY <2>1
  <2>8. PICK t : a = chain[c].alert /\ e = alerts[a].entity /\ t = now /\ Out(a, e, d, t)'
    BY <2>2
  <2>3. /\ ~(Cardinality(Names(Heard(e, d))) < 2) /\ alerts'[x].entity = e /\ alerts'[x].at = now
        /\ alerts'[x].detectors = Names(Heard(e, d))
    BY <1>3, <2>8 DEF Bundles
  <2>4. PICK i, j \in Names(Heard(e, d)) : i # j
    BY <2>3, HeardFacts, TwoNames
  <2>5. ASSUME NEW k \in Names(Heard(e, d)) PROVE k \in Detectors /\ \E b \in Alerts : Behind(b, k, x)'
    <3>1. PICK h \in Heard(e, d) : h.detector = k
      BY DEF Names
    <3>2. h \in recent[e] \/ (h.at = now /\ h.detector = d)
      BY DEF Heard
    <3>3. k \in Detectors /\ h.at \in Int /\ h.at <= now /\ now - h.at <= CorrelationWindow
      <4>1. h.at >= now - CorrelationWindow /\ h.at \in Nat /\ k \in Detectors /\ now \in Nat /\ CorrelationWindow \in Nat
        BY <3>1, HeardFacts, ChainNumbers
      <4>2. h.at <= now
        <5>1. CASE h \in recent[e]
          <6>1. PICK b \in Alerts : Out(b, e, h.detector, h.at)
            BY <5>1 DEF HeardOut
          <6> QED
            BY <6>1 DEF Out, Bookkeeping, Filed
        <5> QED
          BY <3>2, <4>1, <5>1
      <4> QED
        BY <4>1, <4>2
    <3>4. \E b \in Alerts : Out(b, e, k, h.at)'
      <4>1. CASE h \in recent[e]
        <5>1. PICK b \in Alerts : Out(b, e, k, h.at)
          BY <3>1, <4>1 DEF HeardOut
        <5> QED
          BY <5>1, OutStays
      <4>2. CASE h.at = t /\ h.detector = d
        BY <2>8, <3>1, <4>2
      <4> QED
        BY <2>8, <3>2, <4>1, <4>2
    <3>5. PICK b \in Alerts : Out(b, e, k, h.at)'
      BY <3>4
    <3>6. Behind(b, k, x)'
      BY <2>3, <3>3, <3>5 DEF Behind, Out
    <3> QED
      BY <3>3, <3>6
  <2> QED
    BY <2>3, <2>4, <2>5
<1> QED
  BY <1>1, <1>2, <1>3, RowsMove

(* A third alert on the entity would be one of the two detectors' again,    *)
(* and is_duplicate has kept that away.                                    *)
LEMMA NoSecondBundle ==
  ASSUME Typed, Bookkeeping, BundleOut, OneAlertPerWindow, [Next]_vars, Cardinality(Detectors) <= 2,
         NEW c \in Chains, NEW d \in Detectors, NEW new \in AlertType, Bundles(c, d, new),
         NEW x \in Alerts, alerts[x].kind = "bundle", alerts[x].entity = new.entity
  PROVE  now - alerts[x].at >= CorrelationWindow + 1
<1> USE ChainNumbers
<1> DEFINE s == chain[c].alert
<1>1. PICK a \in Alerts, b \in Alerts, i \in Detectors, j \in Detectors : i # j /\ Behind(a, i, x) /\ Behind(b, j, x)
  BY TwoBehind
<1>2. d = i \/ d = j
  BY <1>1, TwoOfTwo
<1>3. PICK y \in Alerts : Behind(y, d, x)
  BY <1>1, <1>2
<1>4. PICK t \in Int : Out(y, alerts[x].entity, d, t) /\ t <= alerts[x].at /\ alerts[x].at - t <= CorrelationWindow
  BY <1>3 DEF Behind
<1>5. /\ s \in Alerts /\ alerts[s].kind = "single" /\ alerts[s].entity = new.entity /\ alerts[s].detectors = {d}
      /\ alerts[s].fate = "stored" /\ alerts[s].at <= now /\ now - alerts[s].at <= Patience
  <2>1. chain[c].pc # "idle" /\ alerts[s].kind = "single" /\ d \in alerts[s].detectors /\ new.entity = alerts[s].entity
    BY DEF Bundles, Remembers
  <2>2. Carrying(c) /\ s \in Alerts
    BY <2>1 DEF Bookkeeping
  <2>3. alerts[s].detectors = {d}
    BY <2>1, <2>2 DEF Bookkeeping, Filed
  <2> QED
    BY <2>1, <2>2, <2>3 DEF Carrying
<1>6. /\ s # y /\ alerts[y].kind = "single" /\ alerts[y].entity = alerts[s].entity /\ alerts[y].detectors = alerts[s].detectors
  BY <1>4, <1>5 DEF Out
<1>7. Apart(s, y, DedupWindow - Lag)
  BY <1>5, <1>6 DEF OneAlertPerWindow, Stored
<1>8. /\ alerts[y].at <= t /\ t - alerts[y].at <= Patience /\ alerts[x].at <= now
  BY <1>4 DEF Out, Bookkeeping, Filed
<1>9. DedupWindow \in Nat /\ Lag \in Nat /\ DedupWindow - Lag > 2 * (CorrelationWindow + Patience)
  BY WindowsAssumption
<1>10. alerts[s].at \in Nat /\ alerts[y].at \in Nat /\ alerts[x].at \in Nat
  BY <1>5
<1> HIDE DEF s
<1> QED
  BY <1>4, <1>5, <1>7, <1>8, <1>9, <1>10 DEF Apart

LEMMA OneBundleStep ==
  ASSUME Typed, Bookkeeping, BundleOut, OneAlertPerWindow, OneBundlePerWindow, [Next]_vars, Cardinality(Detectors) <= 2
  PROVE  OneBundlePerWindow'
<1> SUFFICES ASSUME NEW a \in Alerts, NEW b \in Alerts, alerts'[a].kind = "bundle", alerts'[b].kind = "bundle",
                    a # b, alerts'[a].entity = alerts'[b].entity
             PROVE  Apart(a, b, CorrelationWindow + 1)'
  BY DEF OneBundlePerWindow, Stored
<1>1. \A y \in Alerts : alerts'[y].kind = "bundle" =>
        \/ alerts[y].kind = "bundle" /\ alerts'[y].entity = alerts[y].entity /\ alerts'[y].at = alerts[y].at
        \/ y = stored' /\ \E c \in Chains, d \in Detectors, new \in AlertType : Bundles(c, d, new) /\ alerts'[y] = new
  BY RowsMove DEF SameAlert, Raises
<1>2. ASSUME NEW x \in Alerts, NEW y \in Alerts, y = stored', alerts'[y].entity = alerts'[x].entity,
             alerts[x].kind = "bundle", alerts'[x].entity = alerts[x].entity, alerts'[x].at = alerts[x].at,
             \E c \in Chains, d \in Detectors, new \in AlertType : Bundles(c, d, new) /\ alerts'[y] = new
      PROVE  alerts'[y].at - alerts'[x].at >= CorrelationWindow + 1
  <2>1. PICK c \in Chains, d \in Detectors, new \in AlertType : Bundles(c, d, new) /\ alerts'[y] = new
    BY <1>2
  <2>2. now - alerts[x].at >= CorrelationWindow + 1
    BY <1>2, <2>1, NoSecondBundle
  <2> QED
    BY <1>2, <2>1, <2>2 DEF Bundles
<1>3. alerts[a].kind = "bundle" /\ alerts[b].kind = "bundle" /\ alerts[a].entity = alerts[b].entity
         => Apart(a, b, CorrelationWindow + 1)
  BY DEF OneBundlePerWindow, Stored
<1> QED
  BY <1>1, <1>2, <1>3 DEF Apart

Correlated == Typed /\ Bookkeeping /\ Deduplicated /\ HeardOut /\ BundleOut

LEMMA CorrelatedInit == Init => Correlated
<1> SUFFICES ASSUME Init PROVE HeardOut /\ BundleOut
  BY TypedInit, BookkeepingInit, DeduplicatedInit DEF Correlated
<1>1. \A e \in Entities : recent[e] = {}
  BY DEF Init
<1>2. \A x \in Alerts : alerts[x].kind = "none"
  BY DEF Init, NoAlert
<1> QED
  BY <1>1, <1>2 DEF HeardOut, BundleOut

LEMMA CorrelatedStep == Correlated /\ [Next]_vars => Correlated'
BY TypedStep, BookkeepingStep, DeduplicatedStep, HeardOutStep, BundleOutStep DEF Correlated

(* However many detectors there are, however late the chains come to the    *)
(* correlation and whatever failed or restarted in between, a bundle is     *)
(* earned: what the buffer remembers was published, then and by that        *)
(* detector, and a bundle names what the buffer holds of one window.       *)
THEOREM BundlesAreEarned == Spec => []BundleEarned
<1>1. Correlated => BundleEarned
  <2> SUFFICES ASSUME Correlated, NEW x \in Alerts, alerts[x].kind = "bundle"
               PROVE  /\ \E i, j \in alerts[x].detectors : i # j
                      /\ \A d \in alerts[x].detectors : \E a \in Stored("single") :
                            /\ alerts[a].entity = alerts[x].entity /\ alerts[a].detectors = {d}
                            /\ alerts[a].fate = "published"
                            /\ alerts[a].when <= alerts[x].at /\ alerts[x].at - alerts[a].when <= CorrelationWindow
    BY DEF BundleEarned, Stored
  <2>1. /\ \E i, j \in alerts[x].detectors : i # j
        /\ \A d \in alerts[x].detectors : \E a \in Alerts : Behind(a, d, x)
    BY DEF Correlated, BundleOut
  <2> QED
    BY <2>1 DEF Behind, Out, Stored
<1> QED
  BY <1>1, CorrelatedInit, CorrelatedStep, PTL DEF Spec

(* With the two detectors the platform registers, the detections of one     *)
(* chain of attack on one entity are announced once per window, in any      *)
(* interleaving of the chains and across restarts: a bundle takes an alert  *)
(* of either detector, and is_duplicate lets neither raise a second one     *)
(* while the first may still be bundled.  The flag that is meant to keep    *)
(* the second bundle away is not needed for it.                            *)
THEOREM OneBundle == Cardinality(Detectors) <= 2 => (Spec => []OneBundlePerWindow)
<1> SUFFICES ASSUME Cardinality(Detectors) <= 2 PROVE Spec => []OneBundlePerWindow
  OBVIOUS
<1>1. Init => OneBundlePerWindow
  BY DEF Init, NoAlert, OneBundlePerWindow, Stored
<1>2. Correlated /\ OneBundlePerWindow /\ [Next]_vars => OneBundlePerWindow'
  BY OneBundleStep DEF Correlated, Deduplicated
<1> QED
  BY <1>1, <1>2, CorrelatedInit, CorrelatedStep, PTL DEF Spec

-----------------------------------------------------------------------------
(* The kill chain, while the process that remembers it lives.              *)

(* Every alert published within the window is remembered.                  *)
Remembered ==
    restarts = 0 =>
        \A a \in Alerts : \A e \in Entities : \A d \in Detectors : \A t \in Int :
            Out(a, e, d, t) /\ t >= now - CorrelationWindow => [at |-> t, detector |-> d] \in recent[e]

(* An entity is quiet for a window after a bundle of its own.              *)
Announced ==
    \A e \in Entities : correlatedUntil[e] # Never =>
        \E x \in Alerts : /\ alerts[x].kind = "bundle" /\ alerts[x].entity = e
                          /\ correlatedUntil[e] = alerts[x].at + CorrelationWindow

(* A bundle of e that covers what was published at t.                      *)
Covers(x, e, t) == /\ alerts[x].kind = "bundle" /\ alerts[x].entity = e
                   /\ alerts[x].at <= t /\ t - alerts[x].at <= CorrelationWindow

(* The bundle of the two was tried for by the later of them, and failed.    *)
Lapsed(a, b, t, u) == b \in lapsed \/ (a \in lapsed /\ t = u)

Chained ==
    restarts = 0 =>
        \A a, b \in Alerts : \A e \in Entities : \A i, j \in Detectors : \A t, u \in Int :
            Out(a, e, i, t) /\ Out(b, e, j, u) /\ i # j /\ t <= u /\ u - t <= CorrelationWindow
                => (\E x \in Alerts : Covers(x, e, u)) \/ Lapsed(a, b, t, u)

LEMMA BundlesStay ==
  ASSUME Typed, Bookkeeping, [Next]_vars, NEW x \in Alerts, alerts[x].kind = "bundle"
  PROVE  alerts'[x].kind = "bundle" /\ alerts'[x].entity = alerts[x].entity /\ alerts'[x].at = alerts[x].at
<1>1. x <= stored
  BY ChainNumbers DEF Bookkeeping, Filed
<1> QED
  BY <1>1, RowsMove, ChainNumbers DEF SameAlert

LEMMA RestartsStep ==
  ASSUME Typed, [Next]_vars, restarts' = 0 PROVE restarts = 0 /\ ~Restart
<1>1. restarts \in Nat
  BY WindowsAssumption DEF Typed, TypeOfChains
<1>2. ~Restart
  BY <1>1 DEF Restart
<1> QED
  BY <1>2, StepForms
  DEF Waits, Raises, Notifies, Ends, EndsUnheard, EndsBundle, EndsSingle, Bundles, Remembers

(* What is within the window later was within it before.                   *)
LEMMA StillRecent ==
  ASSUME NEW n \in Nat, NEW m \in Nat, m >= n, NEW t \in Int, t >= m - CorrelationWindow PROVE t >= n - CorrelationWindow
BY WindowsAssumption

LEMMA RememberedStep == Typed /\ Bookkeeping /\ Remembered /\ [Next]_vars => Remembered'
<1> SUFFICES ASSUME Typed, Bookkeeping, Remembered, [Next]_vars, restarts' = 0,
                    NEW a \in Alerts, NEW e \in Entities, NEW d \in Detectors, NEW t \in Int,
                    Out(a, e, d, t)', t >= now' - CorrelationWindow
             PROVE  [at |-> t, detector |-> d] \in recent'[e]
  BY DEF Remembered
<1>1. /\ restarts = 0 /\ ~Restart /\ now \in Nat /\ now' \in Nat /\ now' >= now /\ CorrelationWindow \in Nat
      /\ recent \in [Entities -> SUBSET HeardType]
  BY RestartsStep, AlertsMove, ChainNumbers DEF Typed, TypeOfAlerts, TypeOfMemory, Times
<1>2. CASE Out(a, e, d, t)
  <2>1. [at |-> t, detector |-> d] \in recent[e]
    <3>1. now \in Nat /\ now' \in Nat /\ now' >= now /\ CorrelationWindow \in Nat
      BY <1>1, Zenon
    <3>2. t >= now - CorrelationWindow
      BY <3>1, StillRecent
    <3> QED
      BY <1>1, <1>2, <3>2, Zenon DEF Remembered
  <2>2. CASE UNCHANGED recent
    BY <2>1, <2>2
  <2>3. ASSUME NEW c \in Chains, NEW j \in Detectors, Remembers(c, j) PROVE [at |-> t, detector |-> d] \in recent'[e]
    <3>1. recent' = [recent EXCEPT ![alerts[chain[c].alert].entity] = Heard(alerts[chain[c].alert].entity, j)] /\ now' = now
      BY <2>3 DEF Remembers
    <3>2. [at |-> t, detector |-> d].at >= now - CorrelationWindow
      BY <3>1
    <3>3. [at |-> t, detector |-> d] \in Heard(e, j)
      BY <2>1, <3>2 DEF Heard
    <3> QED
      BY <1>1, <2>1, <3>1, <3>3
  <2> QED
    BY <1>1, <2>2, <2>3, StepForms
    DEF Waits, memVars, Raises, Notifies, EndsUnheard, EndsBundle, EndsSingle, Bundles
<1>3. CASE ~Out(a, e, d, t)
  <2>1. PICK c \in Chains, j \in Detectors :
              /\ Remembers(c, j) /\ a = chain[c].alert
              /\ \A i, k, u : Out(a, i, k, u)' <=> i = alerts[a].entity /\ k = j /\ u = now
    BY <1>3, OutMoves
  <2>2. e = alerts[a].entity /\ d = j /\ t = now
    BY <2>1
  <2>3. recent' = [recent EXCEPT ![e] = Heard(e, d)]
    BY <2>1, <2>2 DEF Remembers
  <2> QED
    BY <1>1, <2>2, <2>3 DEF Heard
<1> QED
  BY <1>2, <1>3

LEMMA AnnouncedStep == Typed /\ Bookkeeping /\ Announced /\ [Next]_vars => Announced'
<1> SUFFICES ASSUME Typed, Bookkeeping, Announced, [Next]_vars, NEW e \in Entities, correlatedUntil'[e] # Never
             PROVE  \E x \in Alerts : /\ alerts'[x].kind = "bundle" /\ alerts'[x].entity = e
                                      /\ correlatedUntil'[e] = alerts'[x].at + CorrelationWindow
  BY DEF Announced
<1>1. CASE correlatedUntil'[e] = correlatedUntil[e]
  <2>1. PICK x \in Alerts : /\ alerts[x].kind = "bundle" /\ alerts[x].entity = e
                            /\ correlatedUntil[e] = alerts[x].at + CorrelationWindow
    BY <1>1 DEF Announced
  <2> QED
    BY <1>1, <2>1, BundlesStay
<1>2. CASE Restart
  BY <1>2 DEF Restart
<1>3. ASSUME NEW c \in Chains, EndsBundle(c)
      PROVE  \/ correlatedUntil'[e] = correlatedUntil[e]
             \/ \E x \in Alerts : /\ alerts'[x].kind = "bundle" /\ alerts'[x].entity = e
                                  /\ correlatedUntil'[e] = alerts'[x].at + CorrelationWindow
  <2> DEFINE a == chain[c].alert
  <2>1. chain[c].pc # "idle" /\ alerts[a].kind = "bundle"
    BY <1>3 DEF EndsBundle, Ends
  <2>2. a \in Alerts /\ chain[c].began = alerts[a].at
    BY <2>1, ChainNumbers DEF Bookkeeping, Carrying
  <2>3. \/ correlatedUntil' = [correlatedUntil EXCEPT ![alerts[a].entity] = alerts[a].at + CorrelationWindow]
        \/ correlatedUntil' = correlatedUntil
    BY <1>3, <2>2 DEF EndsBundle
  <2>4. correlatedUntil \in [Entities -> Never .. MaxTime + CorrelationWindow]
    BY DEF Typed, TypeOfMemory
  <2> HIDE DEF a
  <2>5. alerts'[a].kind = "bundle" /\ alerts'[a].entity = alerts[a].entity /\ alerts'[a].at = alerts[a].at
    BY <2>1, <2>2, BundlesStay DEF a
  <2> QED
    BY <2>2, <2>3, <2>4, <2>5
<1> QED
  BY <1>1, <1>2, <1>3, StepForms
  DEF Waits, memVars, Raises, Notifies, EndsUnheard, EndsSingle, Bundles, Remembers

(* When a chain publishes the later alert of a pair it has both in the      *)
(* buffer: it stores a bundle, or the entity had one within the window.     *)
LEMMA ChainPublishes ==
  ASSUME Typed, Bookkeeping, Announced, [Next]_vars,
         NEW c \in Chains, NEW d \in Detectors, EndsSingle(c, d) \/ \E new \in AlertType : Bundles(c, d, new),
         NEW e \in Entities, e = alerts[chain[c].alert].entity,
         NEW i \in Names(Heard(e, d)), NEW j \in Names(Heard(e, d)), i # j, NEW t, t = now
  PROVE  (\E x \in Alerts : Covers(x, e, t)') \/ chain[c].alert \in lapsed'
<1> USE ChainNumbers
<1>1. ~(Cardinality(Names(Heard(e, d))) < 2)
  BY HeardFacts, TwoNames
<1>2. CASE EndsSingle(c, d)
  <2> SUFFICES ASSUME chain[c].alert \notin lapsed' PROVE \E x \in Alerts : Covers(x, e, t)'
    OBVIOUS
  <2>1. correlatedUntil[e] >= now
    BY <1>1, <1>2 DEF EndsSingle
  <2>2. correlatedUntil[e] # Never
    BY <2>1 DEF Never
  <2>3. PICK x \in Alerts : /\ alerts[x].kind = "bundle" /\ alerts[x].entity = e
                            /\ correlatedUntil[e] = alerts[x].at + CorrelationWindow
    BY <2>2 DEF Announced
  <2>4. alerts[x].at <= now
    BY DEF Bookkeeping, Filed
  <2>5. alerts'[x].kind = "bundle" /\ alerts'[x].entity = e /\ alerts'[x].at = alerts[x].at
    BY <2>3, BundlesStay
  <2>6. t - alerts[x].at <= CorrelationWindow
    BY <2>1, <2>3
  <2>7. Covers(x, e, t)'
    BY <2>4, <2>5, <2>6 DEF Covers
  <2> QED
    BY <2>7
<1>3. CASE \E new \in AlertType : Bundles(c, d, new)
  <2>1. PICK new \in AlertType : Bundles(c, d, new)
    BY <1>3
  <2> DEFINE books == Published(chain[c].alert)
  <2>2. books \in [Alerts -> AlertType]
    BY PublishedMoves DEF Typed
  <2>3. /\ stored' \in Alerts /\ alerts' = [books EXCEPT ![stored'] = new]
        /\ new.kind = "bundle" /\ new.entity = e /\ new.at = now
    BY <2>1 DEF Bundles
  <2> HIDE DEF books
  <2>4. PICK x \in Alerts : x = stored'
    BY <2>3
  <2>5. alerts'[x] = new
    BY <2>2, <2>3, <2>4
  <2>6. Covers(x, e, t)'
    BY <2>3, <2>5 DEF Covers
  <2> QED
    BY <2>6
<1> QED
  BY <1>2, <1>3

(* One chain publishes at a time.                                          *)
LEMMA OnePublishes ==
  ASSUME Typed, NEW c \in Chains, NEW k \in Chains, NEW i \in Detectors, NEW j \in Detectors,
         EndsSingle(c, i) \/ \E new \in AlertType : Bundles(c, i, new),
         EndsSingle(k, j) \/ \E new \in AlertType : Bundles(k, j, new)
  PROVE  c = k
<1>1. chain \in [Chains -> LiveChain] /\ chain[k].pc = "return"
  BY DEF Typed, TypeOfChains, EndsSingle, Bundles, Ends, Remembers
<1>2. \E x : chain' = [chain EXCEPT ![c] = x]
  BY DEF EndsSingle, Bundles, Ends
<1>3. chain'[k] = Idle \/ chain'[k] = Emitting(stored', now)
  BY <1>1 DEF EndsSingle, Bundles, Ends
<1>4. chain'[k].pc # "return"
  BY <1>3 DEF Idle, Emitting
<1> QED
  BY <1>1, <1>2, <1>4

(* What failed is not forgotten, across restarts too.                      *)
LEMMA LapsedStays == ASSUME Typed, [Next]_vars PROVE lapsed \subseteq lapsed'
BY StepForms
DEF Waits, memVars, Restart, Raises, Notifies, EndsUnheard, EndsBundle, EndsSingle, Bundles

LEMMA ChainedStep == Typed /\ Bookkeeping /\ Remembered /\ Announced /\ Chained /\ [Next]_vars => Chained'
<1> SUFFICES ASSUME Typed, Bookkeeping, Remembered, Announced, Chained, [Next]_vars, restarts' = 0,
                    NEW a \in Alerts, NEW b \in Alerts, NEW e \in Entities, NEW i \in Detectors, NEW j \in Detectors,
                    NEW t \in Int, NEW u \in Int,
                    Out(a, e, i, t)', Out(b, e, j, u)', i # j, t <= u, u - t <= CorrelationWindow
             PROVE  (\E x \in Alerts : Covers(x, e, u)') \/ Lapsed(a, b, t, u)'
  BY DEF Chained
<1> USE ChainNumbers
<1>1. restarts = 0
  BY RestartsStep
<1>2. CASE Out(a, e, i, t) /\ Out(b, e, j, u)
  <2>1. (\E x \in Alerts : Covers(x, e, u)) \/ Lapsed(a, b, t, u)
    BY <1>1, <1>2 DEF Chained
  <2>2. ASSUME NEW x \in Alerts, Covers(x, e, u) PROVE Covers(x, e, u)'
    BY <2>2, BundlesStay DEF Covers
  <2>3. Lapsed(a, b, t, u) => Lapsed(a, b, t, u)'
    BY LapsedStays DEF Lapsed
  <2> QED
    BY <2>1, <2>2, <2>3
(* One of the two is published in this step, so this step is a publication  *)
(* on e, now, and the other is remembered.                                 *)
<1>3. ASSUME NEW x \in Alerts, NEW k \in Detectors, NEW v \in Int, Out(x, e, k, v)', ~Out(x, e, k, v)
      PROVE  \E c \in Chains : /\ Remembers(c, k) /\ e = alerts[chain[c].alert].entity /\ v = now /\ now' = now
                               /\ EndsSingle(c, k) \/ \E new \in AlertType : Bundles(c, k, new)
                               /\ x = chain[c].alert
  <2>1. PICK c \in Chains, d \in Detectors :
              /\ Remembers(c, d) /\ x = chain[c].alert
              /\ EndsSingle(c, d) \/ \E new \in AlertType : Bundles(c, d, new)
              /\ \A m, n, w : Out(x, m, n, w)' <=> m = alerts[x].entity /\ n = d /\ w = now
    BY <1>3, OutMoves
  <2>2. e = alerts[x].entity /\ k = d /\ v = now
    BY <1>3, <2>1
  <2> QED
    BY <2>1, <2>2 DEF Remembers
<1>4. ASSUME NEW x \in Alerts, NEW k \in Detectors, NEW v \in Int, Out(x, e, k, v), v >= now - CorrelationWindow,
             NEW d \in Detectors
      PROVE  k \in Names(Heard(e, d))
  <2>1. [at |-> v, detector |-> k] \in recent[e]
    BY <1>1, <1>4 DEF Remembered
  <2>2. [at |-> v, detector |-> k] \in Heard(e, d)
    BY <1>4, <2>1 DEF Heard
  <2>3. [at |-> v, detector |-> k].detector = k
    OBVIOUS
  <2> QED
    BY <2>2, <2>3 DEF Names
<1>5. ASSUME NEW d \in Detectors PROVE d \in Names(Heard(e, d))
  <2>1. [at |-> now, detector |-> d] \in Heard(e, d)
    BY DEF Heard
  <2>2. [at |-> now, detector |-> d].detector = d
    OBVIOUS
  <2> QED
    BY <2>1, <2>2 DEF Names
<1>6. CASE ~Out(b, e, j, u)
  <2>1. PICK c \in Chains : /\ Remembers(c, j) /\ e = alerts[chain[c].alert].entity /\ u = now
                            /\ EndsSingle(c, j) \/ \E new \in AlertType : Bundles(c, j, new)
                            /\ b = chain[c].alert
    BY <1>3, <1>6
  <2>2. Out(a, e, i, t)
    <3> SUFFICES ASSUME ~Out(a, e, i, t) PROVE FALSE
      OBVIOUS
    <3>1. PICK k \in Chains : /\ Remembers(k, i) /\ a = chain[k].alert
                              /\ EndsSingle(k, i) \/ \E new \in AlertType : Bundles(k, i, new)
      BY <1>3
    <3>2. k = c
      BY <2>1, <3>1, OnePublishes
    <3>3. alerts[a].kind = "single" /\ i \in alerts[a].detectors /\ j \in alerts[a].detectors
      BY <2>1, <3>1, <3>2 DEF Remembers
    <3> QED
      BY <3>3 DEF Bookkeeping, Filed
  <2>3. i \in Names(Heard(e, j)) /\ j \in Names(Heard(e, j))
    BY <1>4, <1>5, <2>1, <2>2
  <2> QED
    BY <2>1, <2>3, ChainPublishes DEF Lapsed
<1>7. CASE ~Out(a, e, i, t) /\ Out(b, e, j, u)
  <2>1. PICK c \in Chains : /\ Remembers(c, i) /\ e = alerts[chain[c].alert].entity /\ t = now
                            /\ EndsSingle(c, i) \/ \E new \in AlertType : Bundles(c, i, new)
                            /\ a = chain[c].alert
    BY <1>3, <1>7
  <2>2. u <= now
    BY <1>7 DEF Out, Bookkeeping, Filed
  <2>3. u = now
    BY <2>1, <2>2
  <2>4. i \in Names(Heard(e, i)) /\ j \in Names(Heard(e, i))
    BY <1>4, <1>5, <1>7, <2>3
  <2> QED
    BY <2>1, <2>3, <2>4, ChainPublishes DEF Lapsed
<1> QED
  BY <1>2, <1>6, <1>7

KillChain == Typed /\ Bookkeeping /\ Remembered /\ Announced /\ Chained

LEMMA KillChainInit == Init => KillChain
<1> SUFFICES ASSUME Init PROVE Remembered /\ Announced /\ Chained
  BY TypedInit, BookkeepingInit DEF KillChain
<1>1. \A a \in Alerts : \A e, d, t : ~Out(a, e, d, t)
  BY DEF Init, NoAlert, Out
<1>2. \A e \in Entities : correlatedUntil[e] = Never
  BY DEF Init
<1> QED
  BY <1>1, <1>2 DEF Remembered, Announced, Chained

LEMMA KillChainStep == KillChain /\ [Next]_vars => KillChain'
BY TypedStep, BookkeepingStep, RememberedStep, AnnouncedStep, ChainedStep DEF KillChain

(* Two detectors whose alerts on one entity are published within the window *)
(* are bundled, for any number of detectors and whichever chains carried    *)
(* them, until a restart empties the buffer, unless the enrichment or the   *)
(* write of that bundle failed: each publication is remembered in the step  *)
(* that makes it, and an entity is quiet only for a window after a bundle   *)
(* of its own.                                                             *)
THEOREM KillChainIsBundled == Spec => []KillChainBundled
<1>1. KillChain => KillChainBundled
  <2> SUFFICES ASSUME KillChain, restarts = 0, NEW a \in Stored("single"), NEW b \in Stored("single"),
                      alerts[a].entity = alerts[b].entity, alerts[a].detectors # alerts[b].detectors,
                      alerts[a].fate = "published", alerts[b].fate = "published",
                      alerts[a].when <= alerts[b].when, alerts[b].when - alerts[a].when <= CorrelationWindow
               PROVE  \/ \E x \in Stored("bundle") : /\ alerts[x].entity = alerts[a].entity
                                                     /\ alerts[x].at <= alerts[b].when
                                                     /\ alerts[b].when - alerts[x].at <= CorrelationWindow
                      \/ b \in lapsed
                      \/ a \in lapsed /\ alerts[a].when = alerts[b].when
    BY DEF KillChainBundled
  <2>1. a \in Alerts /\ b \in Alerts /\ alerts[a].kind = "single" /\ alerts[b].kind = "single"
    BY DEF Stored
  <2>2. PICK i \in Detectors, j \in Detectors : alerts[a].detectors = {i} /\ alerts[b].detectors = {j}
    BY <2>1 DEF KillChain, Bookkeeping, Filed
  <2>3. alerts[a].when \in Int /\ alerts[b].when \in Int /\ alerts[a].entity \in Entities
    BY <2>1, ChainNumbers DEF KillChain, Typed, TypeOfAlerts, AlertType
  <2>4. Out(a, alerts[a].entity, i, alerts[a].when) /\ Out(b, alerts[a].entity, j, alerts[b].when) /\ i # j
    BY <2>1, <2>2 DEF Out
  <2>5. \/ \E x \in Alerts : Covers(x, alerts[a].entity, alerts[b].when)
        \/ Lapsed(a, b, alerts[a].when, alerts[b].when)
    BY <2>1, <2>2, <2>3, <2>4 DEF KillChain, Chained
  <2> QED
    BY <2>5 DEF Covers, Stored, Lapsed
<1> QED
  BY <1>1, KillChainInit, KillChainStep, PTL DEF Spec

-----------------------------------------------------------------------------
(* Notifications.                                                          *)

RowsType == [Alerts -> [Users -> NoticeType]]

(* One step of a notification, as the rows it starts from and what becomes  *)
(* of the chain.                                                           *)
Tells(c, rows, next) ==
    LET a == chain[c].alert IN
    /\ rows = notices \/ (chain[c].pc = "send" /\ chain[c].sms /\ rows = Delivered(a, chain[c].user))
    /\ chain' = [chain EXCEPT ![c] = next] /\ next.alert = a
    /\ UNCHANGED <<now, alerts, stored>>
    /\ \/ next.pc = "return" /\ notices' = rows
       \/ \E v \in Users : /\ ~FindRecentDup(a, v) /\ notices' = Told(rows, a, v)
                           /\ next.pc \in {"send", "return"} /\ (next.pc = "send" => next.user = v)
                           /\ next.pc = "send" /\ next.sms => DailySmsCount(rows) < SmsCap

(* No other step writes a notice or begins a send.                         *)
Quiet == notices' = notices /\ \A k \in Chains : chain'[k].pc = "send" => chain'[k] = chain[k]

LEMMA NoticeForms ==
  ASSUME Typed, [Next]_vars
  PROVE  Quiet \/ \E c \in Chains : chain[c].alert \in Alerts
                                    /\ \E rows \in RowsType, next \in LiveChain : Tells(c, rows, next)
<1>1. TypeOfNotices /\ TypeOfChains /\ chain \in [Chains -> LiveChain]
  BY DEF Typed, TypeOfChains
<1>2. ASSUME NEW c \in Chains, NEW next, next.pc # "send", chain' = [chain EXCEPT ![c] = next], notices' = notices
      PROVE  Quiet
  BY <1>1, <1>2 DEF Quiet
<1>3. CASE Waits
  BY <1>3 DEF Waits, dbVars, Quiet
<1>4. CASE Restart
  BY <1>4 DEF Restart, dbVars, Quiet, Idle
<1>5. ASSUME NEW c \in Chains, NEW next \in LiveChain, Notifies(c, next)
      PROVE  chain[c].alert \in Alerts /\ \E rows \in RowsType, n \in LiveChain : Tells(c, rows, n)
  <2>1. chain[c].pc # "idle" /\ UNCHANGED <<now, alerts, stored>>
    BY <1>5 DEF Notifies
  <2>2. chain[c].alert \in Alerts
    BY <1>1, <2>1 DEF LiveChain
  <2>3. PICK rows \in RowsType : /\ \E u : DispatchFrom(c, chain[c].alert, u, rows)
                                /\ \/ rows = notices
                                   \/ /\ chain[c].pc = "send" /\ chain[c].sms
                                      /\ rows = Delivered(chain[c].alert, chain[c].user)
    <3>1. CASE Dispatch(c)
      <4>1. DispatchFrom(c, chain[c].alert, 0, notices) /\ notices \in RowsType
        BY <1>1, <3>1 DEF Dispatch, TypeOfNotices, RowsType
      <4> QED
        BY <4>1, Zenon
    <3>2. CASE \E ok \in BOOLEAN : SendDone(c, ok)
      <4>1. chain[c].pc = "send"
        BY <3>2 DEF SendDone
      <4> QED
        BY <1>1, <3>2, <4>1, SendRows, Zenon DEF RowsType
    <3> QED
      BY <1>5, <3>1, <3>2 DEF Notifies
  <2>4. PICK n \in LiveChain :
          /\ chain' = [chain EXCEPT ![c] = n]
          /\ n.alert = chain[c].alert
          /\ \/ n.pc = "return" /\ notices' = rows
             \/ \E v \in Users : /\ ~FindRecentDup(chain[c].alert, v) /\ notices' = Told(rows, chain[c].alert, v)
                                 /\ n.pc \in {"send", "return"} /\ (n.pc = "send" => n.user = v)
                                 /\ n.pc = "send" /\ n.sms => DailySmsCount(rows) < SmsCap
    BY <1>1, <2>1, <2>3, DispatchForms
  <2>5. Tells(c, rows, n)
    BY <2>1, <2>3, <2>4, Zenon DEF Tells
  <2> QED
    BY <2>2, <2>5
<1>6. ASSUME NEW c \in Chains, \/ \E new \in AlertType : Raises(c, new)
                               \/ \E d \in Detectors, new \in AlertType : Bundles(c, d, new)
      PROVE  Quiet
  <2>1. chain' = [chain EXCEPT ![c] = Emitting(stored', now)] /\ notices' = notices
    BY <1>6 DEF Raises, Bundles, Remembers
  <2> QED
    BY <1>2, <2>1, EmittingFields
<1>7. ASSUME NEW c \in Chains, Ends(c) PROVE Quiet
  BY <1>2, <1>7 DEF Ends, Idle
<1> QED
  BY <1>3, <1>4, <1>5, <1>6, <1>7, StepForms DEF EndsUnheard, EndsBundle, EndsSingle

(* A row that is replaced, and the rows beside it.                         *)
Replaced(rows, a, v, row) == [rows EXCEPT ![a] = [rows[a] EXCEPT ![v] = row]]

LEMMA ReplacedRow ==
  ASSUME NEW rows \in RowsType, NEW a \in Alerts, NEW v, NEW row
  PROVE  /\ v \in Users => Replaced(rows, a, v, row)[a][v] = row
         /\ \A x \in Alerts, w \in Users : x # a \/ w # v => Replaced(rows, a, v, row)[x][w] = rows[x][w]
<1> DEFINE r == Replaced(rows, a, v, row)
<1>1. rows[a] \in [Users -> NoticeType]
  BY DEF RowsType
<1>2. r[a] = [rows[a] EXCEPT ![v] = row] /\ \A x \in Alerts : x # a => r[x] = rows[x]
  BY DEF RowsType, Replaced
<1>3. v \in Users => [rows[a] EXCEPT ![v] = row][v] = row
  BY <1>1
<1>4. \A w \in Users : w # v => [rows[a] EXCEPT ![v] = row][w] = rows[a][w]
  BY <1>1
<1> HIDE DEF r
<1>5. /\ v \in Users => r[a][v] = row
      /\ \A x \in Alerts, w \in Users : x # a \/ w # v => r[x][w] = rows[x][w]
  BY <1>2, <1>3, <1>4
<1> QED
  BY <1>5 DEF r

(* Telling and delivering, row by row.                                     *)
LEMMA ToldRows ==
  ASSUME NEW rows \in RowsType, NEW a \in Alerts, NEW v \in Users
  PROVE  /\ Told(rows, a, v)[a][v].sms = "unsent" /\ Told(rows, a, v)[a][v].at = now
         /\ \A x \in Alerts, w \in Users : x # a \/ w # v => Told(rows, a, v)[x][w] = rows[x][w]
<1> DEFINE row == [sms |-> "unsent", at |-> now]
<1>1. row.sms = "unsent" /\ row.at = now
  OBVIOUS
<1>2. Told(rows, a, v) = Replaced(rows, a, v, row)
  BY DEF Told, Replaced
<1> HIDE DEF row
<1> QED
  BY <1>1, <1>2, ReplacedRow

LEMMA DeliveredRows ==
  ASSUME TypeOfNotices, NEW a \in Alerts, NEW u
  PROVE  /\ \A x \in Alerts, w \in Users : x # a \/ w # u => Delivered(a, u)[x][w] = notices[x][w]
         /\ u \in Users => Delivered(a, u)[a][u].sms = "sent" /\ Delivered(a, u)[a][u].at = notices[a][u].at
<1> DEFINE row == [notices[a][u] EXCEPT !.sms = "sent"]
<1>1. u \in Users => row.sms = "sent" /\ row.at = notices[a][u].at
  BY DEF TypeOfNotices, NoticeType
<1>2. Delivered(a, u) = Replaced(notices, a, u, row)
  BY DEF Delivered, Replaced
<1>3. notices \in RowsType
  BY DEF TypeOfNotices, RowsType
<1> HIDE DEF row
<1> QED
  BY <1>1, <1>2, <1>3, ReplacedRow

(* What a user was told of is in the books, and told before now; a send     *)
(* under way is of a notice that was written.                              *)
Noted ==
    /\ \A a \in Alerts, u \in Users : notices[a][u].sms # "none" => a <= stored /\ notices[a][u].at <= now
    /\ \A c \in Chains : chain[c].pc = "send" =>
          chain[c].user \in Users /\ notices[chain[c].alert][chain[c].user].sms # "none"

(* The rows that a telling starts from tell what the notices told.          *)
LEMMA SameTold ==
  ASSUME Typed, Noted, NEW c \in Chains, chain[c].alert \in Alerts, NEW rows \in RowsType, NEW next, Tells(c, rows, next)
  PROVE  \A x \in Alerts, w \in Users : /\ rows[x][w].at = notices[x][w].at
                                        /\ rows[x][w].sms # "none" <=> notices[x][w].sms # "none"
<1>1. TypeOfNotices
  BY DEF Typed
<1>2. CASE rows = notices
  BY <1>2
<1>3. CASE chain[c].pc = "send" /\ rows = Delivered(chain[c].alert, chain[c].user)
  <2>1. chain[c].user \in Users /\ notices[chain[c].alert][chain[c].user].sms # "none"
    BY <1>3 DEF Noted
  <2> QED
    BY <1>1, <1>3, <2>1, DeliveredRows
<1> QED
  BY <1>2, <1>3 DEF Tells

LEMMA NotedStep == Typed /\ Bookkeeping /\ Noted /\ [Next]_vars => Noted'
<1> SUFFICES ASSUME Typed, Bookkeeping, Noted, [Next]_vars PROVE Noted'
  OBVIOUS
<1> USE ChainNumbers
<1>1. /\ TypeOfNotices /\ TypeOfNotices' /\ TypeOfChains /\ chain \in [Chains -> LiveChain] /\ Typed'
      /\ \A x \in Alerts, w \in Users : notices[x][w].at \in Nat
  BY TypedStep DEF Typed, TypeOfChains, TypeOfNotices, NoticeType, Times
<1>2. now' >= now /\ now' \in Nat /\ stored' >= stored /\ stored' \in Nat
  <2>1. stored' >= stored
    BY StepForms
    DEF Waits, dbVars, Restart, Raises, Notifies, Ends, EndsUnheard, EndsBundle, EndsSingle, Bundles
  <2> QED
    BY <1>1, <2>1, AlertsMove DEF Typed, TypeOfAlerts, Times
<1>3. CASE Quiet
  <2>1. \A a \in Alerts, u \in Users : notices'[a][u].sms # "none" => a <= stored' /\ notices'[a][u].at <= now'
    BY <1>1, <1>2, <1>3 DEF Quiet, Noted
  <2>2. \A c \in Chains : chain'[c].pc = "send" =>
           chain'[c].user \in Users /\ notices'[chain'[c].alert][chain'[c].user].sms # "none"
    BY <1>3 DEF Quiet, Noted
  <2> QED
    BY <2>1, <2>2 DEF Noted
<1>4. ASSUME NEW c \in Chains, chain[c].alert \in Alerts, NEW rows \in RowsType, NEW next \in LiveChain, Tells(c, rows, next)
      PROVE  Noted'
  <2> DEFINE a == chain[c].alert
  <2>1. /\ chain' = [chain EXCEPT ![c] = next] /\ next.alert = a /\ now' = now /\ stored' = stored
        /\ a <= stored
    <3>1. chain[c].pc # "idle"
      BY <1>4 DEF Bookkeeping, Carrying
    <3> QED
      BY <1>4, <3>1 DEF Tells, Bookkeeping, Carrying
  <2>2. \A x \in Alerts, w \in Users : /\ rows[x][w].at = notices[x][w].at
                                       /\ rows[x][w].sms # "none" <=> notices[x][w].sms # "none"
    BY <1>4, SameTold
  <2>3. CASE next.pc = "return" /\ notices' = rows
    BY <1>1, <2>1, <2>2, <2>3 DEF Noted, TypeOfChains, LiveChain
  <2>4. ASSUME NEW v \in Users, notices' = Told(rows, a, v), next.pc = "send" => next.user = v PROVE Noted'
    <3>1. /\ notices'[a][v].sms = "unsent" /\ notices'[a][v].at = now
          /\ \A x \in Alerts, w \in Users : x # a \/ w # v => notices'[x][w] = rows[x][w]
      BY <1>4, <2>4, ToldRows
    <3>2. \A x \in Alerts, w \in Users : notices'[x][w].sms # "none" => x <= stored' /\ notices'[x][w].at <= now'
      BY <2>1, <2>2, <3>1 DEF Noted
    <3>3. \A x \in Alerts, w \in Users : notices[x][w].sms # "none" => notices'[x][w].sms # "none"
      BY <2>2, <3>1
    <3>4. ASSUME NEW k \in Chains, chain'[k].pc = "send"
          PROVE  chain'[k].user \in Users /\ notices'[chain'[k].alert][chain'[k].user].sms # "none"
      <4>1. CASE k = c
        <5>1. next.pc = "send" /\ chain'[k] = next
          BY <1>1, <2>1, <3>4, <4>1
        <5> QED
          BY <2>1, <2>4, <3>1, <5>1
      <4>2. CASE k # c
        <5>1. chain'[k] = chain[k]
          BY <1>1, <2>1, <4>2
        <5> QED
          BY <1>1, <3>3, <3>4, <5>1 DEF Noted
      <4> QED
        BY <4>1, <4>2
    <3> QED
      BY <3>2, <3>4 DEF Noted
  <2> QED
    BY <1>4, <2>3, <2>4 DEF Tells
<1> QED
  BY <1>3, <1>4, NoticeForms

LEMMA NotedInit == Init => Noted /\ OneNoticePerWindow
<1> SUFFICES ASSUME Init PROVE Noted /\ OneNoticePerWindow
  OBVIOUS
<1>1. \A a \in Alerts, u \in Users : notices[a][u].sms = "none"
  BY DEF Init, NoNotice
<1>2. \A c \in Chains : chain[c].pc = "idle"
  BY DEF Init, Idle
<1> QED
  BY <1>1, <1>2 DEF Noted, OneNoticePerWindow

(* What a stored alert is about stays.                                     *)
LEMMA KeyStays ==
  ASSUME Typed, Bookkeeping, [Next]_vars, NEW a \in Alerts, a <= stored
  PROVE  Key(a)' = Key(a)
<1>1. SameAlert(alerts'[a], alerts[a])
  BY RowsMove, ChainNumbers
<1> QED
  BY <1>1 DEF Key, SameAlert

LEMMA OneNoticeStep == Typed /\ Bookkeeping /\ Noted /\ OneNoticePerWindow /\ [Next]_vars => OneNoticePerWindow'
<1> SUFFICES ASSUME Typed, Bookkeeping, Noted, OneNoticePerWindow, [Next]_vars,
                    NEW u \in Users, NEW a \in Alerts, NEW b \in Alerts, a # b, Key(a)' = Key(b)',
                    notices'[a][u].sms # "none", notices'[b][u].sms # "none"
             PROVE  \/ notices'[a][u].at - notices'[b][u].at > NoticeWindow
                    \/ notices'[b][u].at - notices'[a][u].at > NoticeWindow
  BY DEF OneNoticePerWindow
<1> USE ChainNumbers
<1>1. /\ \A x \in Alerts, w \in Users : notices[x][w].at \in Nat
      /\ NoticeWindow \in Nat
  BY WindowsAssumption DEF Typed, TypeOfNotices, NoticeType, Times
(* Two notices that were there already.                                    *)
<1>2. ASSUME NEW x \in Alerts, NEW y \in Alerts, x # y, Key(x)' = Key(y)',
             notices[x][u].sms # "none", notices[y][u].sms # "none"
      PROVE  notices[x][u].at - notices[y][u].at > NoticeWindow \/ notices[y][u].at - notices[x][u].at > NoticeWindow
  <2>1. x <= stored /\ y <= stored
    BY <1>2 DEF Noted
  <2>2. Key(x) = Key(y)
    BY <1>2, <2>1, KeyStays
  <2> QED
    BY <1>2, <2>2 DEF OneNoticePerWindow
<1>3. CASE Quiet
  BY <1>2, <1>3 DEF Quiet
<1>4. ASSUME NEW c \in Chains, chain[c].alert \in Alerts, NEW rows \in RowsType, NEW next \in LiveChain, Tells(c, rows, next)
      PROVE  notices'[a][u].at - notices'[b][u].at > NoticeWindow \/ notices'[b][u].at - notices'[a][u].at > NoticeWindow
  <2>1. PICK t \in Alerts : t = chain[c].alert
    BY <1>4
  <2>2. \A x \in Alerts, w \in Users : /\ rows[x][w].at = notices[x][w].at
                                       /\ rows[x][w].sms # "none" <=> notices[x][w].sms # "none"
    BY <1>4, SameTold
  <2>3. CASE notices' = rows
    BY <1>2, <2>2, <2>3
  <2>4. ASSUME NEW v \in Users, ~FindRecentDup(t, v), notices' = Told(rows, t, v)
        PROVE  notices'[a][u].at - notices'[b][u].at > NoticeWindow \/ notices'[b][u].at - notices'[a][u].at > NoticeWindow
    <3>1. /\ notices'[t][v].at = now
          /\ \A x \in Alerts, w \in Users : x # t \/ w # v => notices'[x][w] = rows[x][w]
      BY <1>4, <2>4, ToldRows
    (* The other notice is older than the window.                          *)
    <3>2. ASSUME NEW y \in Alerts, y # t, Key(y)' = Key(t)', u = v, notices'[y][u].sms # "none"
          PROVE  notices'[t][u].at - notices'[y][u].at > NoticeWindow
      <4>1. notices'[y][u] = rows[y][u] /\ notices[y][u].sms # "none" /\ notices'[y][u].at = notices[y][u].at
        BY <2>2, <3>1, <3>2
      <4>2. Key(y) = Key(t)
        BY <1>4, <3>2 DEF Key, Tells
      <4>3. ~(notices[y][u].at >= now - NoticeWindow)
        BY <2>4, <3>2, <4>1, <4>2 DEF FindRecentDup
      <4>4. now - notices[y][u].at > NoticeWindow
        BY <1>1, <4>3
      <4>5. notices'[t][u].at = now
        BY <3>1, <3>2
      <4> QED
        BY <4>1, <4>4, <4>5
    <3>3. CASE u = v /\ a = t
      BY <3>2, <3>3
    <3>4. CASE u = v /\ b = t
      BY <3>2, <3>4
    <3>5. CASE u # v \/ (a # t /\ b # t)
      <4>1. notices'[a][u] = rows[a][u] /\ notices'[b][u] = rows[b][u]
        BY <3>1, <3>5
      <4> QED
        BY <1>2, <2>2, <4>1
    <3> QED
      BY <3>3, <3>4, <3>5
  <2> QED
    BY <1>4, <2>1, <2>3, <2>4 DEF Tells
<1> QED
  BY <1>3, <1>4, NoticeForms

(* However the dispatches of the chains interleave, a user hears of the     *)
(* same entity and detectors once per window, after a restart too: the row  *)
(* is written before the first await, and what it is about never changes.   *)
THEOREM NoticesApart == Spec => []OneNoticePerWindow
BY TypedInit, TypedStep, BookkeepingInit, BookkeepingStep, NotedInit, NotedStep, OneNoticeStep, PTL DEF Spec

-----------------------------------------------------------------------------
(* The daily cap: a message that was found room for and is not counted yet  *)
(* is in the air, and each chain has one at most.                          *)

SentRows(rows) == {x \in Alerts \X Users : rows[x[1]][x[2]].sms = "sent"}
InTheAir == {c \in Chains : chain[c].pc = "send" /\ chain[c].sms}

Capped == Cardinality(SentRows(notices)) + Cardinality(InTheAir) <= SmsCap + Cardinality(Chains) - 1

LEMMA FiniteRows ==
  /\ IsFiniteSet(Alerts \X Users) /\ IsFiniteSet(Chains)
  /\ \A rows : IsFiniteSet(SentRows(rows)) /\ Cardinality(SentRows(rows)) \in Nat
  /\ \A S \in SUBSET Chains : IsFiniteSet(S) /\ Cardinality(S) \in Nat /\ Cardinality(S) <= Cardinality(Chains)
  /\ Cardinality(Chains) \in Nat /\ Cardinality(Chains) >= 1
<1>1. IsFiniteSet(Alerts) /\ IsFiniteSet(Users) /\ IsFiniteSet(Chains)
  BY FS_Interval, WindowsAssumption DEF Alerts, Users
<1>2. IsFiniteSet(Alerts \X Users)
  BY <1>1, FS_Product
<1>3. ASSUME NEW rows PROVE IsFiniteSet(SentRows(rows)) /\ Cardinality(SentRows(rows)) \in Nat
  <2>1. SentRows(rows) \in SUBSET (Alerts \X Users)
    BY DEF SentRows
  <2> QED
    BY <1>2, <2>1, FS_Subset, FS_CardinalityType
<1>4. ASSUME NEW S \in SUBSET Chains
      PROVE  IsFiniteSet(S) /\ Cardinality(S) \in Nat /\ Cardinality(S) <= Cardinality(Chains)
  BY <1>1, FS_Subset, FS_CardinalityType
<1>5. Cardinality(Chains) \in Nat /\ Cardinality(Chains) # 0
  BY <1>1, FS_CardinalityType, FS_EmptySet, WindowsAssumption
<1> QED
  BY <1>1, <1>2, <1>3, <1>4, <1>5

LEMMA FewerSent ==
  ASSUME NEW S, NEW T, IsFiniteSet(T), S \subseteq T PROVE Cardinality(S) <= Cardinality(T)
BY FS_Subset

LEMMA CappedInit == Init => Capped
<1> SUFFICES ASSUME Init PROVE Capped
  OBVIOUS
<1>1. SentRows(notices) = {}
  BY DEF Init, NoNotice, SentRows
<1>2. InTheAir = {}
  BY DEF Init, Idle, InTheAir
<1> QED
  BY <1>1, <1>2, FS_EmptySet, FiniteRows, WindowsAssumption DEF Capped

LEMMA CappedStep == Typed /\ Capped /\ [Next]_vars => Capped'
<1> SUFFICES ASSUME Typed, Capped, [Next]_vars PROVE Capped'
  OBVIOUS
<1>1. /\ Cardinality(SentRows(notices)) \in Nat /\ Cardinality(SentRows(notices')) \in Nat
      /\ IsFiniteSet(InTheAir) /\ IsFiniteSet(InTheAir') /\ Cardinality(InTheAir) \in Nat /\ Cardinality(InTheAir') \in Nat
      /\ Cardinality(InTheAir') <= Cardinality(Chains) /\ Cardinality(Chains) \in Nat /\ SmsCap \in Nat
  <2>1. InTheAir \in SUBSET Chains /\ InTheAir' \in SUBSET Chains
    BY DEF InTheAir
  <2> QED
    BY <2>1, FiniteRows, WindowsAssumption
<1>2. TypeOfNotices /\ chain \in [Chains -> LiveChain]
  BY DEF Typed, TypeOfChains
<1>3. CASE Quiet
  <2>1. SentRows(notices') = SentRows(notices)
    BY <1>3 DEF Quiet
  <2>2. InTheAir' \subseteq InTheAir
    BY <1>3 DEF Quiet, InTheAir
  <2>3. Cardinality(InTheAir') <= Cardinality(InTheAir)
    BY <1>1, <2>2, FewerSent
  <2> QED
    BY <1>1, <2>1, <2>3 DEF Capped
<1>4. ASSUME NEW c \in Chains, chain[c].alert \in Alerts, NEW rows \in RowsType, NEW next \in LiveChain, Tells(c, rows, next)
      PROVE  Capped'
  <2> DEFINE a == chain[c].alert
             sent == SentRows(notices)
             later == SentRows(rows)
  <2>1. chain' = [chain EXCEPT ![c] = next]
    BY <1>4 DEF Tells
  (* Telling a user is not counted.                                        *)
  <2>2. SentRows(notices') \subseteq later
    <3>1. CASE notices' = rows
      BY <3>1
    <3>2. ASSUME NEW v \in Users, notices' = Told(rows, a, v) PROVE SentRows(notices') \subseteq later
      <4>1. /\ notices'[a][v].sms = "unsent"
            /\ \A x \in Alerts, w \in Users : x # a \/ w # v => notices'[x][w] = rows[x][w]
        BY <1>4, <3>2, ToldRows
      <4> QED
        BY <4>1 DEF SentRows
    <3> QED
      BY <1>4, <3>1, <3>2 DEF Tells
  <2>3. /\ Cardinality(SentRows(notices')) <= Cardinality(later) /\ Cardinality(later) \in Nat
    BY <2>2, FewerSent, FiniteRows
  (* What is delivered comes down, and is counted.                         *)
  <2>4. Cardinality(later) + Cardinality(InTheAir \ {c}) <= Cardinality(sent) + Cardinality(InTheAir)
    <3>1. /\ IsFiniteSet(InTheAir \ {c}) /\ Cardinality(InTheAir \ {c}) \in Nat
          /\ Cardinality(InTheAir \ {c}) = IF c \in InTheAir THEN Cardinality(InTheAir) - 1 ELSE Cardinality(InTheAir)
      BY <1>1, FS_RemoveElement, FS_CardinalityType
    <3>2. CASE rows = notices
      BY <1>1, <3>1, <3>2
    <3>3. CASE chain[c].pc = "send" /\ chain[c].sms /\ rows = Delivered(a, chain[c].user)
      <4>1. c \in InTheAir
        BY <3>3, Zenon DEF InTheAir
      <4>2. later \subseteq sent \cup {<<a, chain[c].user>>}
        BY <1>2, <1>4, <3>3, DeliveredRows DEF SentRows
      <4>3. IsFiniteSet(sent)
        BY FiniteRows
      <4>4. /\ IsFiniteSet(sent \cup {<<a, chain[c].user>>})
            /\ Cardinality(sent \cup {<<a, chain[c].user>>}) \in Nat
            /\ Cardinality(sent \cup {<<a, chain[c].user>>}) <= Cardinality(sent) + 1
        <5> HIDE DEF sent
        <5> DEFINE x == <<a, chain[c].user>>
        <5> HIDE DEF x
        <5>1. /\ IsFiniteSet(sent \cup {x})
              /\ Cardinality(sent \cup {x}) = IF x \in sent THEN Cardinality(sent) ELSE Cardinality(sent) + 1
          BY <4>3, FS_AddElement
        <5>2. Cardinality(sent) \in Nat
          BY <4>3, FS_CardinalityType
        <5> QED
          BY <5>1, <5>2 DEF x
      <4>5. Cardinality(later) <= Cardinality(sent \cup {<<a, chain[c].user>>})
        BY <4>2, <4>4, FewerSent
      <4> QED
        BY <1>1, <2>3, <3>1, <4>1, <4>4, <4>5
    <3> QED
      BY <1>4, <3>2, <3>3, Zenon DEF Tells
  (* Room under the cap was found before the message went up.              *)
  <2>5. CASE next.pc = "send" /\ next.sms
    <3>1. DailySmsCount(rows) < SmsCap
      BY <1>4, <2>5, Zenon DEF Tells
    <3>2. Cardinality(later) < SmsCap
      BY <3>1 DEF DailySmsCount, SentRows
    <3> QED
      BY <1>1, <2>3, <3>2 DEF Capped
  <2>6. CASE ~(next.pc = "send" /\ next.sms)
    <3>1. InTheAir' \subseteq InTheAir \ {c}
      <4>1. ASSUME NEW k \in InTheAir' PROVE k \in InTheAir \ {c}
        <5>1. k \in Chains /\ chain'[k].pc = "send" /\ chain'[k].sms
          BY Zenon DEF InTheAir
        <5>2. k # c
          BY <1>2, <2>1, <2>6, <5>1
        <5>3. chain'[k] = chain[k]
          BY <1>2, <2>1, <5>1, <5>2
        <5> QED
          BY <5>1, <5>2, <5>3, Zenon DEF InTheAir
      <4> QED
        BY <4>1
    <3>2. IsFiniteSet(InTheAir \ {c}) /\ Cardinality(InTheAir \ {c}) \in Nat
      BY <1>1, FS_RemoveElement, FS_CardinalityType
    <3>3. Cardinality(InTheAir') <= Cardinality(InTheAir \ {c})
      BY <3>1, <3>2, FewerSent
    <3> QED
      BY <1>1, <2>3, <2>4, <3>2, <3>3 DEF Capped
  <2> QED
    BY <2>5, <2>6
<1> QED
  BY <1>3, <1>4, NoticeForms

(* The daily cap is passed by the messages of the other dispatches under    *)
(* way at most, however many users, alerts and chains there are.            *)
THEOREM SmsWithinBound == Spec => []SmsBounded
<1>1. Capped => SmsBounded
  <2>1. InTheAir \in SUBSET Chains
    BY DEF InTheAir
  <2>2. Cardinality(InTheAir) \in Nat /\ Cardinality(SentRows(notices)) \in Nat /\ Cardinality(Chains) \in Nat
    BY <2>1, FiniteRows
  <2>3. DailySmsCount(notices) = Cardinality(SentRows(notices))
    BY DEF DailySmsCount, SentRows
  <2> QED
    BY <2>2, <2>3, WindowsAssumption DEF Capped, SmsBounded
<1> QED
  BY <1>1, TypedInit, TypedStep, CappedInit, CappedStep, PTL DEF Spec
=============================================================================
