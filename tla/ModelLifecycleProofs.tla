------------------------ MODULE ModelLifecycleProofs ------------------------
(***************************************************************************)
(* Proofs about ModelLifecycle, for any number of versions, global models, *)
(* scores, refused versions and restarts: types, that only approved        *)
(* versions are pointed at or served, that the link and the detector agree  *)
(* unless a switch is disturbed, and that the store, the routes, the        *)
(* scheduler and the federation together implement ModelRelease.           *)
(***************************************************************************)
EXTENDS ModelLifecycle, TLAPS

-----------------------------------------------------------------------------
(* Types, of what is stored and of the activities.                         *)

TypeOfStore ==
    /\ status \in [Versions -> Statuses] /\ meta \in [Versions -> MetaType]
    /\ saved \in 0 .. MaxVersions
    /\ latest \in 0 .. MaxVersions /\ served \in 0 .. MaxVersions
    /\ published \in 0 .. MaxGlobal
    /\ approved \in SUBSET Versions /\ disturbed \in BOOLEAN
    /\ restarts \in 0 .. MaxRestarts

TypeOfActivities == loop \in LoopType /\ worker \in WorkerType /\ trainer \in TrainerType

LEMMA TypeParts == TypeOK <=> TypeOfStore /\ TypeOfActivities
BY DEF TypeOK, TypeOfStore, TypeOfActivities

LEMMA TypePartsNext == TypeOK' <=> TypeOfStore' /\ TypeOfActivities'
BY DEF TypeOK, TypeOfStore, TypeOfActivities

LEMMA VersionFacts ==
  /\ Versions \subseteq 0 .. MaxVersions /\ 0 \notin Versions
  /\ 0 \in 0 .. MaxVersions /\ 1 \in Versions
  /\ \A v \in 0 .. MaxVersions : v # 0 <=> v \in Versions
BY BoundsAssumption DEF Versions

LEMMA NoMetaType == NoMeta \in MetaType /\ ~NoMeta.soaked
BY BoundsAssumption DEF NoMeta, MetaType

LEMMA IdleTypes == LoopIdle \in LoopType /\ WorkerIdle \in WorkerType /\ TrainerIdle \in TrainerType
BY VersionFacts DEF LoopIdle, WorkerIdle, TrainerIdle, LoopType, WorkerType, TrainerType

LEMMA LoopMoves ==
  ASSUME TypeOfActivities
  PROVE  /\ loop.pc \in {"idle", "archive", "activate", "unlink", "link", "reload"}
         /\ loop.v \in 0 .. MaxVersions /\ loop.todo \in SUBSET Versions /\ loop.due \in SUBSET Versions
         /\ \A pc \in {"unlink", "link", "reload"} :
              LET next == [loop EXCEPT !.pc = pc] IN
              /\ next \in LoopType /\ next.pc = pc
              /\ next.v = loop.v /\ next.todo = loop.todo /\ next.due = loop.due
BY DEF TypeOfActivities, LoopType

LEMMA PromotionMoves ==
  ASSUME NEW v \in Versions, NEW todo \in SUBSET Versions, NEW due \in SUBSET Versions
  PROVE  LET next == Promotion(v, todo, due) IN
         /\ next \in LoopType /\ next.pc \in {"archive", "activate"}
         /\ next.v = v /\ next.todo = todo /\ next.due = due
BY VersionFacts DEF Promotion, LoopType

(* After a version, the loop is idle or at another that was due.           *)
LEMMA NextDueMoves ==
  ASSUME TypeOfStore, TypeOfActivities, NextDue
  PROVE  \/ loop' = LoopIdle
         \/ \E v \in loop.due : loop' = Promotion(v, Actives \ {v}, loop.due \ {v})
BY DEF NextDue

LEMMA NewVersion ==
  ASSUME TypeOfStore, NEW v, NEW s \in Statuses, NEW m \in MetaType, SaveModel(v, s, m)
  PROVE  /\ v \in Versions /\ v = saved + 1 /\ v > saved
         /\ saved' = v /\ saved' \in 0 .. MaxVersions
         /\ status' = [status EXCEPT ![v] = s] /\ status' \in [Versions -> Statuses]
         /\ meta' = [meta EXCEPT ![v] = m] /\ meta' \in [Versions -> MetaType]
<1>1. v \in Versions /\ v = saved + 1 /\ v > saved
  BY BoundsAssumption DEF SaveModel, TypeOfStore, Versions
<1> QED
  BY <1>1, VersionFacts DEF SaveModel, TypeOfStore

LEMMA SavedMeta ==
  /\ \A auc \in 1 .. MaxAuc, q \in BOOLEAN :
       /\ [auc |-> auc, global |-> 0, soaked |-> FALSE, quiet |-> ~q] \in MetaType
       /\ ~[auc |-> auc, global |-> 0, soaked |-> FALSE, quiet |-> ~q].soaked
  /\ \A auc \in 0 .. MaxAuc : /\ [NoMeta EXCEPT !.auc = auc] \in MetaType
                              /\ ~[NoMeta EXCEPT !.auc = auc].soaked
  /\ \A g \in 0 .. MaxGlobal : /\ [NoMeta EXCEPT !.global = g] \in MetaType
                               /\ ~[NoMeta EXCEPT !.global = g].soaked
<1>1. NoMeta \in MetaType /\ NoMeta.global = 0 /\ NoMeta.soaked = FALSE /\ NoMeta.quiet = FALSE /\ NoMeta.auc = 0
  BY NoMetaType DEF NoMeta
<1>2. ASSUME NEW auc \in 1 .. MaxAuc, NEW q \in BOOLEAN
      PROVE  /\ [auc |-> auc, global |-> 0, soaked |-> FALSE, quiet |-> ~q] \in MetaType
             /\ ~[auc |-> auc, global |-> 0, soaked |-> FALSE, quiet |-> ~q].soaked
  BY BoundsAssumption DEF MetaType
<1>3. ASSUME NEW auc \in 0 .. MaxAuc
      PROVE  [NoMeta EXCEPT !.auc = auc] \in MetaType /\ ~[NoMeta EXCEPT !.auc = auc].soaked
  BY <1>1 DEF MetaType
<1>4. ASSUME NEW g \in 0 .. MaxGlobal
      PROVE  [NoMeta EXCEPT !.global = g] \in MetaType /\ ~[NoMeta EXCEPT !.global = g].soaked
  BY <1>1 DEF MetaType
<1>5. 1 .. MaxAuc \subseteq 0 .. MaxAuc
  BY BoundsAssumption
<1> QED
  BY <1>2, <1>3, <1>4, <1>5

LEMMA TypeOKInit == Init => TypeOK
<1> SUFFICES ASSUME Init PROVE TypeOK
  OBVIOUS
<1>1. [NoMeta EXCEPT !.auc = MaxAuc] \in MetaType
  <2>1. MaxAuc \in 0 .. MaxAuc
    BY BoundsAssumption
  <2> QED
    BY <2>1, SavedMeta
<1>2. meta \in [Versions -> MetaType]
  BY <1>1, NoMetaType DEF Init
<1>3. TypeOfStore
  <2>1. /\ saved = 1 /\ latest = saved /\ served = saved /\ published = 0 /\ restarts = 0
        /\ status = [v \in Versions |-> IF v <= saved THEN "active" ELSE "none"]
        /\ approved = {v \in Versions : v <= saved} /\ disturbed = FALSE
    BY DEF Init
  <2>2. status \in [Versions -> Statuses] /\ approved \in SUBSET Versions
    BY <2>1 DEF Statuses
  <2>3. /\ saved \in 0 .. MaxVersions /\ latest \in 0 .. MaxVersions /\ served \in 0 .. MaxVersions
        /\ published \in 0 .. MaxGlobal /\ restarts \in 0 .. MaxRestarts
    BY <2>1, BoundsAssumption
  <2> QED
    BY <1>2, <2>1, <2>2, <2>3 DEF TypeOfStore
<1>4. TypeOfActivities
  BY IdleTypes DEF Init, TypeOfActivities
<1> QED
  BY <1>3, <1>4, TypeParts

-----------------------------------------------------------------------------
(* The inductive invariant.                                                *)

(* What may be pointed at: a version an operator or a finished soak chose.  *)
Chosen == approved \cup Soaked

(* Numbers not given out yet carry nothing.                                *)
Fresh == \A v \in Versions : v > saved => status[v] = "none" /\ v \notin Soaked

(* A promotion under way is of a chosen version that is there; what it has  *)
(* yet to archive is active, what it has yet to promote has soaked.        *)
Promoting ==
    loop.pc # "idle" =>
      /\ loop.v \in Chosen /\ Exists(loop.v)
      /\ loop.todo \subseteq Actives \ {loop.v}
      /\ \A v \in loop.due : v \in Soaked /\ Exists(v)

Retraining == worker.pc # "idle" => worker.v \in approved

Pointed == ({latest, served} \ {0}) \subseteq Chosen

(* The three places where a version is saved.                              *)
Saving == \/ \E auc \in 1 .. MaxAuc, reload \in BOOLEAN : WorkerSave(auc, reload)
          \/ \E auc \in 1 .. MaxAuc : TrainerSave(auc)
          \/ SyncGlobal

LEMMA SoakedVersions == Soaked \in SUBSET Versions /\ \A v \in Versions : v \in Soaked <=> meta[v].soaked
BY DEF Soaked

LEMMA SavedSoaked ==
  ASSUME TypeOfStore, Fresh, NEW v, NEW s \in Statuses, NEW m \in MetaType, ~m.soaked, SaveModel(v, s, m)
  PROVE  Soaked' = Soaked
<1>1. v \in Versions /\ v > saved /\ meta' = [meta EXCEPT ![v] = m] /\ meta' \in [Versions -> MetaType]
  BY NewVersion
<1>2. v \notin Soaked
  BY <1>1 DEF Fresh
<1>3. ~meta[v].soaked /\ ~meta'[v].soaked
  BY <1>1, <1>2 DEF Soaked, TypeOfStore
<1>4. \A u \in Versions : u # v => meta'[u] = meta[u]
  BY <1>1 DEF TypeOfStore
<1> QED
  BY <1>1, <1>3, <1>4 DEF Soaked

LEMMA Saves ==
  ASSUME TypeOfStore, Fresh, Saving
  PROVE  \E v \in Versions : \E s \in {"staged", "active"} :
            /\ v = saved + 1 /\ saved' = v /\ status[v] = "none"
            /\ status' = [status EXCEPT ![v] = s] /\ status' \in [Versions -> Statuses]
            /\ meta' \in [Versions -> MetaType] /\ saved' \in 0 .. MaxVersions
            /\ Soaked' = Soaked /\ approved \subseteq approved' /\ approved' \subseteq approved \cup {v}
            /\ s = "active" => v \in approved'
            /\ loop' = loop /\ latest' = latest /\ served' = served
<1>1. "staged" \in Statuses /\ "active" \in Statuses
  BY DEF Statuses
<1>2. CASE \E auc \in 1 .. MaxAuc, reload \in BOOLEAN : WorkerSave(auc, reload)
  <2>1. PICK auc \in 1 .. MaxAuc, reload \in BOOLEAN : WorkerSave(auc, reload)
    BY <1>2
  <2> DEFINE m == [auc |-> auc, global |-> 0, soaked |-> FALSE, quiet |-> ~reload]
  <2>2. m \in MetaType /\ ~m.soaked
    BY SavedMeta
  <2>3. SaveModel(saved + 1, "active", m)
    BY <2>1 DEF WorkerSave
  <2>4. approved' = approved \cup {saved + 1} /\ loop' = loop /\ latest' = latest /\ served' = served
    BY <2>1 DEF WorkerSave
  <2> HIDE DEF m
  <2> QED
    BY <1>1, <2>2, <2>3, <2>4, NewVersion, SavedSoaked DEF Fresh
<1>3. CASE \E auc \in 1 .. MaxAuc : TrainerSave(auc)
  <2>1. PICK auc \in 1 .. MaxAuc : TrainerSave(auc)
    BY <1>3
  <2> DEFINE m == [NoMeta EXCEPT !.auc = auc]
  <2>2. auc \in 0 .. MaxAuc
    BY BoundsAssumption
  <2>3. m \in MetaType /\ ~m.soaked
    BY <2>2, SavedMeta
  <2>4. SaveModel(saved + 1, "staged", m) /\ approved' = approved
    BY <2>1 DEF TrainerSave, historyVars
  <2>5. loop' = loop /\ latest' = latest /\ served' = served
    BY <2>1 DEF TrainerSave
  <2> HIDE DEF m
  <2> QED
    BY <1>1, <2>3, <2>4, <2>5, NewVersion, SavedSoaked DEF Fresh
<1>4. CASE SyncGlobal
  <2> DEFINE m == [NoMeta EXCEPT !.global = published]
  <2>1. published \in 0 .. MaxGlobal
    BY DEF TypeOfStore
  <2>2. m \in MetaType /\ ~m.soaked
    BY <2>1, SavedMeta
  <2>3. SaveModel(saved + 1, "staged", m) /\ approved' = approved
    BY <1>4 DEF SyncGlobal, historyVars
  <2>4. loop' = loop /\ latest' = latest /\ served' = served
    BY <1>4 DEF SyncGlobal
  <2> HIDE DEF m
  <2> QED
    BY <1>1, <2>2, <2>3, <2>4, NewVersion, SavedSoaked DEF Fresh
<1> QED
  BY <1>2, <1>3, <1>4 DEF Saving

(* A soak that ends adds its version to the chosen ones, and nothing else.  *)
LEMMA Soaks ==
  ASSUME TypeOfStore, NEW v \in Versions, Soak(v)
  PROVE  Soaked' = Soaked \cup {v} /\ meta' \in [Versions -> MetaType]
<1>1. meta[v] \in MetaType
  BY DEF TypeOfStore
<1>2. [meta[v] EXCEPT !.soaked = TRUE] \in MetaType /\ [meta[v] EXCEPT !.soaked = TRUE].soaked
  BY <1>1 DEF MetaType
<1>3. meta' = [meta EXCEPT ![v] = [meta[v] EXCEPT !.soaked = TRUE]]
  BY DEF Soak
<1>4. meta' \in [Versions -> MetaType] /\ meta'[v].soaked /\ \A u \in Versions : u # v => meta'[u] = meta[u]
  BY <1>2, <1>3 DEF TypeOfStore
<1> QED
  BY <1>4 DEF Soaked

-----------------------------------------------------------------------------
(* Types are preserved.                                                    *)

LEMMA TypeOfStoreStep == TypeOfStore /\ TypeOfActivities /\ Fresh /\ [Next]_vars => TypeOfStore'
<1> SUFFICES ASSUME TypeOfStore, TypeOfActivities, Fresh, [Next]_vars PROVE TypeOfStore'
  OBVIOUS
<1> USE VersionFacts
<1>1. CASE UNCHANGED <<diskVars, served, published, historyVars, restarts>>
  BY <1>1 DEF TypeOfStore, diskVars, historyVars
<1>2. CASE Saving
  <2>1. /\ status' \in [Versions -> Statuses] /\ meta' \in [Versions -> MetaType] /\ saved' \in 0 .. MaxVersions
        /\ latest' = latest /\ served' = served /\ approved' \in SUBSET Versions
    BY <1>2, Saves DEF TypeOfStore
  <2>2. published' = published /\ disturbed' \in BOOLEAN /\ restarts' = restarts
    BY <1>2 DEF Saving, WorkerSave, TrainerSave, SyncGlobal, Overlap, historyVars, TypeOfStore, LoopSwitch
  <2> QED
    BY <2>1, <2>2 DEF TypeOfStore
<1>3. CASE \E v \in Versions : Promote(v) \/ Rollback(v)
  BY <1>3 DEF Promote, Rollback, Overlap, TypeOfStore, diskVars
<1>4. CASE \E v \in Versions : Discard(v)
  BY <1>4 DEF Discard, TypeOfStore, Statuses, historyVars
<1>5. CASE \E S \in SUBSET Versions : Delete(S)
  BY <1>5 DEF Delete, TypeOfStore, Statuses, historyVars
<1>6. CASE LoopArchive
  BY <1>6 DEF LoopArchive, Overlap, TypeOfStore, Statuses
<1>7. CASE LoopActivate
  BY <1>7 DEF LoopActivate, Overlap, TypeOfStore, Statuses
<1>8. CASE LoopUnlink \/ WorkerUnlink
  BY <1>8 DEF LoopUnlink, WorkerUnlink, Unlink, Overlap, TypeOfStore
<1>9. CASE LoopLink \/ WorkerLink
  BY <1>9 DEF LoopLink, WorkerLink, Link, LinkExists, Overlap, TypeOfStore, TypeOfActivities, LoopType, WorkerType
<1>10. CASE LoopReload \/ WorkerReload
  BY <1>10 DEF LoopReload, WorkerReload, HotReload, Overlap, TypeOfStore, diskVars
<1>11. CASE MaybeDiscardRegression
  BY <1>11 DEF MaybeDiscardRegression, TypeOfStore, Statuses, historyVars
<1>12. CASE Publish
  BY <1>12, BoundsAssumption DEF Publish, TypeOfStore, diskVars, historyVars
<1>13. CASE \E v \in Versions : Soak(v)
  BY <1>13, Soaks DEF Soak, TypeOfStore, historyVars
<1>14. CASE PromoteDue
  BY <1>14 DEF PromoteDue, Overlap, TypeOfStore, diskVars
<1>15. CASE Restart
  BY <1>15, BoundsAssumption DEF Restart, Overlap, TypeOfStore, diskVars
<1>16. CASE UNCHANGED vars
  BY <1>1, <1>16 DEF vars
<1> QED
  BY <1>2, <1>3, <1>4, <1>5, <1>6, <1>7, <1>8, <1>9, <1>10, <1>11, <1>12, <1>13, <1>14, <1>15, <1>16
  DEF Next, Operator, LoopStep, WorkerStep, TrainerStep, Federation, Saving

LEMMA WorkerMoves ==
  ASSUME TypeOfActivities
  PROVE  /\ worker.v \in 0 .. MaxVersions
         /\ \A pc \in {"link", "reload"} :
              LET next == [worker EXCEPT !.pc = pc] IN next \in WorkerType /\ next.v = worker.v
BY DEF TypeOfActivities, WorkerType

LEMMA ChosenVersions == TypeOfStore => Chosen \in SUBSET Versions
BY SoakedVersions DEF Chosen, TypeOfStore

LEMMA LoopTypeStep == TypeOfStore /\ TypeOfActivities /\ Promoting /\ [Next]_vars => loop' \in LoopType
<1> SUFFICES ASSUME TypeOfStore, TypeOfActivities, Promoting, [Next]_vars PROVE loop' \in LoopType
  OBVIOUS
<1> USE LoopMoves
<1>1. loop \in LoopType /\ Actives \in SUBSET Versions /\ Due \in SUBSET Versions
  BY DEF TypeOfActivities, Actives, Due
<1>2. CASE NextDue
  <2>1. CASE \E v \in loop.due : loop' = Promotion(v, Actives \ {v}, loop.due \ {v})
    <3>1. PICK v \in loop.due : loop' = Promotion(v, Actives \ {v}, loop.due \ {v})
      BY <2>1
    <3>2. v \in Versions /\ Actives \ {v} \in SUBSET Versions /\ loop.due \ {v} \in SUBSET Versions
      BY <1>1
    <3> QED
      BY <3>1, <3>2, PromotionMoves
  <2> QED
    BY <1>2, <2>1, NextDueMoves, IdleTypes
<1>3. CASE \E v \in Versions : Promote(v) \/ Rollback(v)
  BY <1>1, <1>3, PromotionMoves DEF Promote, Rollback
<1>4. CASE LoopArchive
  <2>1. loop.v \in Versions
    BY <1>4, ChosenVersions DEF LoopArchive, Promoting
  <2> QED
    BY <1>4, <2>1, PromotionMoves DEF LoopArchive
<1>5. CASE LoopActivate
  BY <1>5 DEF LoopActivate
<1>6. CASE LoopUnlink
  BY <1>6 DEF LoopUnlink
<1>7. CASE LoopLink \/ LoopReload
  BY <1>2, <1>7 DEF LoopLink, LoopReload
<1>8. CASE PromoteDue
  BY <1>1, <1>8, PromotionMoves DEF PromoteDue, Due
<1>9. CASE Restart
  BY <1>9, IdleTypes DEF Restart
<1>10. CASE UNCHANGED loop
  BY <1>1, <1>10
<1>11. CASE ~(LoopStep \/ PromoteDue \/ Restart \/ \E v \in Versions : Promote(v) \/ Rollback(v))
  BY <1>10, <1>11 DEF Next, vars, Operator, Discard, Delete, WorkerStep, WorkerSave, WorkerUnlink, WorkerLink, WorkerReload,
     TrainerStep, MaybeDiscardRegression, TrainerSave, Federation, Publish, SyncGlobal, Soak
<1> QED
  BY <1>3, <1>4, <1>5, <1>6, <1>7, <1>8, <1>9, <1>11 DEF LoopStep

LEMMA ThreadTypesStep ==
  TypeOfStore /\ TypeOfActivities /\ [Next]_vars => worker' \in WorkerType /\ trainer' \in TrainerType
<1> SUFFICES ASSUME TypeOfStore, TypeOfActivities, [Next]_vars
             PROVE  worker' \in WorkerType /\ trainer' \in TrainerType
  OBVIOUS
<1> USE WorkerMoves, IdleTypes
<1>1. worker \in WorkerType /\ trainer \in TrainerType
  BY DEF TypeOfActivities
<1>2. CASE \E auc \in 1 .. MaxAuc, reload \in BOOLEAN : WorkerSave(auc, reload)
  <2>1. PICK auc \in 1 .. MaxAuc, reload \in BOOLEAN : WorkerSave(auc, reload)
    BY <1>2
  <2>2. saved + 1 \in 0 .. MaxVersions
    BY <2>1, BoundsAssumption DEF WorkerSave, SaveModel, TypeOfStore
  <2>3. worker' = [pc |-> "unlink", v |-> saved + 1, reload |-> reload] /\ trainer' = trainer
    BY <2>1 DEF WorkerSave
  <2> QED
    BY <1>1, <2>2, <2>3 DEF WorkerType
<1>3. CASE WorkerUnlink \/ WorkerLink \/ WorkerReload
  BY <1>1, <1>3 DEF WorkerUnlink, WorkerLink, WorkerReload
<1>4. CASE \E auc \in 1 .. MaxAuc : TrainerSave(auc)
  <2>1. PICK auc \in 1 .. MaxAuc : TrainerSave(auc)
    BY <1>4
  <2>2. saved + 1 \in 0 .. MaxVersions
    BY <2>1, BoundsAssumption DEF TrainerSave, SaveModel, TypeOfStore
  <2>3. trainer' = [pc |-> "check", v |-> saved + 1] /\ worker' = worker
    BY <2>1 DEF TrainerSave
  <2> QED
    BY <1>1, <2>2, <2>3 DEF TrainerType
<1>5. CASE MaybeDiscardRegression
  BY <1>1, <1>5 DEF MaybeDiscardRegression
<1>6. CASE Restart
  BY <1>6 DEF Restart
<1>7. CASE Operator \/ LoopStep \/ Federation \/ UNCHANGED vars
  BY <1>1, <1>7 DEF Operator, Promote, Rollback, Discard, Delete, LoopStep, LoopArchive, LoopActivate, LoopUnlink, LoopLink,
     LoopReload, Federation, Publish, PromoteDue, SyncGlobal, Soak, vars
<1> QED
  BY <1>2, <1>3, <1>4, <1>5, <1>6, <1>7 DEF Next, WorkerStep, TrainerStep

-----------------------------------------------------------------------------
(* What one step does to the stages of the versions.                       *)

(* A switch of versions on the loop keeps what is there and what is active  *)
(* until it archives it; nothing is chosen without being there.             *)
LEMMA StagesMove ==
  ASSUME TypeOfStore, TypeOfActivities, Fresh, Promoting, [Next]_vars, NEW x \in Versions
  PROVE  /\ x \in Chosen => x \in Chosen'
         /\ x \in Soaked => x \in Soaked'
         /\ x \in approved => x \in approved'
         /\ status'[x] = status[x] \/ status'[x] \in Release!After(status[x])
         /\ status[x] # "active" /\ status'[x] = "active" => x \in Chosen'
         /\ loop.pc # "idle" /\ status[x] = "active" /\ ~LoopArchive => status'[x] = "active"
         /\ loop.pc # "idle" /\ Exists(x) => Exists(x)'
         /\ x > saved' => status'[x] = "none" /\ x \notin Soaked'
<1> USE DEF Release!After
<1>1. x > saved => status[x] = "none" /\ x \notin Soaked
  BY DEF Fresh
<1>2. CASE UNCHANGED <<status, meta, saved, approved>>
  BY <1>1, <1>2 DEF Chosen, Soaked, Exists
<1>3. CASE Saving
  <2>1. PICK v \in Versions : \E s \in {"staged", "active"} :
            /\ v = saved + 1 /\ saved' = v /\ status[v] = "none"
            /\ status' = [status EXCEPT ![v] = s]
            /\ Soaked' = Soaked /\ approved \subseteq approved' /\ approved' \subseteq approved \cup {v}
            /\ s = "active" => v \in approved'
    BY <1>3, Saves
  <2>2. PICK s \in {"staged", "active"} :
            /\ v = saved + 1 /\ saved' = v /\ status[v] = "none"
            /\ status' = [status EXCEPT ![v] = s]
            /\ Soaked' = Soaked /\ approved \subseteq approved' /\ approved' \subseteq approved \cup {v}
            /\ s = "active" => v \in approved'
    BY <2>1
  <2>3. saved \in Nat /\ x \in Nat
    BY DEF TypeOfStore, Versions
  <2> QED
    BY <1>1, <2>2, <2>3 DEF Chosen, Exists, TypeOfStore
<1>4. CASE \E v \in Versions : Promote(v) \/ Rollback(v)
  BY <1>1, <1>4 DEF Promote, Rollback, diskVars, Chosen, Soaked, Exists
<1>5. CASE \E v \in Versions : Discard(v)
  BY <1>1, <1>5 DEF Discard, historyVars, Chosen, Soaked, Exists, TypeOfStore
<1>6. CASE \E S \in SUBSET Versions : Delete(S)
  BY <1>1, <1>6 DEF Delete, historyVars, Chosen, Soaked, Exists, TypeOfStore
<1>7. CASE LoopArchive
  <2>1. loop.pc # "idle" /\ loop.todo \subseteq Actives
    BY <1>7 DEF LoopArchive, Promoting
  <2>2. PICK v \in loop.todo : status' = [status EXCEPT ![v] = "archived"]
    BY <1>7 DEF LoopArchive
  <2>3. v \in Versions /\ status[v] = "active"
    BY <2>1, <2>2 DEF Actives
  <2> QED
    BY <1>1, <1>7, <2>2, <2>3 DEF LoopArchive, Chosen, Soaked, Exists, TypeOfStore
<1>8. CASE LoopActivate
  <2>1. loop.v \in Chosen /\ Exists(loop.v) /\ loop.v \in Versions
    BY <1>8, ChosenVersions DEF LoopActivate, Promoting
  <2>2. status[loop.v] \in {"staged", "active", "archived", "discarded"}
    BY <2>1 DEF Exists, TypeOfStore, Statuses
  <2> QED
    BY <1>1, <1>8, <2>1, <2>2 DEF LoopActivate, Chosen, Soaked, Exists, TypeOfStore
<1>9. CASE MaybeDiscardRegression
  BY <1>1, <1>9 DEF MaybeDiscardRegression, historyVars, Chosen, Soaked, Exists, TypeOfStore
<1>10. CASE \E v \in Versions : Soak(v)
  <2>1. PICK v \in Versions : Soak(v)
    BY <1>10
  <2>2. Soaked' = Soaked \cup {v} /\ Exists(v) /\ UNCHANGED <<status, saved, approved>>
    BY <2>1, Soaks DEF Soak, historyVars
  <2> QED
    BY <1>1, <2>2 DEF Chosen, Exists
<1>11. CASE LoopUnlink \/ LoopLink \/ LoopReload \/ WorkerUnlink \/ WorkerLink \/ WorkerReload \/ Publish \/ PromoteDue
             \/ Restart \/ UNCHANGED vars
  BY <1>2, <1>11 DEF LoopUnlink, LoopLink, LoopReload, WorkerUnlink, WorkerLink, WorkerReload, Publish, PromoteDue, Restart,
     vars, diskVars, historyVars
<1> QED
  BY <1>3, <1>4, <1>5, <1>6, <1>7, <1>8, <1>9, <1>10, <1>11
  DEF Next, Operator, LoopStep, WorkerStep, TrainerStep, Federation, Saving

-----------------------------------------------------------------------------
(* The invariant, and the theorems.                                        *)

Inv == TypeOK /\ Fresh /\ Promoting /\ Retraining /\ Pointed

LEMMA InvInit == Init => Inv
<1> SUFFICES ASSUME Init PROVE Inv
  OBVIOUS
<1>1. TypeOK
  BY TypeOKInit
<1>2. /\ saved = 1 /\ latest = 1 /\ served = 1 /\ approved = {v \in Versions : v <= 1}
      /\ loop = LoopIdle /\ worker = WorkerIdle
      /\ status = [v \in Versions |-> IF v <= 1 THEN "active" ELSE "none"]
  BY DEF Init
<1>3. \A v \in Versions : v > 1 => meta[v] = NoMeta
  BY DEF Init, Versions
<1>4. Fresh
  BY <1>2, <1>3, NoMetaType DEF Fresh, Soaked, Versions
<1>5. Promoting /\ Retraining
  BY <1>2 DEF Promoting, Retraining, LoopIdle, WorkerIdle
<1>6. Pointed
  BY <1>2, VersionFacts DEF Pointed, Chosen
<1> QED
  BY <1>1, <1>4, <1>5, <1>6 DEF Inv

(* A promotion that begins, or goes on, is sound in the new state.         *)
LEMMA PromotionSound ==
  ASSUME Inv, [Next]_vars, UNCHANGED status,
         NEW v \in Chosen', Exists(v), NEW todo \in SUBSET (Actives \ {v}),
         NEW due \in SUBSET Versions, \A u \in due : u \in Soaked /\ Exists(u),
         loop' = Promotion(v, todo, due)
  PROVE  Promoting'
<1>1. TypeOfStore /\ TypeOfActivities /\ Fresh /\ Promoting
  BY TypeParts DEF Inv
<1>2. v \in Versions
  BY SoakedVersions, TypeOfStoreStep, <1>1 DEF Chosen, TypeOfStore, Soaked
<1>3. \A u \in due : u \in Soaked' /\ Exists(u)'
  BY <1>1, StagesMove DEF Exists
<1>4. Actives' = Actives /\ Exists(v)'
  BY DEF Actives, Exists
<1>5. todo \in SUBSET Versions
  BY DEF Actives
<1>6. loop'.v = v /\ loop'.todo = todo /\ loop'.due = due
  BY <1>2, <1>5, PromotionMoves
<1> QED
  BY <1>3, <1>4, <1>6 DEF Promoting

LEMMA PromotingStep == Inv /\ [Next]_vars => Promoting'
<1> SUFFICES ASSUME Inv, [Next]_vars PROVE Promoting'
  OBVIOUS
<1>1. TypeOfStore /\ TypeOfActivities /\ Fresh /\ Promoting
  BY TypeParts DEF Inv
<1>2. Chosen \in SUBSET Versions /\ Chosen \subseteq Chosen' /\ Soaked \subseteq Soaked'
  BY <1>1, ChosenVersions, SoakedVersions, StagesMove
<1>3. CASE loop' = LoopIdle
  BY <1>3 DEF Promoting, LoopIdle
<1>4. CASE /\ loop.pc # "idle" /\ ~LoopArchive
           /\ loop'.v = loop.v /\ loop'.todo = loop.todo /\ loop'.due = loop.due
  <2>1. loop.v \in Chosen' /\ Exists(loop.v)'
    BY <1>1, <1>2, <1>4, StagesMove DEF Promoting
  <2>2. loop.todo \subseteq Actives' \ {loop.v}
    BY <1>1, <1>4, StagesMove DEF Promoting, Actives
  <2>3. \A v \in loop.due : v \in Soaked' /\ Exists(v)'
    <3>1. loop.due \in SUBSET Versions
      BY <1>1, LoopMoves
    <3> QED
      BY <1>1, <1>2, <1>4, <3>1, StagesMove DEF Promoting
  <2> QED
    BY <1>4, <2>1, <2>2, <2>3 DEF Promoting
<1>5. CASE \E v \in Versions : Promote(v)
  <2>1. PICK v \in Versions : Promote(v)
    BY <1>5
  <2>2. v \in Chosen' /\ Exists(v) /\ UNCHANGED status /\ loop' = Promotion(v, Actives \ {v}, {})
    BY <2>1 DEF Promote, Chosen, diskVars
  <2> QED
    BY <2>2, PromotionSound
<1>6. CASE \E v \in Versions : Rollback(v)
  <2>1. PICK v \in Versions : Rollback(v)
    BY <1>6
  <2>2. v \in Chosen' /\ Exists(v) /\ UNCHANGED status /\ loop' = Promotion(v, {}, {})
    BY <2>1 DEF Rollback, Chosen, diskVars
  <2> QED
    BY <2>2, PromotionSound
<1>7. CASE PromoteDue
  <2>1. PICK v \in Due : loop' = Promotion(v, Actives \ {v}, Due \ {v})
    BY <1>7 DEF PromoteDue
  <2>2. \A u \in Due : u \in Versions /\ u \in Soaked /\ Exists(u)
    BY DEF Due, Soaked, Exists
  <2>3. UNCHANGED status /\ v \in Chosen' /\ Due \ {v} \in SUBSET Versions
    BY <1>2, <1>7, <2>2 DEF PromoteDue, diskVars, Chosen
  <2> QED
    BY <2>1, <2>2, <2>3, PromotionSound
<1>8. CASE NextDue /\ UNCHANGED status /\ loop.pc # "idle"
  <2>1. CASE \E v \in loop.due : loop' = Promotion(v, Actives \ {v}, loop.due \ {v})
    <3>1. PICK v \in loop.due : loop' = Promotion(v, Actives \ {v}, loop.due \ {v})
      BY <2>1
    <3>2. /\ loop.due \in SUBSET Versions
          /\ \A u \in loop.due : u \in Soaked /\ Exists(u)
      BY <1>1, <1>8, LoopMoves DEF Promoting
    <3>3. v \in Chosen' /\ loop.due \ {v} \in SUBSET Versions
      BY <1>2, <3>2 DEF Chosen
    <3> QED
      BY <1>8, <3>1, <3>2, <3>3, PromotionSound
  <2> QED
    BY <1>1, <1>3, <1>8, <2>1, NextDueMoves
<1>9. CASE LoopArchive
  <2>1. PICK v \in loop.todo : /\ status' = [status EXCEPT ![v] = "archived"]
                               /\ loop' = Promotion(loop.v, loop.todo \ {v}, loop.due)
    BY <1>9 DEF LoopArchive
  <2>2. /\ loop.pc # "idle" /\ loop.v \in Chosen /\ Exists(loop.v) /\ loop.v \in Versions
        /\ loop.todo \subseteq Actives \ {loop.v} /\ v \in Versions
        /\ loop.due \in SUBSET Versions /\ loop.todo \in SUBSET Versions
    BY <1>1, <1>2, <1>9, LoopMoves DEF LoopArchive, Promoting, Actives
  <2>3. loop'.v = loop.v /\ loop'.todo = loop.todo \ {v} /\ loop'.due = loop.due
    <3>1. loop.todo \ {v} \in SUBSET Versions
      BY <2>2
    <3> QED
      BY <2>1, <2>2, <3>1, PromotionMoves
  <2>4. loop.v \in Chosen' /\ status'[loop.v] \notin {"none", "gone"}
    BY <1>1, <1>2, <2>2, StagesMove DEF Exists
  <2>5. loop.todo \ {v} \subseteq Actives' \ {loop.v}
    BY <1>1, <2>1, <2>2 DEF Actives, TypeOfStore
  <2>6. \A u \in loop.due : u \in Soaked' /\ Exists(u)'
    BY <1>1, <1>2, <2>2, StagesMove DEF Promoting
  <2> QED
    BY <2>3, <2>4, <2>5, <2>6 DEF Promoting, Exists
<1>10. CASE LoopActivate \/ LoopUnlink
  <2>1. /\ loop.pc # "idle" /\ ~LoopArchive
        /\ loop'.v = loop.v /\ loop'.todo = loop.todo /\ loop'.due = loop.due
    BY <1>1, <1>10, LoopMoves DEF LoopActivate, LoopUnlink, LoopArchive
  <2> QED
    BY <1>4, <2>1
<1>11. CASE LoopLink
  <2>1. loop.pc = "link" /\ UNCHANGED status /\ ~LoopArchive
    BY <1>11 DEF LoopLink, LoopArchive
  <2>2. CASE loop' = [loop EXCEPT !.pc = "reload"]
    <3>1. loop'.v = loop.v /\ loop'.todo = loop.todo /\ loop'.due = loop.due
      BY <1>1, <2>2, LoopMoves
    <3> QED
      BY <1>4, <2>1, <3>1
  <2> QED
    BY <1>8, <1>11, <2>1, <2>2 DEF LoopLink
<1>12. CASE LoopReload
  BY <1>8, <1>12 DEF LoopReload, diskVars
<1>13. CASE Restart
  BY <1>3, <1>13 DEF Restart
<1>14. CASE UNCHANGED loop
  <2>1. loop.pc # "idle" => ~LoopArchive
    <3>1. ASSUME LoopArchive PROVE FALSE
      <4>1. PICK v \in loop.todo : loop' = Promotion(loop.v, loop.todo \ {v}, loop.due)
        BY <3>1 DEF LoopArchive
      <4>2. /\ loop.v \in Versions /\ loop.todo \ {v} \in SUBSET Versions /\ loop.due \in SUBSET Versions
        BY <1>1, <1>2, <3>1, LoopMoves DEF LoopArchive, Promoting
      <4>3. loop'.todo = loop.todo \ {v}
        BY <4>1, <4>2, PromotionMoves
      <4> QED
        BY <1>14, <4>1, <4>3
    <3> QED
      BY <3>1
  <2>2. CASE loop.pc = "idle"
    BY <1>14, <2>2 DEF Promoting
  <2> QED
    BY <1>4, <1>14, <2>1, <2>2
<1>15. CASE ~(LoopStep \/ PromoteDue \/ Restart \/ \E v \in Versions : Promote(v) \/ Rollback(v))
  BY <1>14, <1>15 DEF Next, vars, Operator, Discard, Delete, WorkerStep, WorkerSave, WorkerUnlink, WorkerLink, WorkerReload,
     TrainerStep, MaybeDiscardRegression, TrainerSave, Federation, Publish, SyncGlobal, Soak
<1> QED
  BY <1>5, <1>6, <1>7, <1>9, <1>10, <1>11, <1>12, <1>13, <1>15 DEF LoopStep

LEMMA RetrainingStep == Inv /\ [Next]_vars => Retraining'
<1> SUFFICES ASSUME Inv, [Next]_vars PROVE Retraining'
  OBVIOUS
<1>1. TypeOfStore /\ TypeOfActivities /\ Fresh /\ Promoting /\ Retraining
  BY TypeParts DEF Inv
<1>2. approved \subseteq approved'
  BY <1>1, StagesMove DEF TypeOfStore
<1>3. CASE \E auc \in 1 .. MaxAuc, reload \in BOOLEAN : WorkerSave(auc, reload)
  BY <1>3 DEF WorkerSave, Retraining
<1>4. CASE worker' = WorkerIdle
  BY <1>4 DEF Retraining, WorkerIdle
<1>5. CASE worker.pc # "idle" /\ worker'.v = worker.v
  BY <1>1, <1>2, <1>5 DEF Retraining
<1>6. CASE WorkerUnlink \/ WorkerLink \/ WorkerReload
  <2>1. worker' = WorkerIdle \/ (worker.pc # "idle" /\ worker'.v = worker.v)
    BY <1>1, <1>6, WorkerMoves DEF WorkerUnlink, WorkerLink, WorkerReload
  <2> QED
    BY <1>4, <1>5, <2>1
<1>7. CASE Restart
  BY <1>4, <1>7 DEF Restart
<1>8. CASE UNCHANGED worker
  BY <1>1, <1>2, <1>8 DEF Retraining
<1>9. CASE ~(WorkerStep \/ Restart)
  BY <1>8, <1>9 DEF Next, vars, Operator, Promote, Rollback, Discard, Delete, LoopStep, LoopArchive, LoopActivate, LoopUnlink,
     LoopLink, LoopReload, TrainerStep, MaybeDiscardRegression, TrainerSave, Federation, Publish, PromoteDue, SyncGlobal, Soak
<1> QED
  BY <1>3, <1>6, <1>7, <1>9 DEF WorkerStep

(* The link goes to what a promotion or a retrain is about, and the         *)
(* detector to what the link names.                                        *)
LEMMA PointersMove ==
  ASSUME Inv, [Next]_vars
  PROVE  /\ latest' \in {latest, 0} \cup Chosen
         /\ served' \in {served, latest, 0}
         /\ latest' # latest \/ served' # served => Chosen \subseteq Chosen' /\ UNCHANGED <<status, meta, approved>>
         /\ latest' = latest \/ served' = served
<1>1. TypeOfStore /\ TypeOfActivities /\ Fresh /\ Promoting /\ Retraining
  BY TypeParts DEF Inv
<1>2. CASE UNCHANGED <<latest, served>>
  BY <1>2
<1>3. CASE Saving
  BY <1>1, <1>3, Saves
<1>4. CASE LoopUnlink \/ WorkerUnlink
  BY <1>4 DEF LoopUnlink, WorkerUnlink, Unlink, Chosen, Soaked
<1>5. CASE LoopLink
  BY <1>1, <1>5 DEF LoopLink, Link, LinkExists, Promoting, Chosen, Soaked
<1>6. CASE WorkerLink
  BY <1>1, <1>6 DEF WorkerLink, Link, LinkExists, Retraining, Chosen, Soaked
<1>7. CASE LoopReload \/ WorkerReload
  BY <1>7 DEF LoopReload, WorkerReload, HotReload, diskVars, Chosen, Soaked
<1>8. CASE Restart
  BY <1>8 DEF Restart, diskVars, Chosen, Soaked
<1>9. CASE Operator \/ LoopArchive \/ LoopActivate \/ MaybeDiscardRegression \/ Publish \/ PromoteDue
            \/ (\E v \in Versions : Soak(v)) \/ UNCHANGED vars
  BY <1>2, <1>9 DEF Operator, Promote, Rollback, Discard, Delete, LoopArchive, LoopActivate, MaybeDiscardRegression, Publish,
     PromoteDue, Soak, vars, diskVars
<1> QED
  BY <1>3, <1>4, <1>5, <1>6, <1>7, <1>8, <1>9 DEF Next, LoopStep, WorkerStep, TrainerStep, Federation, Saving

LEMMA InvStep == Inv /\ [Next]_vars => Inv'
<1> SUFFICES ASSUME Inv, [Next]_vars PROVE Inv'
  OBVIOUS
<1>1. TypeOfStore /\ TypeOfActivities /\ Fresh /\ Promoting /\ Pointed
  BY TypeParts DEF Inv
<1>2. TypeOK'
  BY <1>1, TypeOfStoreStep, LoopTypeStep, ThreadTypesStep, TypePartsNext DEF TypeOfActivities
<1>3. Fresh'
  BY <1>1, StagesMove DEF Fresh
<1>4. Pointed'
  <2>1. Chosen \subseteq Chosen'
    BY <1>1, StagesMove, ChosenVersions
  <2> QED
    BY <1>1, <2>1, PointersMove DEF Pointed
<1> QED
  BY <1>2, <1>3, <1>4, PromotingStep, RetrainingStep DEF Inv

(* Every variable has its type, whatever the operator, the retrain thread,  *)
(* the scheduler, the federation and restarts do.                          *)
THEOREM TypeCorrect == Spec => []TypeOK
<1>1. Inv => TypeOK
  BY DEF Inv
<1> QED
  BY <1>1, InvInit, InvStep, PTL DEF Spec

(* The "latest" link and the model in memory are always a version an        *)
(* operator put into service or one whose soak window is over: never a      *)
(* staged retrain of the scheduler, never a global model before its time.   *)
THEOREM OnlyApprovedServed == Spec => []ServedApproved
<1>1. Inv => ServedApproved
  BY DEF Inv, Pointed, Chosen, ServedApproved
<1> QED
  BY <1>1, InvInit, InvStep, PTL DEF Spec

-----------------------------------------------------------------------------
(* While no switch of versions was overlapped or cut short: the loop and    *)
(* the retrain thread take turns, each finds the link as it left it, and    *)
(* what it is about to point at is active.                                  *)

TakingTurns == loop.pc = "idle" \/ worker.pc = "idle"

LoopOnCourse ==
    loop.pc \in {"unlink", "link", "reload"} =>
      /\ status[loop.v] = "active"
      /\ loop.pc = "link" => latest = 0
      /\ loop.pc = "reload" => latest = loop.v

WorkerOnCourse ==
    worker.pc # "idle" =>
      /\ status[worker.v] = "active"
      /\ worker.reload \/ meta[worker.v].quiet
      /\ worker.pc = "link" => latest = 0
      /\ worker.pc = "reload" => latest = worker.v

LinkNamed  == loop.pc = "idle" /\ latest # 0 => status[latest] = "active"
LinkLoaded == loop.pc = "idle" /\ worker.pc = "idle" /\ latest # 0 =>
                  served = latest \/ latest \in Refused \/ meta[latest].quiet

OnCourse == TakingTurns /\ LoopOnCourse /\ WorkerOnCourse /\ LinkNamed /\ LinkLoaded
Calm == ~disturbed => OnCourse

LEMMA CalmInit == Init => Calm
<1> SUFFICES ASSUME Init PROVE OnCourse
  BY DEF Calm
<1>1. loop.pc = "idle" /\ worker.pc = "idle" /\ latest = 1 /\ served = 1 /\ status[1] = "active"
  BY VersionFacts DEF Init, LoopIdle, WorkerIdle
<1> QED
  BY <1>1 DEF OnCourse, TakingTurns, LoopOnCourse, WorkerOnCourse, LinkNamed, LinkLoaded

(* An active version stays active, and as quiet as it was, in every step    *)
(* but the archiving of a promotion.                                        *)
LEMMA ActiveStays ==
  ASSUME Inv, [Next]_vars, ~LoopArchive, NEW v \in Versions, status[v] = "active"
  PROVE  status'[v] = "active" /\ meta'[v].quiet = meta[v].quiet
<1>1. TypeOfStore /\ TypeOfActivities /\ Fresh /\ Promoting
  BY TypeParts DEF Inv
<1>2. CASE UNCHANGED <<status, meta>>
  BY <1>2
<1>3. CASE Saving
  <2>1. PICK u, s, m : u \in Versions /\ status[u] = "none" /\ status' = [status EXCEPT ![u] = s] /\ meta' = [meta EXCEPT ![u] = m]
    <3>1. PICK u \in Versions : u = saved + 1 /\ status[u] = "none"
      BY <1>1, <1>3, Saves
    <3>2. \E w, s, m : SaveModel(w, s, m)
      BY <1>3 DEF Saving, WorkerSave, TrainerSave, SyncGlobal
    <3>3. PICK w, s, m : SaveModel(w, s, m)
      BY <3>2
    <3>4. w = u /\ status' = [status EXCEPT ![w] = s] /\ meta' = [meta EXCEPT ![w] = m]
      BY <3>1, <3>3 DEF SaveModel
    <3> QED
      BY <3>1, <3>4
  <2>2. u # v
    BY <2>1
  <2> QED
    BY <1>1, <2>1, <2>2 DEF TypeOfStore
<1>4. CASE \E u \in Versions : Discard(u)
  BY <1>1, <1>4 DEF Discard, TypeOfStore
<1>5. CASE \E S \in SUBSET Versions : Delete(S)
  BY <1>1, <1>5 DEF Delete, TypeOfStore
<1>6. CASE MaybeDiscardRegression
  BY <1>1, <1>6 DEF MaybeDiscardRegression, TypeOfStore
<1>7. CASE LoopActivate
  BY <1>1, <1>7 DEF LoopActivate, TypeOfStore
<1>8. CASE \E u \in Versions : Soak(u)
  <2>1. PICK u \in Versions : meta' = [meta EXCEPT ![u] = [meta[u] EXCEPT !.soaked = TRUE]] /\ UNCHANGED status
    BY <1>8 DEF Soak
  <2>2. [meta[u] EXCEPT !.soaked = TRUE].quiet = meta[u].quiet
    BY <1>1 DEF TypeOfStore, MetaType
  <2> QED
    BY <1>1, <2>1, <2>2 DEF TypeOfStore
<1>9. CASE \/ \E u \in Versions : Promote(u) \/ Rollback(u)
           \/ LoopUnlink \/ LoopLink \/ LoopReload \/ WorkerUnlink \/ WorkerLink \/ WorkerReload \/ Publish \/ PromoteDue
           \/ Restart \/ UNCHANGED vars
  BY <1>2, <1>9 DEF Promote, Rollback, LoopUnlink, LoopLink, LoopReload, WorkerUnlink, WorkerLink, WorkerReload, Publish,
     PromoteDue, Restart, vars, diskVars
<1> QED
  BY <1>3, <1>4, <1>5, <1>6, <1>7, <1>8, <1>9
  DEF Next, Operator, LoopStep, WorkerStep, TrainerStep, Federation, Saving

(* A switch that nothing overlaps: the other activity is idle.             *)
LEMMA Undisturbed ==
  ASSUME TypeOfStore, TypeOfActivities, [Next]_vars, ~disturbed'
  PROVE  /\ ~disturbed
         /\ LoopStep \/ PromoteDue \/ (\E v \in Versions : Promote(v) \/ Rollback(v)) => worker.pc = "idle"
         /\ WorkerStep => loop.pc = "idle"
         /\ Restart => worker.pc = "idle" /\ loop.pc = "idle"
<1>1. Switching <=> worker.pc # "idle"
  BY DEF Switching, TypeOfActivities, WorkerType
<1>2. LoopStep \/ PromoteDue \/ (\E v \in Versions : Promote(v) \/ Rollback(v)) => Overlap(Switching)
  BY DEF LoopStep, LoopArchive, LoopActivate, LoopUnlink, LoopLink, LoopReload, PromoteDue, Promote, Rollback
<1>3. WorkerStep => Overlap(LoopSwitch)
  BY DEF WorkerStep, WorkerSave, WorkerUnlink, WorkerLink, WorkerReload
<1>4. Restart => Overlap(LoopSwitch \/ Switching)
  BY DEF Restart
<1>5. \/ LoopStep \/ PromoteDue \/ (\E v \in Versions : Promote(v) \/ Rollback(v))
      \/ WorkerStep \/ Restart \/ UNCHANGED disturbed
  BY DEF Next, vars, historyVars, Operator, Discard, Delete, TrainerStep, MaybeDiscardRegression, TrainerSave, Federation,
     Publish, SyncGlobal, Soak
<1>6. ASSUME NEW both, Overlap(both) PROVE ~disturbed /\ ~both
  BY <1>6, Zenon DEF Overlap
<1>7. disturbed' = disturbed => ~disturbed
  OBVIOUS
<1> QED
  BY <1>1, <1>2, <1>3, <1>4, <1>5, <1>6, <1>7 DEF LoopSwitch

(* The loop is at the beginning of a promotion: nothing is claimed but      *)
(* that the thread is idle.                                                 *)
LEMMA PromotionOnCourse ==
  ASSUME worker.pc = "idle", UNCHANGED worker,
         \E v \in Versions : \E todo, due \in SUBSET Versions : loop' = Promotion(v, todo, due)
  PROVE  OnCourse'
<1>1. loop'.pc \in {"archive", "activate"} /\ worker'.pc = "idle"
  BY PromotionMoves
<1> QED
  BY <1>1 DEF OnCourse, TakingTurns, LoopOnCourse, WorkerOnCourse, LinkNamed, LinkLoaded

(* The loop returns, or takes the next soaked version.                     *)
LEMMA NextDueOnCourse ==
  ASSUME TypeOfStore, TypeOfActivities, NextDue, worker.pc = "idle", UNCHANGED worker,
         latest' # 0 => /\ status'[latest'] = "active"
                        /\ served' = latest' \/ latest' \in Refused \/ meta'[latest'].quiet
  PROVE  OnCourse'
<1>1. CASE loop' = LoopIdle
  BY <1>1 DEF OnCourse, TakingTurns, LoopOnCourse, WorkerOnCourse, LinkNamed, LinkLoaded, LoopIdle
<1>2. CASE \E v \in loop.due : loop' = Promotion(v, Actives \ {v}, loop.due \ {v})
  <2>1. loop.due \in SUBSET Versions /\ Actives \in SUBSET Versions
    BY LoopMoves DEF Actives
  <2>2. PICK v \in loop.due : loop' = Promotion(v, Actives \ {v}, loop.due \ {v})
    BY <1>2
  <2>3. v \in Versions /\ Actives \ {v} \in SUBSET Versions /\ loop.due \ {v} \in SUBSET Versions
    BY <2>1
  <2> QED
    BY <2>2, <2>3, PromotionOnCourse
<1> QED
  BY <1>1, <1>2, NextDueMoves

(* A promotion begins or archives one more version.                        *)
LEMMA BeginsOnCourse ==
  ASSUME Inv, [Next]_vars, ~disturbed',
         LoopArchive \/ PromoteDue \/ (\E v \in Versions : Promote(v) \/ Rollback(v))
  PROVE  OnCourse'
<1>1. TypeOfStore /\ TypeOfActivities /\ Promoting
  BY TypeParts DEF Inv
<1>2. worker.pc = "idle" /\ UNCHANGED worker
  BY <1>1, Undisturbed DEF LoopStep, LoopArchive, PromoteDue, Promote, Rollback
<1>3. Actives \in SUBSET Versions /\ Due \in SUBSET Versions
  BY DEF Actives, Due
<1>4. \E v \in Versions : \E todo, due \in SUBSET Versions : loop' = Promotion(v, todo, due)
  <2>1. CASE LoopArchive
    <3>1. PICK v \in loop.todo : loop' = Promotion(loop.v, loop.todo \ {v}, loop.due)
      BY <2>1 DEF LoopArchive
    <3>2. loop.v \in Versions
      BY <1>1, <2>1, ChosenVersions DEF LoopArchive, Promoting
    <3>3. loop.todo \ {v} \in SUBSET Versions /\ loop.due \in SUBSET Versions
      BY <1>1, LoopMoves
    <3> QED
      BY <3>1, <3>2, <3>3
  <2>2. CASE PromoteDue
    <3>1. PICK v \in Due : loop' = Promotion(v, Actives \ {v}, Due \ {v})
      BY <2>2 DEF PromoteDue
    <3>2. v \in Versions /\ Actives \ {v} \in SUBSET Versions /\ Due \ {v} \in SUBSET Versions
      BY <1>3
    <3> QED
      BY <3>1, <3>2
  <2>3. CASE \E v \in Versions : Promote(v) \/ Rollback(v)
    <3>1. PICK v \in Versions : loop' = Promotion(v, Actives \ {v}, {}) \/ loop' = Promotion(v, {}, {})
      BY <2>3 DEF Promote, Rollback
    <3>2. Actives \ {v} \in SUBSET Versions /\ {} \in SUBSET Versions
      BY <1>3
    <3> QED
      BY <3>1, <3>2
  <2> QED
    BY <2>1, <2>2, <2>3
<1> QED
  BY <1>2, <1>4, PromotionOnCourse

(* The other steps of a switch on the loop, one after another.              *)
LEMMA LoopStaysOnCourse ==
  ASSUME Inv, Calm, [Next]_vars, ~disturbed', LoopActivate \/ LoopUnlink \/ LoopLink \/ LoopReload
  PROVE  OnCourse'
<1>1. TypeOfStore /\ TypeOfActivities /\ Promoting
  BY TypeParts DEF Inv
<1>2. worker.pc = "idle" /\ UNCHANGED worker /\ OnCourse
  BY <1>1, Undisturbed DEF LoopStep, LoopActivate, LoopUnlink, LoopLink, LoopReload, Calm
<1>3. loop.v \in Versions /\ loop.v # 0 /\ Exists(loop.v)
  BY <1>1, ChosenVersions, VersionFacts DEF Promoting, LoopActivate, LoopUnlink, LoopLink, LoopReload
<1>4. ASSUME NEW pc \in {"unlink", "link", "reload"}, loop' = [loop EXCEPT !.pc = pc],
             status'[loop.v] = "active", pc = "link" => latest' = 0, pc = "reload" => latest' = loop.v
      PROVE  OnCourse'
  <2>1. loop'.pc = pc /\ loop'.v = loop.v
    BY <1>1, <1>4, LoopMoves
  <2> QED
    BY <1>2, <1>4, <2>1 DEF OnCourse, TakingTurns, LoopOnCourse, WorkerOnCourse, LinkNamed, LinkLoaded
<1>5. CASE LoopActivate
  BY <1>1, <1>3, <1>4, <1>5 DEF LoopActivate, TypeOfStore
<1>6. CASE LoopUnlink
  BY <1>2, <1>4, <1>6 DEF LoopUnlink, Unlink, OnCourse, LoopOnCourse
<1>7. CASE LoopLink
  BY <1>2, <1>4, <1>7 DEF LoopLink, Link, LinkExists, OnCourse, LoopOnCourse
<1>8. CASE LoopReload
  <2>1. latest = loop.v /\ status[loop.v] = "active"
    BY <1>2, <1>8 DEF LoopReload, OnCourse, LoopOnCourse
  <2>2. served' = latest \/ latest \in Refused
    BY <1>3, <1>8, <2>1 DEF LoopReload, HotReload, Loads
  <2>3. NextDue /\ UNCHANGED <<status, meta, latest>>
    BY <1>8 DEF LoopReload, diskVars
  <2> QED
    BY <1>1, <1>2, <2>1, <2>2, <2>3, NextDueOnCourse
<1> QED
  BY <1>5, <1>6, <1>7, <1>8

(* The steps of a retrain.                                                 *)
LEMMA WorkerStaysOnCourse ==
  ASSUME Inv, Calm, [Next]_vars, ~disturbed', WorkerStep
  PROVE  OnCourse'
<1>1. TypeOfStore /\ TypeOfActivities /\ Fresh /\ Retraining
  BY TypeParts DEF Inv
<1>2. loop.pc = "idle" /\ UNCHANGED loop /\ OnCourse
  BY <1>1, Undisturbed DEF WorkerStep, WorkerSave, WorkerUnlink, WorkerLink, WorkerReload, Calm
<1>3. LinkNamed /\ WorkerOnCourse /\ (latest # 0 => status[latest] = "active")
  BY <1>2 DEF OnCourse, LinkNamed
<1>4. ASSUME worker'.pc # "idle", status'[worker'.v] = "active", worker'.reload \/ meta'[worker'.v].quiet,
             worker'.pc = "link" => latest' = 0, worker'.pc = "reload" => latest' = worker'.v,
             latest' # 0 => status'[latest'] = "active"
      PROVE  OnCourse'
  BY <1>2, <1>4 DEF OnCourse, TakingTurns, LoopOnCourse, WorkerOnCourse, LinkNamed, LinkLoaded
<1>5. ASSUME worker' = WorkerIdle, latest' # 0, status'[latest'] = "active",
             served' = latest' \/ latest' \in Refused \/ meta'[latest'].quiet
      PROVE  OnCourse'
  BY <1>2, <1>5 DEF OnCourse, TakingTurns, LoopOnCourse, WorkerOnCourse, LinkNamed, LinkLoaded, WorkerIdle
<1>6. CASE \E auc \in 1 .. MaxAuc, reload \in BOOLEAN : WorkerSave(auc, reload)
  <2>1. PICK auc \in 1 .. MaxAuc, reload \in BOOLEAN : WorkerSave(auc, reload)
    BY <1>6
  <2> DEFINE m == [auc |-> auc, global |-> 0, soaked |-> FALSE, quiet |-> ~reload]
  <2>2. SaveModel(saved + 1, "active", m) /\ worker' = [pc |-> "unlink", v |-> saved + 1, reload |-> reload] /\ latest' = latest
    BY <2>1 DEF WorkerSave
  <2>3. m \in MetaType /\ m.quiet = ~reload /\ "active" \in Statuses
    BY SavedMeta DEF Statuses
  <2> HIDE DEF m
  <2>4. status'[saved + 1] = "active" /\ meta'[saved + 1].quiet = ~reload
    BY <1>1, <2>2, <2>3, NewVersion DEF TypeOfStore
  <2>5. latest' # 0 => status'[latest'] = "active"
    <3>1. ~LoopArchive
      BY <1>2 DEF LoopArchive
    <3> QED
      BY <1>1, <1>3, <2>2, <3>1, ActiveStays, VersionFacts DEF TypeOfStore
  <2> QED
    BY <1>4, <2>2, <2>4, <2>5
<1>7. CASE WorkerUnlink \/ WorkerLink \/ WorkerReload
  <2>1. /\ status[worker.v] = "active"
        /\ worker.v \in Versions /\ worker.v # 0 /\ UNCHANGED <<status, meta>>
    BY <1>1, <1>3, <1>7, VersionFacts
    DEF WorkerOnCourse, Retraining, TypeOfStore, WorkerUnlink, WorkerLink, WorkerReload, diskVars
  <2>2. \A pc \in {"link", "reload"} : LET next == [worker EXCEPT !.pc = pc] IN
          next.pc = pc /\ next.v = worker.v /\ next.reload = worker.reload
    BY <1>1 DEF TypeOfActivities, WorkerType
  <2>3. worker.reload \/ meta[worker.v].quiet
    BY <1>3, <1>7 DEF WorkerOnCourse, WorkerUnlink, WorkerLink, WorkerReload
  <2>4. worker'.reload = worker.reload /\ worker'.v = worker.v => worker'.reload \/ meta'[worker'.v].quiet
    BY <2>1, <2>3, Zenon
  <2>5. CASE WorkerUnlink
    <3>1. worker'.pc = "link" /\ worker'.v = worker.v /\ worker'.reload = worker.reload /\ latest' = 0
      BY <2>2, <2>5 DEF WorkerUnlink, Unlink
    <3> QED
      BY <1>4, <2>1, <2>4, <3>1
  <2>6. CASE WorkerLink
    <3>1. latest' = worker.v
      BY <1>3, <2>6 DEF WorkerLink, Link, LinkExists, WorkerOnCourse
    <3>2. worker' = IF worker.reload THEN [worker EXCEPT !.pc = "reload"] ELSE WorkerIdle
      BY <1>3, <2>6 DEF WorkerLink, LinkExists, WorkerOnCourse
    <3>3. CASE worker.reload
      <4>1. worker'.pc = "reload" /\ worker'.v = worker.v /\ worker'.reload = worker.reload
        BY <2>2, <3>2, <3>3
      <4> QED
        BY <1>4, <2>1, <2>4, <3>1, <4>1
    <3>4. CASE ~worker.reload
      <4>1. worker' = WorkerIdle
        BY <3>2, <3>4
      <4>2. meta'[latest'].quiet
        BY <2>1, <2>3, <3>1, <3>4, Zenon
      <4> QED
        BY <1>5, <2>1, <3>1, <4>1, <4>2
    <3> QED
      BY <3>3, <3>4
  <2>7. CASE WorkerReload
    <3>1. latest = worker.v /\ latest' = latest /\ worker' = WorkerIdle
      BY <1>3, <2>7 DEF WorkerReload, WorkerOnCourse, diskVars
    <3>2. latest # 0 /\ Exists(latest)
      BY <2>1, <3>1 DEF Exists
    <3>3. served' = latest \/ latest \in Refused
      BY <2>7, <3>2 DEF WorkerReload, HotReload, Loads
    <3> QED
      BY <1>5, <2>1, <3>1, <3>3
  <2> QED
    BY <1>7, <2>5, <2>6, <2>7
<1> QED
  BY <1>6, <1>7 DEF WorkerStep

(* Everything else leaves the loop, the thread, the link and the detector   *)
(* alone, and what they rely on as it is.                                   *)
LEMMA OthersStayOnCourse ==
  ASSUME Inv, Calm, [Next]_vars, ~disturbed', ~LoopArchive, UNCHANGED <<loop, worker, latest, served>>
  PROVE  OnCourse'
<1>1. TypeOfStore /\ TypeOfActivities /\ Promoting /\ Retraining /\ OnCourse
  BY TypeParts, Undisturbed DEF Inv, Calm
<1>2. LoopOnCourse'
  <2>1. loop.pc # "idle" => loop.v \in Versions
    BY <1>1, ChosenVersions DEF Promoting
  <2> QED
    BY <1>1, <2>1, ActiveStays DEF OnCourse, LoopOnCourse
<1>3. WorkerOnCourse'
  <2>1. worker.pc # "idle" => worker.v \in Versions
    BY <1>1 DEF Retraining, TypeOfStore
  <2> QED
    BY <1>1, <2>1, ActiveStays DEF OnCourse, WorkerOnCourse
<1>4. LinkNamed' /\ LinkLoaded'
  BY <1>1, ActiveStays, VersionFacts DEF OnCourse, LinkNamed, LinkLoaded, TypeOfStore
<1> QED
  BY <1>1, <1>2, <1>3, <1>4 DEF OnCourse, TakingTurns

LEMMA CalmStep == Inv /\ Calm /\ [Next]_vars => Calm'
<1> SUFFICES ASSUME Inv, Calm, [Next]_vars, ~disturbed' PROVE OnCourse'
  BY DEF Calm
<1>1. TypeOfStore /\ TypeOfActivities
  BY TypeParts DEF Inv
<1>2. CASE Restart
  <2>1. loop.pc = "idle" /\ worker.pc = "idle" /\ OnCourse
    BY <1>1, <1>2, Undisturbed DEF Calm
  <2>2. latest # 0 => status[latest] = "active"
    BY <2>1 DEF OnCourse, LinkNamed
  <2>3. latest # 0 => served' = latest \/ latest \in Refused
    BY <1>2, <2>2 DEF Restart, Loads, Exists
  <2>4. loop' = LoopIdle /\ worker' = WorkerIdle /\ UNCHANGED <<status, meta, latest>>
    BY <1>2 DEF Restart, diskVars
  <2> QED
    BY <2>2, <2>3, <2>4
    DEF OnCourse, TakingTurns, LoopOnCourse, WorkerOnCourse, LinkNamed, LinkLoaded, LoopIdle, WorkerIdle
<1>3. CASE ~(LoopStep \/ WorkerStep \/ PromoteDue \/ Restart \/ \E v \in Versions : Promote(v) \/ Rollback(v))
  <2>1. UNCHANGED <<loop, worker, latest, served>> /\ ~LoopArchive
    BY <1>3 DEF Next, vars, diskVars, Operator, Discard, Delete, LoopStep, TrainerStep, MaybeDiscardRegression, TrainerSave,
       Federation, Publish, SyncGlobal, Soak
  <2> QED
    BY <2>1, OthersStayOnCourse
<1> QED
  BY <1>2, <1>3, BeginsOnCourse, LoopStaysOnCourse, WorkerStaysOnCourse DEF LoopStep

(* Whenever no switch is under way and none was overlapped or cut short,    *)
(* the "latest" link names an active version: no deletion, which takes      *)
(* discarded and archived versions only, can take the model away.           *)
THEOREM LinkNamesActive == Spec => []LinkActive
<1>1. Calm => LinkActive
  BY DEF Calm, OnCourse, LinkNamed, LinkActive, LoopSwitch
<1> QED
  BY <1>1, InvInit, InvStep, CalmInit, CalmStep, PTL DEF Spec

(* Whenever no switch is under way and none was overlapped or cut short,    *)
(* the detector has in memory what "latest" names, but for a version that   *)
(* does not load and a retrain without hot reload.                          *)
THEOREM LatestIsServed == Spec => []ServesLatest
<1>1. Inv /\ Calm => ServesLatest
  <2> SUFFICES ASSUME Inv, Calm PROVE ServesLatest
    OBVIOUS
  <2>1. ~Switching => worker.pc = "idle"
    BY TypeParts DEF Inv, TypeOfActivities, WorkerType, Switching
  <2> QED
    BY <2>1 DEF Calm, OnCourse, LinkLoaded, ServesLatest, LoopSwitch
<1> QED
  BY <1>1, InvInit, InvStep, CalmInit, CalmStep, PTL DEF Spec

-----------------------------------------------------------------------------
(* The refinement.                                                         *)

LEMMA ReleaseInit == Init => Release!RInit
<1> SUFFICES ASSUME Init PROVE Release!RInit
  OBVIOUS
<1>1. /\ latest = 1 /\ served = 1 /\ approved = {v \in Versions : v <= 1}
      /\ status = [v \in Versions |-> IF v <= 1 THEN "active" ELSE "none"]
  BY DEF Init
<1>2. Soaked \subseteq approved
  <2>1. \A v \in Versions : v <= 1 \/ ~meta[v].soaked
    BY NoMetaType DEF Init
  <2> QED
    BY <1>1, <2>1 DEF Soaked
<1>3. {1} = approved \cup Soaked
  <2>1. approved = {1}
    BY <1>1, BoundsAssumption DEF Versions
  <2> QED
    BY <1>2, <2>1
<1>4. approved \cup Soaked = {v \in Versions : status[v] = "active"}
  BY <1>1, <1>2
<1> QED
  BY <1>1, <1>3, <1>4 DEF Release!RInit

LEMMA ReleaseStep == Inv /\ [Next]_vars => [Release!RNext]_(Release!rvars)
<1> SUFFICES ASSUME Inv, [Next]_vars PROVE Release!RNext \/ UNCHANGED Release!rvars
  OBVIOUS
<1>1. TypeOfStore /\ TypeOfActivities /\ Fresh /\ Promoting /\ Pointed
  BY TypeParts DEF Inv
<1>2. status' \in [Versions -> Release!Stages] /\ Chosen \in SUBSET Versions /\ Chosen' \in SUBSET Versions
  BY <1>1, TypeOfStoreStep, ChosenVersions DEF TypeOfStore, Statuses, Release!Stages, Chosen, Soaked
<1>3. CASE UNCHANGED <<latest, served>>
  <2>1. CASE \E v \in Versions : Promote(v) \/ Rollback(v) \/ Soak(v)
    <3>1. PICK v \in Versions : Promote(v) \/ Rollback(v) \/ Soak(v)
      BY <2>1
    <3>2. Chosen' = Chosen \cup {v} /\ Exists(v) /\ UNCHANGED status
      BY <1>1, <3>1, Soaks DEF Promote, Rollback, Soak, Chosen, Soaked, diskVars, historyVars
    <3> QED
      BY <1>3, <3>1, <3>2 DEF Release!RNext, Release!Approve, Exists, Chosen
  <2>2. ASSUME \A v \in Chosen' \ Chosen : status[v] = "none"
        PROVE  Release!RNext
    <3>1. Chosen \subseteq Chosen'
      BY <1>1, <1>2, StagesMove
    <3> QED
      BY <1>1, <1>2, <1>3, <2>2, <3>1, StagesMove DEF Release!RNext, Release!Move, Chosen
  <2>3. CASE Saving
    <3>1. \E v \in Versions : /\ status[v] = "none" /\ Soaked' = Soaked
                              /\ approved \subseteq approved' /\ approved' \subseteq approved \cup {v}
      BY <1>1, <2>3, Saves
    <3> QED
      BY <2>2, <3>1 DEF Chosen
  <2>4. CASE ~(Saving \/ \E v \in Versions : Promote(v) \/ Rollback(v) \/ Soak(v))
    <3>1. UNCHANGED <<meta, approved>>
      BY <2>4 DEF Next, Saving, vars, diskVars, historyVars, Operator, Discard, Delete, LoopStep, LoopArchive, LoopActivate,
         LoopUnlink, LoopLink, LoopReload, WorkerStep, WorkerUnlink, WorkerLink, WorkerReload, TrainerStep,
         MaybeDiscardRegression, Federation, Publish, PromoteDue, Restart
    <3> QED
      BY <2>2, <3>1 DEF Chosen, Soaked
  <2> QED
    BY <2>1, <2>3, <2>4
<1>4. CASE latest' # latest
  BY <1>1, <1>4, PointersMove DEF Release!RNext, Release!Point, Chosen, Soaked
<1>5. CASE served' # served
  BY <1>1, <1>5, PointersMove DEF Release!RNext, Release!Serve, Chosen, Soaked, Pointed
<1> QED
  BY <1>3, <1>4, <1>5

(* The store, the routes, the retrain thread, the scheduler and the         *)
(* federation, with every restart in between, implement what the store      *)
(* promises: stages one way, and only what somebody chose is served.        *)
THEOREM Refinement == Spec => ImplementsRelease
BY ReleaseInit, ReleaseStep, InvInit, InvStep, PTL DEF Spec, ImplementsRelease, Release!RSpec
=============================================================================
