--------------------------- MODULE ModelLifecycle ---------------------------
(***************************************************************************)
(* The versions of one detector's model: the store on disk                 *)
(* (detection/model_store.py), the operator's routes                       *)
(* (api/routes/models.py), the auto-retrain scheduler                      *)
(* (training/scheduler.py), the global models of the federation            *)
(* (federated/participation.py) and the model in memory.                   *)
(*                                                                         *)
(* Three activities run at once in one process: the event loop ("loop"),   *)
(* on which every request and the federation's poller run to completion,   *)
(* the thread of a retrain request ("worker") and the thread in which the  *)
(* scheduler trains ("trainer").  Every file a step leaves behind is a     *)
(* step of its own, and the process may be killed between any two.         *)
(* Versions are numbered in the order of their names.                      *)
(***************************************************************************)
EXTENDS Integers

CONSTANTS MaxVersions, \* versions ever saved
          MaxGlobal,   \* global models the coordinator publishes
          MaxAuc,      \* evaluation scores are 1 .. MaxAuc, 0 is "no score"
          Refused,     \* versions whose files _load_verified refuses here
          MaxRestarts  \* times the process is killed and started again

ASSUME BoundsAssumption == /\ MaxVersions \in Nat \ {0}
                           /\ MaxGlobal \in Nat /\ MaxAuc \in Nat /\ MaxRestarts \in Nat
                           /\ Refused \subseteq 2 .. MaxVersions

VARIABLES
    status,    \* manifest "status" of each version
    meta,      \* manifest "metadata" of each version
    saved,     \* versions saved so far
    latest,    \* the version the "latest" link names, 0 for no link
    served,    \* the version the detector has in memory, 0 for none
    loop, worker, trainer, \* what each activity is in the middle of
    published, \* the newest global model of the coordinator
    approved,  \* history: versions an operator put into service
    disturbed, \* history: a switch of versions was overlapped or cut short
    restarts

diskVars    == <<status, meta, saved, latest>>
historyVars == <<approved, disturbed>>
vars == <<diskVars, served, loop, worker, trainer, published, historyVars, restarts>>

Versions == 1 .. MaxVersions
Statuses == {"none", "staged", "active", "archived", "discarded", "gone"}

(* global: the federated version id, 0 for a local model; soaked:          *)
(* promote_after has elapsed; quiet: saved by a retrain that asked for no   *)
(* hot reload.                                                             *)
MetaType == [auc: 0 .. MaxAuc, global: 0 .. MaxGlobal, soaked: BOOLEAN, quiet: BOOLEAN]
NoMeta   == [auc |-> 0, global |-> 0, soaked |-> FALSE, quiet |-> FALSE]

(* An activity, the version it is about, the active versions it has still  *)
(* to archive and the soaked versions it has still to promote.             *)
LoopType    == [pc: {"idle", "archive", "activate", "unlink", "link", "reload"}, v: 0 .. MaxVersions,
                todo: SUBSET Versions, due: SUBSET Versions]
WorkerType  == [pc: {"idle", "unlink", "link", "reload"}, v: 0 .. MaxVersions, reload: BOOLEAN]
TrainerType == [pc: {"idle", "check"}, v: 0 .. MaxVersions]

LoopIdle    == [pc |-> "idle", v |-> 0, todo |-> {}, due |-> {}]
WorkerIdle  == [pc |-> "idle", v |-> 0, reload |-> FALSE]
TrainerIdle == [pc |-> "idle", v |-> 0]

TypeOK ==
    /\ status \in [Versions -> Statuses]
    /\ meta \in [Versions -> MetaType]
    /\ saved \in 0 .. MaxVersions
    /\ latest \in 0 .. MaxVersions
    /\ served \in 0 .. MaxVersions
    /\ loop \in LoopType
    /\ worker \in WorkerType
    /\ trainer \in TrainerType
    /\ published \in 0 .. MaxGlobal
    /\ approved \in SUBSET Versions
    /\ disturbed \in BOOLEAN
    /\ restarts \in 0 .. MaxRestarts

(* The platform after its first training: one active version, loaded.       *)
Init ==
    /\ saved = 1
    /\ status = [v \in Versions |-> IF v <= saved THEN "active" ELSE "none"]
    /\ meta = [v \in Versions |-> IF v <= saved THEN [NoMeta EXCEPT !.auc = MaxAuc] ELSE NoMeta]
    /\ latest = saved /\ served = saved
    /\ loop = LoopIdle /\ worker = WorkerIdle /\ trainer = TrainerIdle
    /\ published = 0 /\ restarts = 0
    /\ approved = {v \in Versions : v <= saved}
    /\ disturbed = FALSE

(* A version is on disk; it is in the middle of being put into service.    *)
Exists(v)  == status[v] \notin {"none", "gone"}
Actives    == {v \in Versions : status[v] = "active"}
Switching  == worker.pc \in {"unlink", "link", "reload"}
LoopSwitch == loop.pc # "idle"

(* Noticed whenever both switch at once.                                   *)
Overlap(both) == disturbed' = (disturbed \/ both)

-----------------------------------------------------------------------------
(* ModelStore.save_model: the manifest of a new version.                   *)
SaveModel(v, s, m) ==
    /\ saved < MaxVersions /\ v = saved + 1
    /\ saved' = v
    /\ status' = [status EXCEPT ![v] = s]
    /\ meta' = [meta EXCEPT ![v] = m]

(* ModelStore._set_latest, first half: the old link is removed.            *)
Unlink == latest' = 0

(* Second half: symlink_to raises when somebody else made the link.        *)
Link(v) == latest = 0 /\ latest' = v
LinkExists == latest # 0 /\ UNCHANGED latest

(* The file system behind "latest" can be loaded.                          *)
Loads(v) == v # 0 /\ v \notin Refused /\ Exists(v)

(* registry.hot_reload: the detector takes what "latest" names, and keeps  *)
(* its model when the files are missing or refused.                        *)
HotReload == served' = IF Loads(latest) THEN latest ELSE served

-----------------------------------------------------------------------------
(* ModelStore.promote archives the active versions it listed, oldest       *)
(* first, and then activates its own.                                      *)
Promotion(v, todo, due) == [pc |-> IF todo = {} THEN "activate" ELSE "archive", v |-> v, todo |-> todo, due |-> due]

(* Requests of an operator, on the event loop.                             *)
Promote(v) ==
    /\ loop.pc = "idle" /\ Exists(v)
    /\ loop' = Promotion(v, Actives \ {v}, {})
    /\ approved' = approved \cup {v}
    /\ Overlap(Switching)
    /\ UNCHANGED <<diskVars, served, worker, trainer, published, restarts>>

Rollback(v) ==
    /\ loop.pc = "idle" /\ Exists(v)
    /\ loop' = Promotion(v, {}, {})
    /\ approved' = approved \cup {v}
    /\ Overlap(Switching)
    /\ UNCHANGED <<diskVars, served, worker, trainer, published, restarts>>

(* Mutant: a status word the store does not know.                          *)
DiscardUnknown(v) ==
    /\ loop.pc = "idle" /\ status[v] = "staged"
    /\ status' = [status EXCEPT ![v] = "rejected"]
    /\ UNCHANGED <<meta, saved, latest, served, loop, worker, trainer, published, historyVars, restarts>>

Discard(v) ==
    /\ loop.pc = "idle" /\ status[v] = "staged"
    /\ status' = [status EXCEPT ![v] = "discarded"]
    /\ UNCHANGED <<meta, saved, latest, served, loop, worker, trainer, published, historyVars, restarts>>

(* Mutant: staged versions may be deleted too.                             *)
DeleteStaged(S) ==
    /\ loop.pc = "idle" /\ S # {}
    /\ \A v \in S : status[v] \in {"discarded", "archived", "staged"}
    /\ status' = [v \in Versions |-> IF v \in S THEN "gone" ELSE status[v]]
    /\ UNCHANGED <<meta, saved, latest, served, loop, worker, trainer, published, historyVars, restarts>>

(* One version, or the deletable ones of a bulk request.                   *)
Delete(S) ==
    /\ loop.pc = "idle" /\ S # {}
    /\ \A v \in S : status[v] \in {"discarded", "archived"}
    /\ status' = [v \in Versions |-> IF v \in S THEN "gone" ELSE status[v]]
    /\ UNCHANGED <<meta, saved, latest, served, loop, worker, trainer, published, historyVars, restarts>>

-----------------------------------------------------------------------------
(* The steps of a promotion or a rollback on the event loop.               *)
LoopArchive ==
    /\ loop.pc = "archive"
    /\ \E v \in loop.todo :
         /\ \A u \in loop.todo : v <= u
         /\ status' = [status EXCEPT ![v] = "archived"]
         /\ loop' = Promotion(loop.v, loop.todo \ {v}, loop.due)
    /\ Overlap(Switching)
    /\ UNCHANGED <<meta, saved, latest, served, worker, trainer, published, approved, restarts>>

(* Mutant: promote forgets the link.                                       *)
LoopActivateUnlinked ==
    /\ loop.pc = "activate"
    /\ status' = [status EXCEPT ![loop.v] = "active"]
    /\ loop' = [loop EXCEPT !.pc = "reload"]
    /\ Overlap(Switching)
    /\ UNCHANGED <<meta, saved, latest, served, worker, trainer, published, approved, restarts>>

LoopActivate ==
    /\ loop.pc = "activate"
    /\ status' = [status EXCEPT ![loop.v] = "active"]
    /\ loop' = [loop EXCEPT !.pc = "unlink"]
    /\ Overlap(Switching)
    /\ UNCHANGED <<meta, saved, latest, served, worker, trainer, published, approved, restarts>>

LoopUnlink ==
    /\ loop.pc = "unlink"
    /\ Unlink
    /\ loop' = [loop EXCEPT !.pc = "link"]
    /\ Overlap(Switching)
    /\ UNCHANGED <<status, meta, saved, served, worker, trainer, published, approved, restarts>>

(* Where the event loop goes when this version is done: promote_due takes  *)
(* its next soaked version, anything else returns.                         *)
NextDue ==
    IF loop.due = {} THEN loop' = LoopIdle
    ELSE \E v \in loop.due : /\ \A u \in loop.due : v <= u
                            /\ loop' = Promotion(v, Actives \ {v}, loop.due \ {v})

(* Mutant: no hot reload after the link.                                   *)
LoopLinkOnly ==
    /\ loop.pc = "link"
    /\ Link(loop.v) \/ LinkExists
    /\ NextDue
    /\ Overlap(Switching)
    /\ UNCHANGED <<status, meta, saved, served, worker, trainer, published, approved, restarts>>

LoopLink ==
    /\ loop.pc = "link"
    /\ \/ Link(loop.v) /\ loop' = [loop EXCEPT !.pc = "reload"]
       \/ LinkExists /\ NextDue
    /\ Overlap(Switching)
    /\ UNCHANGED <<status, meta, saved, served, worker, trainer, published, approved, restarts>>

LoopReload ==
    /\ loop.pc = "reload"
    /\ HotReload
    /\ NextDue
    /\ Overlap(Switching)
    /\ UNCHANGED <<diskVars, worker, trainer, published, approved, restarts>>

-----------------------------------------------------------------------------
(* The thread of a retrain request made some time ago: _run_retrain has    *)
(* trained and saves the version active.  A failed training saves nothing. *)
WorkerSave(auc, reload) ==
    /\ worker.pc = "idle"
    /\ LET v == saved + 1 IN
         /\ SaveModel(v, "active", [auc |-> auc, global |-> 0, soaked |-> FALSE, quiet |-> ~reload])
         /\ worker' = [pc |-> "unlink", v |-> v, reload |-> reload]
         /\ approved' = approved \cup {v}
    /\ Overlap(LoopSwitch)
    /\ UNCHANGED <<latest, served, loop, trainer, published, restarts>>

WorkerUnlink ==
    /\ worker.pc = "unlink"
    /\ Unlink
    /\ worker' = [worker EXCEPT !.pc = "link"]
    /\ Overlap(LoopSwitch)
    /\ UNCHANGED <<status, meta, saved, served, loop, trainer, published, approved, restarts>>

WorkerLink ==
    /\ worker.pc = "link"
    /\ \/ /\ Link(worker.v)
          /\ worker' = IF worker.reload THEN [worker EXCEPT !.pc = "reload"] ELSE WorkerIdle
       \/ LinkExists /\ worker' = WorkerIdle
    /\ Overlap(LoopSwitch)
    /\ UNCHANGED <<status, meta, saved, served, loop, trainer, published, approved, restarts>>

WorkerReload ==
    /\ worker.pc = "reload"
    /\ HotReload
    /\ worker' = WorkerIdle
    /\ Overlap(LoopSwitch)
    /\ UNCHANGED <<diskVars, loop, trainer, published, approved, restarts>>

-----------------------------------------------------------------------------
(* The scheduler's cycle: a thread trains and saves staged, then the event *)
(* loop compares with the newest active version.                           *)
TrainerSave(auc) ==
    /\ trainer.pc = "idle"
    /\ LET v == saved + 1 IN
         /\ SaveModel(v, "staged", [NoMeta EXCEPT !.auc = auc])
         /\ trainer' = [pc |-> "check", v |-> v]
    /\ UNCHANGED <<latest, served, loop, worker, published, historyVars, restarts>>

(* The baseline is the newest version marked active; a version without a   *)
(* score is no baseline.  A discard the store refuses is only logged.      *)
Regressed(v) == \E b \in Actives : /\ \A u \in Actives : u <= b
                                   /\ meta[b].auc # 0 /\ meta[v].auc < meta[b].auc

MaybeDiscardRegression ==
    /\ trainer.pc = "check" /\ loop.pc = "idle"
    /\ LET v == trainer.v IN
         status' = IF Regressed(v) /\ status[v] = "staged"
                   THEN [status EXCEPT ![v] = "discarded"] ELSE status
    /\ trainer' = TrainerIdle
    /\ UNCHANGED <<meta, saved, latest, served, loop, worker, published, historyVars, restarts>>

-----------------------------------------------------------------------------
(* The federation: the coordinator publishes, the poller or an operator    *)
(* stages the newest global model, the soak window elapses.                *)
Publish ==
    /\ published < MaxGlobal
    /\ published' = published + 1
    /\ UNCHANGED <<diskVars, served, loop, worker, trainer, historyVars, restarts>>

AlreadyHave(g) == \E v \in Versions : meta[v].global = g /\ status[v] \in {"staged", "active"}

SyncGlobal ==
    /\ loop.pc = "idle" /\ published # 0
    /\ ~AlreadyHave(published)
    /\ SaveModel(saved + 1, "staged", [NoMeta EXCEPT !.global = published])
    /\ UNCHANGED <<latest, served, loop, worker, trainer, published, historyVars, restarts>>

Soak(v) ==
    /\ Exists(v) /\ meta[v].global # 0 /\ ~meta[v].soaked
    /\ meta' = [meta EXCEPT ![v] = [meta[v] EXCEPT !.soaked = TRUE]]
    /\ UNCHANGED <<status, saved, latest, served, loop, worker, trainer, published, historyVars, restarts>>

(* Mutants: the soak window is not looked at; a score is asked of a global *)
(* model, which has none.                                                  *)
DueAtOnce == {v \in Versions : status[v] = "staged" /\ meta[v].global # 0}
DueScored == {v \in Versions : status[v] = "staged" /\ meta[v].global # 0 /\ meta[v].soaked /\ meta[v].auc # 0}

(* Staged federated versions whose soak window elapsed.                    *)
Due == {v \in Versions : status[v] = "staged" /\ meta[v].global # 0 /\ meta[v].soaked}

(* The poller takes the oldest of them first and keeps the list it read.   *)
PromoteDue ==
    /\ loop.pc = "idle"
    /\ \E v \in Due :
         /\ \A u \in Due : v <= u
         /\ loop' = Promotion(v, Actives \ {v}, Due \ {v})
    /\ Overlap(Switching)
    /\ UNCHANGED <<diskVars, served, worker, trainer, published, approved, restarts>>

-----------------------------------------------------------------------------
(* The process is killed at any point and started again: the detector      *)
(* loads what "latest" names.                                              *)
Restart ==
    /\ restarts < MaxRestarts
    /\ restarts' = restarts + 1
    /\ served' = IF Loads(latest) THEN latest ELSE 0
    /\ loop' = LoopIdle /\ worker' = WorkerIdle /\ trainer' = TrainerIdle
    /\ Overlap(LoopSwitch \/ Switching)
    /\ UNCHANGED <<diskVars, published, approved>>

Operator == \/ \E v \in Versions : Promote(v) \/ Rollback(v) \/ Discard(v)
            \/ \E S \in SUBSET Versions : Delete(S)
LoopStep == LoopArchive \/ LoopActivate \/ LoopUnlink \/ LoopLink \/ LoopReload
WorkerStep == \/ \E auc \in 1 .. MaxAuc, reload \in BOOLEAN : WorkerSave(auc, reload)
              \/ WorkerUnlink \/ WorkerLink \/ WorkerReload
TrainerStep == MaybeDiscardRegression \/ \E auc \in 1 .. MaxAuc : TrainerSave(auc)
Federation == \/ Publish \/ PromoteDue \/ SyncGlobal
              \/ \E v \in Versions : Soak(v)

Next == Operator \/ LoopStep \/ WorkerStep \/ TrainerStep \/ Federation \/ Restart

Spec == Init /\ [][Next]_vars

(* The event loop runs what it started and comes back to the poller's      *)
(* timer among the requests (asyncio serves ready callbacks in order).     *)
FairSpec == Spec /\ WF_vars(LoopStep) /\ SF_vars(PromoteDue)

-----------------------------------------------------------------------------
(* Only an approved version is pointed at or scored with: a retrain of the *)
(* scheduler waits for an operator and a global model for the end of its   *)
(* soak, whatever runs at the same time and wherever a restart strikes.    *)
Soaked == {v \in Versions : meta[v].soaked}
ServedApproved == ({latest, served} \ {0}) \subseteq approved \cup Soaked

(* The "latest" link names an active version ("it would mean                *)
(* status=active", ModelStore.delete), so a deletion cannot take the model *)
(* away, unless a switch was overlapped by another or cut short.           *)
LinkActive == ~disturbed /\ ~LoopSwitch /\ latest # 0 => status[latest] = "active"

(* What the federation contributes as "the model the detector is actually  *)
(* running" is that model, once no switch is under way: the exceptions are *)
(* a version that does not load and a retrain without hot reload.          *)
ServesLatest == ~disturbed /\ ~LoopSwitch /\ ~Switching /\ latest # 0 =>
                    served = latest \/ latest \in Refused \/ meta[latest].quiet

(* The store's versions go through their stages as ModelRelease says.      *)
Release == INSTANCE ModelRelease WITH
    stage    <- status,
    approved <- approved \cup Soaked,
    current  <- {latest} \ {0},
    serving  <- {served} \ {0}

ImplementsRelease == Release!RSpec

(* A global model whose soak is over does not stay staged for ever.        *)
SoakDecided == \A v \in Versions : (status[v] = "staged" /\ meta[v].soaked) ~> (status[v] # "staged")

(* "promoted to active + hot-reloaded (unless the admin promoted/rejected   *)
(* them first)": a global model the operator rejected is not promoted by   *)
(* the end of a soak.                                                      *)
Rejected(g) == \E v \in Versions : meta[v].global = g /\ status[v] = "discarded"
RejectedStaysOut == [][PromoteDue => ~Rejected(meta[loop'.v].global)]_vars
=============================================================================
