--------------------------- MODULE IsolationProofs ---------------------------
(***************************************************************************)
(* Proofs about Isolation, for every number of retries and every set of    *)
(* misfortunes in which the two scheduled tasks do not overlap and the     *)
(* cmdlets of the teardown work.  Without either assumption the runs find  *)
(* the states in which the theorems fail.                                  *)
(***************************************************************************)
EXTENDS Isolation, TLAPS

ProcType == [pc: Points, job: Jobs, level: Levels \cup {"none"}]

(* Process p goes on at c with job j and level l, the other one stays.     *)
Moved(p, c, j, l) ==
    /\ proc'[p] = [pc |-> c, job |-> j, level |-> l]
    /\ \A q \in Procs : q # p => proc'[q] = proc[q]

(* One script at a time, and a teardown that does what it says.            *)
Orderly == "overlap" \notin Faults /\ "restore" \notin Faults

-----------------------------------------------------------------------------
(* What the moves of a process do to it.                                   *)
LEMMA Moves ==
  ASSUME TypeOK, NEW p \in Procs
  PROVE  /\ \A c \in Points : Goto(p, c) =>
               Moved(p, c, proc[p].job, proc[p].level) /\ proc' \in [Procs -> ProcType]
         /\ \A c \in Points, j \in Jobs, l \in Levels \cup {"none"} : Begin(p, c, j, l) =>
               Moved(p, c, j, l) /\ proc' \in [Procs -> ProcType]
         /\ Stop(p) => Moved(p, "idle", "none", "none") /\ proc' \in [Procs -> ProcType]
<1>1. proc \in [Procs -> ProcType]
  BY DEF TypeOK, ProcType
<1>2. \A r \in ProcType : proc' = [proc EXCEPT ![p] = r] =>
         /\ proc' \in [Procs -> ProcType]
         /\ proc'[p] = r
         /\ \A q \in Procs : q # p => proc'[q] = proc[q]
  BY <1>1
<1>3. \A c \in Points, j \in Jobs, l \in Levels \cup {"none"} :
         [pc |-> c, job |-> j, level |-> l] \in ProcType
  BY DEF ProcType
<1>4. ASSUME NEW c \in Points
      PROVE  [proc[p] EXCEPT !.pc = c] = [pc |-> c, job |-> proc[p].job, level |-> proc[p].level]
  BY <1>1 DEF ProcType
<1>5. proc[p].job \in Jobs /\ proc[p].level \in Levels \cup {"none"}
  BY <1>1 DEF ProcType
<1>6. Idle \in ProcType
  BY DEF Idle, ProcType, Points, Jobs
<1>7. \A c \in Points : Goto(p, c) =>
         Moved(p, c, proc[p].job, proc[p].level) /\ proc' \in [Procs -> ProcType]
  <2> SUFFICES ASSUME NEW c \in Points, Goto(p, c)
               PROVE  Moved(p, c, proc[p].job, proc[p].level) /\ proc' \in [Procs -> ProcType]
    OBVIOUS
  <2> DEFINE r == [pc |-> c, job |-> proc[p].job, level |-> proc[p].level]
  <2>1. r \in ProcType
    BY <1>3, <1>5
  <2>2. proc' = [proc EXCEPT ![p] = r]
    BY <1>4 DEF Goto
  <2> HIDE DEF r
  <2>3. proc' \in [Procs -> ProcType] /\ proc'[p] = r /\ \A q \in Procs : q # p => proc'[q] = proc[q]
    BY <1>2, <2>1, <2>2
  <2> QED
    BY <2>3 DEF Moved, r
<1>8. \A c \in Points, j \in Jobs, l \in Levels \cup {"none"} : Begin(p, c, j, l) =>
         Moved(p, c, j, l) /\ proc' \in [Procs -> ProcType]
  BY <1>2, <1>3, Zenon DEF Begin, Moved
<1>9. Stop(p) => Moved(p, "idle", "none", "none") /\ proc' \in [Procs -> ProcType]
  BY <1>2, <1>6, Zenon DEF Stop, Moved, Idle
<1> QED
  BY <1>7, <1>8, <1>9

-----------------------------------------------------------------------------
(* Types *)

LEMMA TypeOKInit == Init => TypeOK
<1> SUFFICES ASSUME Init PROVE TypeOK
  OBVIOUS
<1>1. Idle \in [pc: Points, job: Jobs, level: Levels \cup {"none"}]
  BY DEF Idle, Points, Jobs
<1>2. host \in [vpn: BOOLEAN, apiOverVpn: BOOLEAN] /\ host.vpn \in BOOLEAN
  BY DEF Init
<1>3. proc \in [Procs -> [pc: Points, job: Jobs, level: Levels \cup {"none"}]]
  BY <1>1 DEF Init
<1>4. fw \in BOOLEAN /\ vpn \in BOOLEAN /\ listed \in BOOLEAN
  BY <1>2 DEF Init
<1>5. retries \in 0 .. MaxRetries
  BY FaultsAssumption DEF Init
<1> QED
  BY <1>2, <1>3, <1>4, <1>5 DEF Init, TypeOK

(* A process at work keeps the types.                                      *)
LEMMA TypeOKWork ==
  ASSUME TypeOK, NEW p \in Procs, Step(p)
  PROVE  TypeOK'
<1>1. proc[p] \in ProcType /\ proc[p].level \in Levels \cup {"none"} /\ proc[p].job \in Jobs
  BY DEF TypeOK, ProcType
<1>2. "rollback" \in Jobs /\ "none" \in Jobs
  BY DEF Jobs
<1>3. {"lifeline", "save", "block", "level", "verify", "list", "disable", "reverify", "record",
       "arm", "reenable", "restore", "unrule", "enable", "check", "clear", "disarm", "retry", "command"}
         \subseteq Points
  BY DEF Points
<1>5. CASE Apply(p)
  <2>1. proc' \in [Procs -> ProcType]
    BY <1>5, <1>1, <1>2, <1>3, Moves
       DEF Apply, ApplyLifeline, SaveDefaults, Block, ApplyLevelRules, ApplyFails, VerifyApply,
           ListAdapters, DisableAdapters, Reverify, RecordState, Arm, RollBack, ToCommands, AfterLevel
  <2>2. /\ outb' \in {"Allow", "Block"} /\ rules' \in SUBSET {"lifeline", "level"}
        /\ saved' \in {"none", "Allow", "Block"} /\ level' \in Levels \cup {"none"}
    BY <1>5, <1>1
       DEF Apply, ApplyLifeline, SaveDefaults, Block, ApplyLevelRules, ApplyFails, VerifyApply,
           ListAdapters, DisableAdapters, Reverify, RecordState, Arm, TypeOK, fireVars, stateVars
  <2>3. fw' \in BOOLEAN /\ vpn' \in BOOLEAN /\ listed' \in BOOLEAN
    BY <1>5
       DEF Apply, ApplyLifeline, SaveDefaults, Block, ApplyLevelRules, ApplyFails, VerifyApply,
           ListAdapters, DisableAdapters, Reverify, RecordState, Arm, TypeOK, fireVars, stateVars
  <2>4. deadman' \in {"none", "armed", "spent", "failed"} /\ retries' \in 0 .. MaxRetries
    BY <1>5, FaultsAssumption
       DEF Apply, ApplyLifeline, SaveDefaults, Block, ApplyLevelRules, ApplyFails, VerifyApply,
           ListAdapters, DisableAdapters, Reverify, RecordState, Arm, TypeOK, taskVars
  <2>5. net' = net /\ host' = host
    BY <1>5
       DEF Apply, ApplyLifeline, SaveDefaults, Block, ApplyLevelRules, ApplyFails, VerifyApply,
           ListAdapters, DisableAdapters, Reverify, RecordState, Arm
  <2> QED
    BY <2>1, <2>2, <2>3, <2>4, <2>5 DEF TypeOK, ProcType
<1>6. CASE Teardown(p)
  <2>1. proc' \in [Procs -> ProcType]
    BY <1>6, <1>1, <1>2, <1>3, Moves
       DEF Teardown, RestoreDefaults, RemoveRules, ReenableAdapters, RestoreAdapters, PutBack, VerifyTeardown, ClearState, Disarm,
           Retry, ToCommands, AfterTeardown
  <2>2. /\ outb' \in {"Allow", "Block"} /\ rules' \in SUBSET {"lifeline", "level"}
        /\ saved' \in {"none", "Allow", "Block"} /\ level' \in Levels \cup {"none"}
    BY <1>6, <1>1
       DEF Teardown, RestoreDefaults, RemoveRules, ReenableAdapters, RestoreAdapters, PutBack, VerifyTeardown, ClearState, Disarm,
           Retry, TypeOK, fireVars, stateVars
  <2>3. fw' \in BOOLEAN /\ vpn' \in BOOLEAN /\ listed' \in BOOLEAN
    BY <1>6
       DEF Teardown, RestoreDefaults, RemoveRules, ReenableAdapters, RestoreAdapters, PutBack, VerifyTeardown, ClearState, Disarm,
           Retry, TypeOK, fireVars, stateVars
  <2>4. deadman' \in {"none", "armed", "spent", "failed"} /\ retries' \in 0 .. MaxRetries
    BY <1>6, FaultsAssumption
       DEF Teardown, RestoreDefaults, RemoveRules, ReenableAdapters, RestoreAdapters, PutBack, VerifyTeardown, ClearState, Disarm,
           Retry, TypeOK, taskVars
  <2>5. net' = net /\ host' = host
    BY <1>6
       DEF Teardown, RestoreDefaults, RemoveRules, ReenableAdapters, RestoreAdapters, PutBack, VerifyTeardown, ClearState, Disarm,
           Retry
  <2> QED
    BY <2>1, <2>2, <2>3, <2>4, <2>5 DEF TypeOK, ProcType
<1> QED
  BY <1>5, <1>6 DEF Step

LEMMA TypeOKStep == TypeOK /\ [Next]_vars => TypeOK'
<1> SUFFICES ASSUME TypeOK, [Next]_vars PROVE TypeOK'
  OBVIOUS
<1>1. level \in Levels \cup {"none"} /\ 0 \in 0 .. MaxRetries
  BY FaultsAssumption DEF TypeOK
<1>2. {"none", "heal", "isolate", "unisolate", "panic"} \subseteq Jobs
  BY DEF Jobs
<1>3. {"command", "restore", "lifeline"} \subseteq Points
  BY DEF Points
<1>4. "poll" \in Procs /\ "panic" \in Procs
  BY DEF Procs
<1>5. CASE StartPoll
  <2>1. proc' \in [Procs -> ProcType]
    BY <1>5, <1>1, <1>2, <1>3, <1>4, Moves DEF StartPoll, ToCommands
  <2> QED
    BY <1>5, <2>1 DEF TypeOK, ProcType, StartPoll, fireVars, stateVars, taskVars
<1>6. CASE FinishPoll
  <2>1. proc' \in [Procs -> ProcType]
    BY <1>6, <1>4, Moves DEF FinishPoll
  <2> QED
    BY <1>6, <2>1 DEF TypeOK, ProcType, FinishPoll, fireVars, stateVars, taskVars
<1>7. ASSUME NEW l \in Levels, Isolate(l) PROVE TypeOK'
  <2>1. proc' \in [Procs -> ProcType]
    BY <1>7, <1>2, <1>3, <1>4, Moves DEF Isolate
  <2> QED
    BY <1>7, <2>1 DEF TypeOK, ProcType, Isolate, fireVars, stateVars, taskVars
<1>8. CASE Unisolate
  <2>1. proc' \in [Procs -> ProcType]
    BY <1>8, <1>1, <1>2, <1>3, <1>4, Moves DEF Unisolate, TypeOK, ProcType
  <2> QED
    BY <1>8, <2>1, <1>1 DEF TypeOK, ProcType, Unisolate, fireVars, stateVars, taskVars
<1>9. CASE FireDeadman \/ AdminPanic
  <2>1. proc' \in [Procs -> ProcType]
    BY <1>9, <1>1, <1>2, <1>3, <1>4, Moves DEF FireDeadman, AdminPanic, StartPanic, TypeOK, ProcType
  <2>2. deadman' \in {"none", "armed", "spent", "failed"} /\ retries' \in 0 .. MaxRetries
    BY <1>9, <1>1 DEF FireDeadman, AdminPanic, StartPanic, TypeOK
  <2> QED
    BY <1>9, <2>1, <2>2 DEF TypeOK, ProcType, FireDeadman, AdminPanic, fireVars, stateVars
<1>10. CASE NetChanges
  BY <1>10 DEF TypeOK, NetChanges, fireVars, stateVars, taskVars
<1>11. CASE Tamper
  BY <1>11 DEF TypeOK, Tamper, stateVars, taskVars
<1>12. CASE UNCHANGED vars
  BY <1>12 DEF TypeOK, vars, fireVars, stateVars, taskVars
<1> QED
  BY <1>5, <1>6, <1>7, <1>8, <1>9, <1>10, <1>11, <1>12, TypeOKWork DEF Next, Commands

(* Every state the script can leave the host in has the right types.       *)
THEOREM TypeCorrect == Spec => []TypeOK
  BY TypeOKInit, TypeOKStep, PTL DEF Spec

-----------------------------------------------------------------------------
(* The inductive invariant *)

(* A process that does not run satisfies its part of it.                   *)
IdleFine(q) == proc[q] = Idle => Control(q) /\ Recorded(q) /\ Progress(q)

LEMMA IdleProcess == ASSUME NEW q \in Procs PROVE IdleFine(q) /\ IdleFine(q)'
  BY DEF IdleFine, Idle, Control, Recorded, Progress, At, Doing

LEMMA IInvInit == Init => IInv
<1> SUFFICES ASSUME Init PROVE IInv
  OBVIOUS
<1>1. \A p \in Procs : proc[p] = Idle
  BY DEF Init
<1>2. \A p \in Procs : Control(p) /\ Recorded(p) /\ Progress(p)
  BY <1>1, IdleProcess DEF IdleFine
<1>3. OneRuns
  BY <1>1 DEF OneRuns, Idle
<1>4. Clean
  BY DEF Init, Clean, Restored
<1> QED
  BY <1>2, <1>3, <1>4 DEF Init, IInv, Undoable, Clean, Restored

(* While p runs the other process is idle.                                 *)
LEMMA OthersIdle ==
  ASSUME IInv, NEW p \in Procs, ~At(p, "idle")
  PROVE  \A q \in Procs : q # p => proc[q] = Idle
  BY DEF IInv, OneRuns, Control, At

(* The parts of the invariant that are not about one process: what is      *)
(* shared, and, once p has come to rest, that the host is clean or has its *)
(* deadman.                                                                *)
Shared == Undoable /\ (vpn => host.vpn) /\ (listed => host.vpn) /\ saved # "Block"

Tidy(p) == proc[p].pc \in {"idle", "command"} /\ level = "none" => Clean

Covered(p) ==
    level # "none" /\ (p = "panic" => At(p, "idle")) /\ (p = "poll" => ~At(p, "arm")) => Armed

(* What a step of p has to show, when p is the one that runs.              *)
LEMMA Assemble ==
  ASSUME NEW p \in Procs,
         \A q \in Procs : q # p => proc[q] = Idle /\ proc'[q] = Idle,
         Control(p)', Recorded(p)', Progress(p)', Shared', Tidy(p)', Covered(p)'
  PROVE  IInv'
<1>1. \A q \in Procs : q # p => (Control(q) /\ Recorded(q) /\ Progress(q))'
  BY IdleProcess DEF IdleFine
<1>2. OneRuns'
  BY DEF OneRuns, Idle
<1>3. AtRest' /\ level' = "none" => Clean'
  BY DEF AtRest, Tidy
<1>4. level' # "none" /\ At("panic", "idle")' /\ ~At("poll", "arm")' => Armed'
  BY DEF At, Procs, Covered
<1> QED
  BY <1>1, <1>2, <1>3, <1>4 DEF IInv, Shared

(* A process at work keeps the invariant.                                  *)
LEMMA IInvWork ==
  ASSUME TypeOK, IInv, Orderly, NEW p \in Procs, Step(p)
  PROVE  IInv'
<1>a. /\ proc[p].pc \in Points /\ proc[p].job \in Jobs /\ proc[p].level \in Levels \cup {"none"}
      /\ proc[p] = [pc |-> proc[p].pc, job |-> proc[p].job, level |-> proc[p].level]
      /\ host.vpn \in BOOLEAN /\ vpn \in BOOLEAN /\ listed \in BOOLEAN
      /\ outb \in {"Allow", "Block"} /\ level \in Levels \cup {"none"} /\ retries \in 0 .. MaxRetries
      /\ saved \in {"none", "Allow", "Block"} /\ MaxRetries \in Nat
  BY FaultsAssumption DEF TypeOK
<1>b. /\ {"none", "rollback"} \subseteq Jobs
      /\ {"command", "lifeline", "save", "block", "level", "verify", "list", "disable", "reverify", "record",
          "arm", "reenable", "restore", "unrule", "enable", "check", "clear", "disarm", "retry"} \subseteq Points
  BY DEF Jobs, Points
<1>c. Control(p) /\ Recorded(p) /\ Progress(p) /\ Shared
  BY DEF IInv, Shared
<1>d. level # "none" /\ p = "poll" /\ proc[p].pc \notin {"idle", "arm"} => Armed
  BY OthersIdle DEF IInv, At, Idle, Procs
<1>1. ASSUME ApplyLifeline(p) PROVE IInv'
  <2>1. Moved(p, IF proc[p].level \in Blocking THEN "save" ELSE "level", proc[p].job, proc[p].level)
    BY <1>1, <1>a, <1>b, Moves DEF ApplyLifeline
  <2>2. \A q \in Procs : q # p => proc[q] = Idle /\ proc'[q] = Idle
    BY <1>1, <2>1, OthersIdle DEF ApplyLifeline, At, Moved
  <2>3. Control(p)' /\ Recorded(p)' /\ Progress(p)'
    BY <1>1, <2>1, <1>a, <1>c
       DEF ApplyLifeline, Moved, Control, Recorded, Progress, Clean, Restored, Shared, Undoable,
           Blocking, Levels, At, Doing, Idle, Procs, stateVars, taskVars
  <2>4. Shared'
    BY <1>1, <1>a, <1>c
       DEF ApplyLifeline, Shared, Undoable, Control, Progress, Clean, Restored, At, stateVars
  <2>5. Tidy(p)'
    BY <1>1, <2>1, <1>a, <1>c
       DEF ApplyLifeline, Tidy, Moved, Control, Recorded, Progress, Clean, Restored, Shared,
           Undoable, Blocking, Levels, At, Doing, Idle, Procs, stateVars, taskVars
  <2>6. Covered(p)'
    BY <1>1, <2>1, <1>a, <1>c, <1>d
       DEF ApplyLifeline, Covered, Moved, Armed, Control, Recorded, At, Doing, Procs, stateVars,
           taskVars
  <2> QED
    BY <2>2, <2>3, <2>4, <2>5, <2>6, Assemble
<1>2. ASSUME SaveDefaults(p) PROVE IInv'
  <2>1. Moved(p, "block", proc[p].job, proc[p].level)
    BY <1>2, <1>a, <1>b, Moves DEF SaveDefaults
  <2>2. \A q \in Procs : q # p => proc[q] = Idle /\ proc'[q] = Idle
    BY <1>2, <2>1, OthersIdle DEF SaveDefaults, At, Moved
  <2>3. Control(p)' /\ Recorded(p)' /\ Progress(p)'
    BY <1>2, <2>1, <1>a, <1>c
       DEF SaveDefaults, Moved, Control, Recorded, Progress, Clean, Restored, Shared, Undoable,
           Blocking, Levels, At, Doing, Idle, Procs, fireVars, taskVars
  <2>4. Shared'
    BY <1>2, <1>a, <1>c
       DEF SaveDefaults, Shared, Undoable, Control, Progress, Clean, Restored, At, fireVars
  <2>5. Tidy(p)'
    BY <1>2, <2>1, <1>a, <1>c
       DEF SaveDefaults, Tidy, Moved, Control, Recorded, Progress, Clean, Restored, Shared,
           Undoable, Blocking, Levels, At, Doing, Idle, Procs, fireVars, taskVars
  <2>6. Covered(p)'
    BY <1>2, <2>1, <1>a, <1>c, <1>d
       DEF SaveDefaults, Covered, Moved, Armed, Control, Recorded, At, Doing, Procs, taskVars
  <2> QED
    BY <2>2, <2>3, <2>4, <2>5, <2>6, Assemble
<1>3. ASSUME Block(p) PROVE IInv'
  <2>1. Moved(p, "level", proc[p].job, proc[p].level)
    BY <1>3, <1>a, <1>b, Moves DEF Block
  <2>2. \A q \in Procs : q # p => proc[q] = Idle /\ proc'[q] = Idle
    BY <1>3, <2>1, OthersIdle DEF Block, At, Moved
  <2>3. Control(p)' /\ Recorded(p)' /\ Progress(p)'
    BY <1>3, <2>1, <1>a, <1>c
       DEF Block, Moved, Control, Recorded, Progress, Clean, Restored, Shared, Undoable,
           Blocking, At, Doing, Idle, Procs, stateVars, taskVars
  <2>4. Shared'
    BY <1>3, <1>a, <1>c
       DEF Block, Shared, Undoable, Control, Progress, Clean, Restored, At, stateVars
  <2>5. Tidy(p)'
    BY <1>3, <2>1, <1>a, <1>c
       DEF Block, Tidy, Moved, Control, Recorded, Progress, Clean, Restored, Shared, Undoable,
           Blocking, At, Doing, Idle, Procs, stateVars, taskVars
  <2>6. Covered(p)'
    BY <1>3, <2>1, <1>a, <1>c, <1>d
       DEF Block, Covered, Moved, Armed, Control, Recorded, At, Doing, Procs, stateVars,
           taskVars
  <2> QED
    BY <2>2, <2>3, <2>4, <2>5, <2>6, Assemble
<1>4. ASSUME ApplyLevelRules(p) PROVE IInv'
  <2>1. Moved(p, AfterLevel(p), proc[p].job, proc[p].level)
    BY <1>4, <1>a, <1>b, Moves DEF ApplyLevelRules, AfterLevel
  <2>2. \A q \in Procs : q # p => proc[q] = Idle /\ proc'[q] = Idle
    BY <1>4, <2>1, OthersIdle DEF ApplyLevelRules, At, Moved
  <2>3. Control(p)' /\ Recorded(p)' /\ Progress(p)'
    BY <1>4, <2>1, <1>a, <1>c
       DEF ApplyLevelRules, Moved, Control, Recorded, Progress, Clean, Restored, Shared,
           Undoable, AfterLevel, Blocking, At, Doing, Idle, Procs, stateVars, taskVars
  <2>4. Shared'
    BY <1>4, <1>a, <1>c
       DEF ApplyLevelRules, Shared, Undoable, Control, Progress, Clean, Restored, At, stateVars
  <2>5. Tidy(p)'
    BY <1>4, <2>1, <1>a, <1>c
       DEF ApplyLevelRules, Tidy, Moved, Control, Recorded, Progress, Clean, Restored, Shared,
           Undoable, AfterLevel, Blocking, At, Doing, Idle, Procs, stateVars, taskVars
  <2>6. Covered(p)'
    BY <1>4, <2>1, <1>a, <1>c, <1>d
       DEF ApplyLevelRules, Covered, Moved, Armed, Control, Recorded, At, Doing, Procs,
           stateVars, taskVars
  <2> QED
    BY <2>2, <2>3, <2>4, <2>5, <2>6, Assemble
<1>5. ASSUME ApplyFails(p) PROVE IInv'
  <2>1. \/ Moved(p, "restore", "rollback", proc[p].level) /\ Doing(p, "isolate")
        \/ Moved(p, "command", "none", "none") /\ ~Doing(p, "isolate")
    BY <1>5, <1>a, <1>b, Moves DEF ApplyFails, RollBack, ToCommands
  <2>2. \A q \in Procs : q # p => proc[q] = Idle /\ proc'[q] = Idle
    BY <1>5, <2>1, OthersIdle DEF ApplyFails, At, Moved
  <2>3. Control(p)' /\ Recorded(p)' /\ Progress(p)'
    BY <1>5, <2>1, <1>a, <1>c
       DEF ApplyFails, Moved, Control, Recorded, Progress, Clean, Restored, Shared, Undoable,
           Blocking, At, Doing, Idle, Procs, fireVars, stateVars, taskVars
  <2>4. Shared'
    BY <1>5, <1>a, <1>c
       DEF ApplyFails, Shared, Undoable, Control, Progress, Clean, Restored, At, fireVars,
           stateVars
  <2>5. Tidy(p)'
    BY <1>5, <2>1, <1>a, <1>c
       DEF ApplyFails, Tidy, Moved, Control, Recorded, Progress, Clean, Restored, Shared,
           Undoable, Blocking, At, Doing, Idle, Procs, fireVars, stateVars, taskVars
  <2>6. Covered(p)'
    BY <1>5, <2>1, <1>a, <1>c, <1>d
       DEF ApplyFails, Covered, Moved, Armed, Control, Recorded, At, Doing, Procs, stateVars,
           taskVars
  <2> QED
    BY <2>2, <2>3, <2>4, <2>5, <2>6, Assemble
<1>6. ASSUME VerifyApply(p) PROVE IInv'
  <2>1. \/ Moved(p, IF proc[p].level = "full" THEN "list" ELSE "record", proc[p].job, proc[p].level)
        \/ Moved(p, "restore", "rollback", proc[p].level)
    BY <1>6, <1>a, <1>b, Moves DEF VerifyApply, RollBack
  <2>2. \A q \in Procs : q # p => proc[q] = Idle /\ proc'[q] = Idle
    BY <1>6, <2>1, OthersIdle DEF VerifyApply, At, Moved
  <2>3. Control(p)' /\ Recorded(p)' /\ Progress(p)'
    BY <1>6, <2>1, <1>a, <1>c
       DEF VerifyApply, Moved, Control, Recorded, Progress, Clean, Restored, Shared, Undoable,
           At, Doing, Idle, Procs, fireVars, stateVars, taskVars
  <2>4. Shared'
    BY <1>6, <1>a, <1>c
       DEF VerifyApply, Shared, Undoable, Control, Progress, Clean, Restored, At, fireVars,
           stateVars
  <2>5. Tidy(p)'
    BY <1>6, <2>1, <1>a, <1>c
       DEF VerifyApply, Tidy, Moved, Control, Recorded, Progress, Clean, Restored, Shared,
           Undoable, At, Doing, Idle, Procs, fireVars, stateVars, taskVars
  <2>6. Covered(p)'
    BY <1>6, <2>1, <1>a, <1>c, <1>d
       DEF VerifyApply, Covered, Moved, Armed, Control, Recorded, At, Doing, Procs, stateVars,
           taskVars
  <2> QED
    BY <2>2, <2>3, <2>4, <2>5, <2>6, Assemble
<1>7. ASSUME ListAdapters(p) PROVE IInv'
  <2>1. Moved(p, "disable", proc[p].job, proc[p].level)
    BY <1>7, <1>a, <1>b, Moves DEF ListAdapters
  <2>2. \A q \in Procs : q # p => proc[q] = Idle /\ proc'[q] = Idle
    BY <1>7, <2>1, OthersIdle DEF ListAdapters, At, Moved
  <2>3. Control(p)' /\ Recorded(p)' /\ Progress(p)'
    BY <1>7, <2>1, <1>a, <1>c
       DEF ListAdapters, Moved, Control, Recorded, Progress, Clean, Restored, Shared, Undoable,
           At, Doing, Idle, Procs, fireVars, taskVars
  <2>4. Shared'
    BY <1>7, <1>a, <1>c
       DEF ListAdapters, Shared, Undoable, Control, Progress, Clean, Restored, At, fireVars
  <2>5. Tidy(p)'
    BY <1>7, <2>1, <1>a, <1>c
       DEF ListAdapters, Tidy, Moved, Control, Recorded, Progress, Clean, Restored, Shared,
           Undoable, At, Doing, Idle, Procs, fireVars, taskVars
  <2>6. Covered(p)'
    BY <1>7, <2>1, <1>a, <1>c, <1>d
       DEF ListAdapters, Covered, Moved, Armed, Control, Recorded, At, Doing, Procs, taskVars
  <2> QED
    BY <2>2, <2>3, <2>4, <2>5, <2>6, Assemble
<1>8. ASSUME DisableAdapters(p) PROVE IInv'
  <2>1. Moved(p, IF Doing(p, "isolate") THEN "reverify" ELSE "record", proc[p].job, proc[p].level)
    BY <1>8, <1>a, <1>b, Moves DEF DisableAdapters
  <2>2. \A q \in Procs : q # p => proc[q] = Idle /\ proc'[q] = Idle
    BY <1>8, <2>1, OthersIdle DEF DisableAdapters, At, Moved
  <2>3. Control(p)' /\ Recorded(p)' /\ Progress(p)'
    BY <1>8, <2>1, <1>a, <1>c
       DEF DisableAdapters, Moved, Control, Recorded, Progress, Clean, Restored, Shared,
           Undoable, At, Doing, Idle, Procs, fireVars, stateVars, taskVars
  <2>4. Shared'
    BY <1>8, <1>a, <1>c
       DEF DisableAdapters, Shared, Undoable, Control, Progress, Clean, Restored, At, fireVars,
           stateVars
  <2>5. Tidy(p)'
    BY <1>8, <2>1, <1>a, <1>c
       DEF DisableAdapters, Tidy, Moved, Control, Recorded, Progress, Clean, Restored, Shared,
           Undoable, At, Doing, Idle, Procs, fireVars, stateVars, taskVars
  <2>6. Covered(p)'
    BY <1>8, <2>1, <1>a, <1>c, <1>d
       DEF DisableAdapters, Covered, Moved, Armed, Control, Recorded, At, Doing, Procs,
           stateVars, taskVars
  <2> QED
    BY <2>2, <2>3, <2>4, <2>5, <2>6, Assemble
<1>9. ASSUME Reverify(p) PROVE IInv'
  <2>1. \/ Moved(p, "record", proc[p].job, proc[p].level)
        \/ Moved(p, "reenable", "rollback", proc[p].level)
    BY <1>9, <1>a, <1>b, Moves DEF Reverify
  <2>2. \A q \in Procs : q # p => proc[q] = Idle /\ proc'[q] = Idle
    BY <1>9, <2>1, OthersIdle DEF Reverify, At, Moved
  <2>3. Control(p)' /\ Recorded(p)' /\ Progress(p)'
    BY <1>9, <2>1, <1>a, <1>c
       DEF Reverify, Moved, Control, Recorded, Progress, Clean, Restored, Shared, Undoable, At,
           Doing, Idle, Procs, fireVars, stateVars, taskVars
  <2>4. Shared'
    BY <1>9, <1>a, <1>c
       DEF Reverify, Shared, Undoable, Control, Progress, Clean, Restored, At, fireVars,
           stateVars
  <2>5. Tidy(p)'
    BY <1>9, <2>1, <1>a, <1>c
       DEF Reverify, Tidy, Moved, Control, Recorded, Progress, Clean, Restored, Shared, Undoable,
           At, Doing, Idle, Procs, fireVars, stateVars, taskVars
  <2>6. Covered(p)'
    BY <1>9, <2>1, <1>a, <1>c, <1>d
       DEF Reverify, Covered, Moved, Armed, Control, Recorded, At, Doing, Procs, stateVars,
           taskVars
  <2> QED
    BY <2>2, <2>3, <2>4, <2>5, <2>6, Assemble
<1>10. ASSUME RecordState(p) PROVE IInv'
  <2>1. IF Doing(p, "isolate") THEN Moved(p, "arm", proc[p].job, proc[p].level)
        ELSE Moved(p, "command", "none", "none")
    BY <1>10, <1>a, <1>b, Moves DEF RecordState, ToCommands
  <2>2. \A q \in Procs : q # p => proc[q] = Idle /\ proc'[q] = Idle
    BY <1>10, <2>1, OthersIdle DEF RecordState, At, Moved
  <2>3. Control(p)' /\ Recorded(p)' /\ Progress(p)'
    BY <1>10, <2>1, <1>a, <1>c
       DEF RecordState, Moved, Control, Recorded, Progress, Clean, Restored, Shared, Undoable,
           Levels, At, Doing, Idle, Procs, fireVars, taskVars
  <2>4. Shared'
    BY <1>10, <1>a, <1>c
       DEF RecordState, Shared, Undoable, Control, Progress, Clean, Restored, At, fireVars
  <2>5. Tidy(p)'
    BY <1>10, <2>1, <1>a, <1>c
       DEF RecordState, Tidy, Moved, Control, Recorded, Progress, Clean, Restored, Shared,
           Undoable, Levels, At, Doing, Idle, Procs, fireVars, taskVars
  <2>6. Covered(p)'
    BY <1>10, <2>1, <1>a, <1>c, <1>d
       DEF RecordState, Covered, Moved, Armed, Control, Recorded, At, Doing, Procs, taskVars
  <2> QED
    BY <2>2, <2>3, <2>4, <2>5, <2>6, Assemble
<1>11. ASSUME Arm(p) PROVE IInv'
  <2>1. Moved(p, "command", "none", "none")
    BY <1>11, <1>a, <1>b, Moves DEF Arm, ToCommands
  <2>2. \A q \in Procs : q # p => proc[q] = Idle /\ proc'[q] = Idle
    BY <1>11, <2>1, OthersIdle DEF Arm, At, Moved
  <2>3. Control(p)' /\ Recorded(p)' /\ Progress(p)'
    BY <1>11, <2>1, <1>a, <1>c
       DEF Arm, Moved, Control, Recorded, Progress, Clean, Restored, Shared, Undoable, At, Doing,
           Idle, Procs, fireVars, stateVars
  <2>4. Shared'
    BY <1>11, <1>a, <1>c
       DEF Arm, Shared, Undoable, Control, Progress, Clean, Restored, At, fireVars, stateVars
  <2>5. Tidy(p)'
    BY <1>11, <2>1, <1>a, <1>c
       DEF Arm, Tidy, Moved, Control, Recorded, Progress, Clean, Restored, Shared, Undoable, At,
           Doing, Idle, Procs, fireVars, stateVars
  <2>6. Covered(p)'
    BY <1>11, <2>1, <1>a, <1>c, <1>d
       DEF Arm, Covered, Moved, Armed, Control, Recorded, At, Doing, Procs, stateVars
  <2> QED
    BY <2>2, <2>3, <2>4, <2>5, <2>6, Assemble
<1>12. ASSUME RestoreDefaults(p) PROVE IInv'
  <2>1. Moved(p, "unrule", proc[p].job, proc[p].level)
    BY <1>12, <1>a, <1>b, Moves DEF RestoreDefaults
  <2>2. \A q \in Procs : q # p => proc[q] = Idle /\ proc'[q] = Idle
    BY <1>12, <2>1, OthersIdle DEF RestoreDefaults, At, Moved
  <2>3. Control(p)' /\ Recorded(p)' /\ Progress(p)'
    BY <1>12, <2>1, <1>a, <1>c
       DEF RestoreDefaults, Moved, Control, Recorded, Progress, Clean, Restored, Shared,
           Undoable, Orderly, At, Doing, Idle, Procs, taskVars
  <2>4. Shared'
    BY <1>12, <1>a, <1>c
       DEF RestoreDefaults, Shared, Undoable, Control, Progress, Clean, Restored, Orderly, At
  <2>5. Tidy(p)'
    BY <1>12, <2>1, <1>a, <1>c
       DEF RestoreDefaults, Tidy, Moved, Control, Recorded, Progress, Clean, Restored, Shared,
           Undoable, Orderly, At, Doing, Idle, Procs, taskVars
  <2>6. Covered(p)'
    BY <1>12, <2>1, <1>a, <1>c, <1>d
       DEF RestoreDefaults, Covered, Moved, Armed, Control, Recorded, At, Doing, Procs, taskVars
  <2> QED
    BY <2>2, <2>3, <2>4, <2>5, <2>6, Assemble
<1>13. ASSUME RemoveRules(p) PROVE IInv'
  <2>1. Moved(p, "enable", proc[p].job, proc[p].level)
    BY <1>13, <1>a, <1>b, Moves DEF RemoveRules
  <2>2. \A q \in Procs : q # p => proc[q] = Idle /\ proc'[q] = Idle
    BY <1>13, <2>1, OthersIdle DEF RemoveRules, At, Moved
  <2>3. Control(p)' /\ Recorded(p)' /\ Progress(p)'
    BY <1>13, <2>1, <1>a, <1>c
       DEF RemoveRules, Moved, Control, Recorded, Progress, Clean, Restored, Shared, Undoable,
           Orderly, At, Doing, Idle, Procs, stateVars, taskVars
  <2>4. Shared'
    BY <1>13, <1>a, <1>c
       DEF RemoveRules, Shared, Undoable, Control, Progress, Clean, Restored, Orderly, At,
           stateVars
  <2>5. Tidy(p)'
    BY <1>13, <2>1, <1>a, <1>c
       DEF RemoveRules, Tidy, Moved, Control, Recorded, Progress, Clean, Restored, Shared,
           Undoable, Orderly, At, Doing, Idle, Procs, stateVars, taskVars
  <2>6. Covered(p)'
    BY <1>13, <2>1, <1>a, <1>c, <1>d
       DEF RemoveRules, Covered, Moved, Armed, Control, Recorded, At, Doing, Procs, stateVars,
           taskVars
  <2> QED
    BY <2>2, <2>3, <2>4, <2>5, <2>6, Assemble
<1>14. ASSUME RestoreAdapters(p) PROVE IInv'
  <2>1. \/ Doing(p, "heal") /\ Moved(p, "lifeline", proc[p].job, proc[p].level)
        \/ Doing(p, "rollback") /\ Moved(p, "command", "none", "none")
        \/ proc[p].job \notin {"heal", "rollback"} /\ Moved(p, "check", proc[p].job, proc[p].level)
    BY <1>14, <1>a, <1>b, Moves DEF RestoreAdapters, AfterTeardown, ToCommands, Doing
  <2>2. \A q \in Procs : q # p => proc[q] = Idle /\ proc'[q] = Idle
    BY <1>14, <2>1, OthersIdle DEF RestoreAdapters, At, Moved
  <2>3. Control(p)' /\ Recorded(p)' /\ Progress(p)'
    BY <1>14, <2>1, <1>a, <1>c
       DEF RestoreAdapters, PutBack, Moved, Control, Recorded, Progress, Clean, Restored, Shared,
           Undoable, Orderly, At, Doing, Idle, Procs, fireVars, taskVars
  <2>4. Shared'
    BY <1>14, <1>a, <1>c
       DEF RestoreAdapters, PutBack, Shared, Undoable, Control, Progress, Clean, Restored, Orderly, At,
           fireVars
  <2>5. Tidy(p)'
    BY <1>14, <2>1, <1>a, <1>c
       DEF RestoreAdapters, PutBack, Tidy, Moved, Control, Recorded, Progress, Clean, Restored, Shared,
           Undoable, Orderly, At, Doing, Idle, Procs, fireVars, taskVars
  <2>6. Covered(p)'
    BY <1>14, <2>1, <1>a, <1>c, <1>d
       DEF RestoreAdapters, PutBack, Covered, Moved, Armed, Control, Recorded, At, Doing, Procs, taskVars
  <2> QED
    BY <2>2, <2>3, <2>4, <2>5, <2>6, Assemble
<1>15. ASSUME VerifyTeardown(p) PROVE IInv'
  <2>1. \/ Moved(p, "clear", proc[p].job, proc[p].level)
        \/ Doing(p, "panic") /\ Moved(p, "retry", proc[p].job, proc[p].level)
        \/ ~Doing(p, "panic") /\ Moved(p, "command", "none", "none")
    BY <1>15, <1>a, <1>b, Moves DEF VerifyTeardown, ToCommands
  <2>2. \A q \in Procs : q # p => proc[q] = Idle /\ proc'[q] = Idle
    BY <1>15, <2>1, OthersIdle DEF VerifyTeardown, At, Moved
  <2>3. Control(p)' /\ Recorded(p)' /\ Progress(p)'
    BY <1>15, <2>1, <1>a, <1>c
       DEF VerifyTeardown, Moved, Control, Recorded, Progress, Clean, Restored, Shared, Undoable,
           Orderly, At, Doing, Idle, Procs, fireVars, stateVars, taskVars
  <2>4. Shared'
    BY <1>15, <1>a, <1>c
       DEF VerifyTeardown, Shared, Undoable, Control, Progress, Clean, Restored, Orderly, At,
           fireVars, stateVars
  <2>5. Tidy(p)'
    BY <1>15, <2>1, <1>a, <1>c
       DEF VerifyTeardown, Tidy, Moved, Control, Recorded, Progress, Clean, Restored, Shared,
           Undoable, Orderly, At, Doing, Idle, Procs, fireVars, stateVars, taskVars
  <2>6. Covered(p)'
    BY <1>15, <2>1, <1>a, <1>c, <1>d
       DEF VerifyTeardown, Covered, Moved, Armed, Control, Recorded, At, Doing, Procs, stateVars,
           taskVars
  <2> QED
    BY <2>2, <2>3, <2>4, <2>5, <2>6, Assemble
<1>16. ASSUME ClearState(p) PROVE IInv'
  <2>1. Moved(p, "disarm", proc[p].job, proc[p].level)
    BY <1>16, <1>a, <1>b, Moves DEF ClearState
  <2>2. \A q \in Procs : q # p => proc[q] = Idle /\ proc'[q] = Idle
    BY <1>16, <2>1, OthersIdle DEF ClearState, At, Moved
  <2>3. Control(p)' /\ Recorded(p)' /\ Progress(p)'
    BY <1>16, <2>1, <1>a, <1>c
       DEF ClearState, Moved, Control, Recorded, Progress, Clean, Restored, Shared, Undoable,
           Orderly, At, Doing, Idle, Procs, fireVars, taskVars
  <2>4. Shared'
    BY <1>16, <1>a, <1>c
       DEF ClearState, Shared, Undoable, Control, Progress, Clean, Restored, Orderly, At,
           fireVars
  <2>5. Tidy(p)'
    BY <1>16, <2>1, <1>a, <1>c
       DEF ClearState, Tidy, Moved, Control, Recorded, Progress, Clean, Restored, Shared,
           Undoable, Orderly, At, Doing, Idle, Procs, fireVars, taskVars
  <2>6. Covered(p)'
    BY <1>16, <2>1, <1>a, <1>c, <1>d
       DEF ClearState, Covered, Moved, Armed, Control, Recorded, At, Doing, Procs, taskVars
  <2> QED
    BY <2>2, <2>3, <2>4, <2>5, <2>6, Assemble
<1>17. ASSUME Disarm(p) PROVE IInv'
  <2>1. IF p = "poll" THEN Moved(p, "command", "none", "none") ELSE Moved(p, "idle", "none", "none")
    BY <1>17, <1>a, <1>b, Moves DEF Disarm, ToCommands
  <2>2. \A q \in Procs : q # p => proc[q] = Idle /\ proc'[q] = Idle
    BY <1>17, <2>1, OthersIdle DEF Disarm, At, Moved
  <2>3. Control(p)' /\ Recorded(p)' /\ Progress(p)'
    BY <1>17, <2>1, <1>a, <1>c
       DEF Disarm, Moved, Control, Recorded, Progress, Clean, Restored, Shared, Undoable,
           Orderly, At, Doing, Idle, Procs, fireVars, stateVars
  <2>4. Shared'
    BY <1>17, <1>a, <1>c
       DEF Disarm, Shared, Undoable, Control, Progress, Clean, Restored, Orderly, At, fireVars,
           stateVars
  <2>5. Tidy(p)'
    BY <1>17, <2>1, <1>a, <1>c
       DEF Disarm, Tidy, Moved, Control, Recorded, Progress, Clean, Restored, Shared, Undoable,
           Orderly, At, Doing, Idle, Procs, fireVars, stateVars
  <2>6. Covered(p)'
    BY <1>17, <2>1, <1>a, <1>c, <1>d
       DEF Disarm, Covered, Moved, Armed, Control, Recorded, At, Doing, Procs, stateVars
  <2> QED
    BY <2>2, <2>3, <2>4, <2>5, <2>6, Assemble
<1>18. ASSUME Retry(p) PROVE IInv'
  <2>1. Moved(p, "idle", "none", "none")
    BY <1>18, <1>a, <1>b, Moves DEF Retry
  <2>2. \A q \in Procs : q # p => proc[q] = Idle /\ proc'[q] = Idle
    BY <1>18, <2>1, OthersIdle DEF Retry, At, Moved
  <2>3. Control(p)' /\ Recorded(p)' /\ Progress(p)'
    BY <1>18, <2>1, <1>a, <1>c
       DEF Retry, Moved, Control, Recorded, Progress, Clean, Restored, Shared, Undoable, Orderly,
           At, Doing, Idle, Procs, fireVars, stateVars, taskVars
  <2>4. Shared'
    BY <1>18, <1>a, <1>c
       DEF Retry, Shared, Undoable, Control, Progress, Clean, Restored, Orderly, At, fireVars,
           stateVars
  <2>5. Tidy(p)'
    BY <1>18, <2>1, <1>a, <1>c
       DEF Retry, Tidy, Moved, Control, Recorded, Progress, Clean, Restored, Shared, Undoable,
           Orderly, At, Doing, Idle, Procs, fireVars, stateVars, taskVars
  <2>6. Covered(p)'
    BY <1>18, <2>1, <1>a, <1>c, <1>d
       DEF Retry, Covered, Moved, Armed, Control, Recorded, At, Doing, Procs, stateVars,
           taskVars
  <2> QED
    BY <2>2, <2>3, <2>4, <2>5, <2>6, Assemble
<1>19. ASSUME ReenableAdapters(p) PROVE IInv'
  <2>1. Moved(p, "restore", proc[p].job, proc[p].level)
    BY <1>19, <1>a, <1>b, Moves DEF ReenableAdapters
  <2>2. \A q \in Procs : q # p => proc[q] = Idle /\ proc'[q] = Idle
    BY <1>19, <2>1, OthersIdle DEF ReenableAdapters, At, Moved
  <2>3. Control(p)' /\ Recorded(p)' /\ Progress(p)'
    BY <1>19, <2>1, <1>a, <1>c
       DEF ReenableAdapters, PutBack, Moved, Control, Recorded, Progress, Clean, Restored, Shared,
           Undoable, Orderly, At, Doing, Idle, Procs, fireVars, taskVars
  <2>4. Shared'
    BY <1>19, <1>a, <1>c
       DEF ReenableAdapters, PutBack, Shared, Undoable, Control, Progress, Clean, Restored, Orderly, At,
           fireVars
  <2>5. Tidy(p)'
    BY <1>19, <2>1, <1>a, <1>c
       DEF ReenableAdapters, PutBack, Tidy, Moved, Control, Recorded, Progress, Clean, Restored, Shared,
           Undoable, Orderly, At, Doing, Idle, Procs, fireVars, taskVars
  <2>6. Covered(p)'
    BY <1>19, <2>1, <1>a, <1>c, <1>d
       DEF ReenableAdapters, PutBack, Covered, Moved, Armed, Control, Recorded, At, Doing, Procs, taskVars
  <2> QED
    BY <2>2, <2>3, <2>4, <2>5, <2>6, Assemble
<1> QED
  BY <1>1, <1>2, <1>3, <1>4, <1>5, <1>6, <1>7, <1>8, <1>9, <1>10, <1>11, <1>12, <1>13, <1>14, <1>15, <1>16, <1>17, <1>18,
     <1>19
       DEF Step, Apply, Teardown

(* Every step keeps the invariant.                                         *)
LEMMA IInvStep == TypeOK /\ IInv /\ Orderly /\ [Next]_vars => IInv'
<1> SUFFICES ASSUME TypeOK, IInv, Orderly, [Next]_vars PROVE IInv'
  OBVIOUS
<1>a. level \in Levels \cup {"none"}
  BY DEF TypeOK
<1>b. "command" \in Points /\ "restore" \in Points /\ "lifeline" \in Points
      /\ {"none", "heal", "isolate", "unisolate", "panic"} \subseteq Jobs
  BY DEF Points, Jobs
<1>c. \A p \in Procs : Control(p) /\ Recorded(p) /\ Progress(p)
  BY DEF IInv
<1>d. "poll" \in Procs /\ "panic" \in Procs /\ \A p, q \in Procs : p # q => {p, q} = {"poll", "panic"}
  BY DEF Procs
<1>e. Quiet => \A p \in Procs : proc[p] = Idle
  BY <1>c DEF Quiet, Control, At
<1>f. Shared
  BY DEF IInv, Shared
<1>g. At("poll", "command") => (level = "none" => Clean) /\ (level # "none" => Armed)
  <2> SUFFICES ASSUME At("poll", "command")
               PROVE  (level = "none" => Clean) /\ (level # "none" => Armed)
    OBVIOUS
  <2>1. proc["panic"] = Idle
    BY <1>d, OthersIdle DEF At
  <2> QED
    BY <2>1 DEF IInv, AtRest, At, Procs, Idle
<1>h. Quiet => (level = "none" => Clean) /\ (level # "none" => Armed)
  BY <1>d, <1>e DEF IInv, AtRest, At, Idle
<1>1. CASE StartPoll
  <2>1. Quiet
    BY <1>1 DEF StartPoll, CanStart, Orderly
  <2>2. \/ Moved("poll", "command", "none", "none")
        \/ level # "none" /\ Moved("poll", "restore", "heal", level)
    BY <1>1, <1>a, <1>b, <1>d, Moves DEF StartPoll, ToCommands
  <2>3. \A q \in Procs : q # "poll" => proc[q] = Idle /\ proc'[q] = Idle
    BY <2>1, <2>2, <1>e DEF Moved
  <2>4. Control("poll")' /\ Recorded("poll")' /\ Progress("poll")'
    BY <1>1, <2>2 DEF StartPoll, Moved, Control, Recorded, Progress, At, Doing, stateVars
  <2>5. Tidy("poll")' /\ Covered("poll")'
    BY <1>1, <2>1, <1>h DEF StartPoll, Tidy, Covered, Clean, Restored, Armed, fireVars, stateVars, taskVars
  <2> QED
    BY <1>1, <2>3, <2>4, <2>5, <1>d, <1>f, Assemble DEF StartPoll, Shared, Undoable, fireVars, stateVars
<1>2. CASE FinishPoll
  <2>1. At("poll", "command") /\ Moved("poll", "idle", "none", "none")
    BY <1>2, <1>d, Moves DEF FinishPoll
  <2>2. \A q \in Procs : q # "poll" => proc[q] = Idle /\ proc'[q] = Idle
    BY <2>1, <1>d, OthersIdle DEF Moved, At
  <2>3. Control("poll")' /\ Recorded("poll")' /\ Progress("poll")'
    BY <2>1 DEF Moved, Control, Recorded, Progress, At, Doing, Idle
  <2>4. Tidy("poll")' /\ Covered("poll")'
    BY <1>2, <2>1, <1>g DEF FinishPoll, Tidy, Covered, Clean, Restored, Armed, fireVars, stateVars, taskVars
  <2> QED
    BY <1>2, <2>2, <2>3, <2>4, <1>d, <1>f, Assemble DEF FinishPoll, Shared, Undoable, fireVars, stateVars
<1>3. ASSUME NEW l \in Levels, Isolate(l) PROVE IInv'
  <2>1. At("poll", "command") /\ level = "none" /\ Moved("poll", "lifeline", "isolate", l)
    BY <1>3, <1>b, <1>d, Moves DEF Isolate
  <2>2. \A q \in Procs : q # "poll" => proc[q] = Idle /\ proc'[q] = Idle
    BY <2>1, <1>d, OthersIdle DEF Moved, At
  <2>3. Clean' /\ level' = "none"
    BY <1>3, <2>1, <1>g DEF Isolate, Clean, Restored, fireVars, stateVars
  <2>4. Control("poll")' /\ Recorded("poll")' /\ Progress("poll")'
    BY <2>1, <2>3 DEF Moved, Control, Recorded, Progress, At, Doing
  <2> QED
    BY <1>3, <2>2, <2>3, <2>4, <1>d, <1>f, Assemble DEF Isolate, Tidy, Covered, Shared, Undoable, fireVars, stateVars
<1>4. CASE Unisolate
  <2>1. /\ At("poll", "command")
        /\ \/ level = "none" /\ UNCHANGED proc
           \/ level # "none" /\ Moved("poll", "restore", "unisolate", level) /\ UNCHANGED taskVars
    BY <1>4, <1>a, <1>b, <1>d, Moves DEF Unisolate
  <2>2. \A q \in Procs : q # "poll" => proc[q] = Idle /\ proc'[q] = Idle
    BY <2>1, <1>d, OthersIdle DEF Moved, At
  <2>3. Control("poll")' /\ Recorded("poll")' /\ Progress("poll")'
    BY <1>4, <2>1, <1>c, <1>d
       DEF Unisolate, Moved, Control, Recorded, Progress, Clean, Restored, At, Doing, fireVars, stateVars
  <2>4. Tidy("poll")' /\ Covered("poll")'
    BY <1>4, <2>1, <1>g DEF Unisolate, Tidy, Covered, Clean, Restored, Armed, fireVars, stateVars, taskVars
  <2> QED
    BY <1>4, <2>2, <2>3, <2>4, <1>d, <1>f, Assemble DEF Unisolate, Shared, Undoable, fireVars, stateVars
<1>5. CASE FireDeadman \/ AdminPanic
  <2>1. Quiet
    BY <1>5 DEF FireDeadman, AdminPanic, CanStart, Orderly
  <2>2. \/ level = "none" /\ UNCHANGED proc
        \/ level # "none" /\ Moved("panic", "restore", "panic", level)
    BY <1>5, <1>a, <1>b, <1>d, Moves DEF FireDeadman, AdminPanic, StartPanic
  <2>3. \A q \in Procs : q # "panic" => proc[q] = Idle /\ proc'[q] = Idle
    BY <2>1, <2>2, <1>e DEF Moved
  <2>4. UNCHANGED <<fireVars, vpn, stateVars, net, host>>
    BY <1>5 DEF FireDeadman, AdminPanic
  <2>5. Control("panic")' /\ Recorded("panic")' /\ Progress("panic")'
    BY <2>2, <2>4, <2>1, <1>d, <1>e
       DEF Moved, Control, Recorded, Progress, At, Doing, Idle, stateVars
  <2>6. Tidy("panic")'
    BY <2>1, <2>4, <1>h DEF Tidy, Clean, Restored, fireVars, stateVars
  <2>7. Covered("panic")'
    BY <2>2, <2>4 DEF Covered, Moved, At, stateVars
  <2> QED
    BY <2>3, <2>4, <2>5, <2>6, <2>7, <1>d, <1>f, Assemble DEF Shared, Undoable, fireVars, stateVars
<1>6. CASE NetChanges \/ UNCHANGED vars
  <2>1. UNCHANGED <<outb, fw, rules, vpn, saved, listed, level, deadman, retries, host, proc>>
    BY <1>6 DEF NetChanges, vars, fireVars, stateVars, taskVars
  <2> QED
    BY <2>1 DEF IInv, OneRuns, Control, Recorded, Progress, Undoable, AtRest, Clean, Restored, Armed, At, Doing
<1>7. CASE Tamper
  <2>1. Quiet /\ UNCHANGED <<vpn, saved, listed, level, deadman, retries, net, host, proc>>
        /\ outb' \in {outb, "Allow"} /\ rules' \subseteq rules
    BY <1>7 DEF Tamper, stateVars, taskVars
  <2>2. \A q \in Procs : proc[q] = Idle /\ proc'[q] = Idle
    BY <2>1, <1>e
  <2>3. Control("poll")' /\ Recorded("poll")' /\ Progress("poll")'
    BY <2>2, <1>d, IdleProcess DEF IdleFine
  <2>4. Tidy("poll")' /\ Covered("poll")'
    BY <2>1, <1>h DEF Tidy, Covered, Clean, Restored, Armed
  <2> QED
    BY <2>1, <2>2, <2>3, <2>4, <1>d, <1>f, Assemble DEF Shared, Undoable
<1> QED
  BY <1>1, <1>2, <1>3, <1>4, <1>5, <1>6, <1>7, IInvWork DEF Next, Commands

-----------------------------------------------------------------------------
(* What the invariant gives *)

(* At every point of the script the host, the registry and the deadman are *)
(* in the state that point calls for.                                      *)
THEOREM IInvCorrect == ASSUME Orderly PROVE Spec => []IInv
<1>1. TypeOK /\ IInv /\ [Next]_vars => IInv'
  BY IInvStep
<1> QED
  BY <1>1, IInvInit, TypeCorrect, PTL DEF Spec

(* Everything the script has changed can be undone from what it has        *)
(* written to the registry, at every moment of an apply or a teardown.     *)
THEOREM RecoveryPossible == ASSUME Orderly PROVE Spec => []Undoable
<1>1. IInv => Undoable
  BY DEF IInv
<1> QED
  BY <1>1, IInvCorrect, PTL

(* When no script runs a host is clean or has its deadman.                 *)
LEMMA QuietStates == IInv => CleanWhenClear /\ SafetyNet
  BY DEF IInv, CleanWhenClear, SafetyNet, Quiet, AtRest, At, Procs

(* A host that counts as not isolated has nothing left of an isolation:    *)
(* a failed ISOLATE rolls back all it did, a recovery restores all of it.  *)
THEOREM NothingLeftBehind == ASSUME Orderly PROVE Spec => []CleanWhenClear
  BY IInvCorrect, QuietStates, PTL

(* An isolated host on which no script runs has a deadman that will fire,  *)
(* unless the scheduler refused it or its retries are used up.             *)
THEOREM DeadmanWaits == ASSUME Orderly PROVE Spec => []SafetyNet
  BY IInvCorrect, QuietStates, PTL

(* A step of the script that cuts the host off would block before the      *)
(* lifeline is there or remove the lifeline while it blocks.               *)
LEMMA StrandingSteps ==
  TypeOK /\ IInv /\ Orderly /\ [Next]_vars => [~Stranded /\ Stranded' => Tamper]_vars
<1> SUFFICES ASSUME TypeOK, IInv, Orderly, [Next]_vars, ~Tamper, ~Stranded
             PROVE  ~Stranded'
  BY DEF Stranded
<1>1. ASSUME NEW p \in Procs, Apply(p) PROVE ~Stranded'
  <2>1. At(p, "block") => "lifeline" \in rules
    BY DEF IInv, Progress, At
  <2>2. rules \subseteq rules'
    BY <1>1 DEF Apply, ApplyLifeline, SaveDefaults, Block, ApplyLevelRules, ApplyFails, VerifyApply,
                ListAdapters, DisableAdapters, Reverify, RecordState, Arm, fireVars
  <2>3. UNCHANGED <<outb, fw>> \/ At(p, "block")
    BY <1>1 DEF Apply, ApplyLifeline, SaveDefaults, Block, ApplyLevelRules, ApplyFails, VerifyApply,
                ListAdapters, DisableAdapters, Reverify, RecordState, Arm, fireVars
  <2> QED
    BY <2>1, <2>2, <2>3 DEF Stranded, Blocked
<1>2. ASSUME NEW p \in Procs, Teardown(p) PROVE ~Stranded'
  <2>1. At(p, "unrule") => outb = "Allow"
    BY DEF IInv, Progress, At
  <2>2. (outb' = outb \/ outb' = "Allow") /\ fw' = fw
    BY <1>2 DEF Teardown, RestoreDefaults, RemoveRules, ReenableAdapters, RestoreAdapters, PutBack, VerifyTeardown, ClearState,
                Disarm, Retry, fireVars, IInv, Undoable, TypeOK
  <2>3. UNCHANGED rules \/ (At(p, "unrule") /\ outb' = outb)
    BY <1>2 DEF Teardown, RestoreDefaults, RemoveRules, ReenableAdapters, RestoreAdapters, PutBack, VerifyTeardown, ClearState,
                Disarm, Retry, fireVars
  <2> QED
    BY <2>1, <2>2, <2>3 DEF Stranded, Blocked
<1>3. ASSUME StartPoll \/ Commands \/ FireDeadman \/ AdminPanic \/ NetChanges \/ UNCHANGED vars
      PROVE  UNCHANGED <<outb, fw, rules>>
  BY <1>3 DEF StartPoll, Commands, FinishPoll, Isolate, Unisolate, FireDeadman, AdminPanic, NetChanges,
              vars, fireVars
<1> QED
  BY <1>1, <1>2, <1>3 DEF Next, Step, Stranded, Blocked

(* No step of the script cuts the host off from the platform.              *)
THEOREM LifelineKept == ASSUME Orderly PROVE Spec => NeverStranded
<1>1. TypeOK /\ IInv /\ [Next]_vars => [~Stranded /\ Stranded' => Tamper]_vars
  BY StrandingSteps
<1> QED
  BY <1>1, IInvCorrect, TypeCorrect, PTL DEF Spec, NeverStranded
==============================================================================
