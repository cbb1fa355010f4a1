------------------------------ MODULE Isolation ------------------------------
(***************************************************************************)
(* Network isolation of an endpoint (scripts/agent_command_handler.ps1,    *)
(* isolation section): what ISOLATE and UNISOLATE commands, the self-heal  *)
(* of every poll and the deadman's PANIC do to the Windows firewall, the   *)
(* virtual adapters, the registry and the deadman task.                    *)
(*                                                                         *)
(* Two processes run the same script: "poll", started every 60 seconds,    *)
(* and "panic", started by the deadman task at the deadline or by an       *)
(* administrator.  Each side effect on the host is a step of its own.      *)
(* The three firewall profiles are one, with a default outbound action;    *)
(* the rules are two groups, "lifeline" and "level"; the virtual adapters  *)
(* are one.  Hosts whose default outbound action is Block before any       *)
(* isolation are left out.                                                 *)
(***************************************************************************)
EXTENDS Integers, FiniteSets

CONSTANTS Faults,     \* the misfortunes allowed, a subset of FaultKinds
          MaxRetries  \* DeadmanMaxRetries

FaultKinds == {"net",     \* the platform or the internet become unreachable
               "tamper",  \* something else edits the firewall between runs
               "apply",   \* a cmdlet of the apply path throws
               "arm",     \* Register-ScheduledTask throws
               "restore", \* a cmdlet of the teardown fails silently
               "overlap"} \* the two scheduled tasks run at the same time

ASSUME FaultsAssumption == Faults \subseteq FaultKinds /\ MaxRetries \in Nat

VARIABLES
    outb,    \* DefaultOutboundAction of the firewall profiles
    fw,      \* the firewall is enabled
    rules,   \* groups of APT-ISOLATE-* rules present
    vpn,     \* the virtual adapter is enabled
    saved,   \* registry IsolationOrigProfileDefaults
    listed,  \* registry IsolationDisabledAdapters names the adapter
    level,   \* registry IsolationLevel
    deadman, \* the deadman scheduled task
    retries, \* registry IsolationDeadmanRetryCount
    net,     \* what the network lets through: "api", "internet"
    host,    \* what the host was like: vpn enabled, api reached through it
    proc     \* the processes

fireVars  == <<outb, fw, rules>>
stateVars == <<saved, listed, level>>
taskVars  == <<deadman, retries>>
vars == <<fireVars, vpn, stateVars, taskVars, net, host, proc>>

Levels   == {"light", "standard", "full"}
Blocking == {"standard", "full"}
Procs    == {"poll", "panic"}
Jobs     == {"none", "heal", "isolate", "rollback", "unisolate", "panic"}
Points   == {"idle", "command", "lifeline", "save", "block", "level", "verify", "list", "disable",
             "reverify", "record", "arm", "reenable", "restore", "unrule", "enable", "check", "clear",
             "disarm", "retry"}

TypeOK ==
    /\ outb \in {"Allow", "Block"}
    /\ fw \in BOOLEAN
    /\ rules \in SUBSET {"lifeline", "level"}
    /\ vpn \in BOOLEAN
    /\ saved \in {"none", "Allow", "Block"}
    /\ listed \in BOOLEAN
    /\ level \in Levels \cup {"none"}
    /\ deadman \in {"none", "armed", "spent", "failed"}
    /\ retries \in 0 .. MaxRetries
    /\ net \in SUBSET {"api", "internet"}
    /\ host \in [vpn: BOOLEAN, apiOverVpn: BOOLEAN]
    /\ proc \in [Procs -> [pc: Points, job: Jobs, level: Levels \cup {"none"}]]

Idle == [pc |-> "idle", job |-> "none", level |-> "none"]

Init ==
    /\ outb = "Allow" /\ fw \in BOOLEAN /\ rules = {}
    /\ host \in {h \in [vpn: BOOLEAN, apiOverVpn: BOOLEAN] : h.apiOverVpn => h.vpn}
    /\ vpn = host.vpn
    /\ saved = "none" /\ listed = FALSE /\ level = "none"
    /\ deadman = "none" /\ retries = 0
    /\ net = {"api", "internet"}
    /\ proc = [p \in Procs |-> Idle]

-----------------------------------------------------------------------------
(* The probes *)

Blocked == fw /\ outb = "Block"

(* _IsolationVerifyLifeline *)
ApiReachable == /\ "api" \in net
                /\ Blocked => "lifeline" \in rules
                /\ host.apiOverVpn => vpn

(* The 1.1.1.1:443 probe of VerifyBlock and VerifyTeardown *)
InternetReachable == "internet" \in net /\ ~Blocked

(* _IsolationVerifyTeardown.  The restore step has removed the adapter     *)
(* list and the saved defaults by then, so of its five checks these bite.  *)
TeardownVerified ==
    /\ rules = {}
    /\ listed => vpn
    /\ ~(outb = "Block" /\ saved # "none")
    /\ InternetReachable

-----------------------------------------------------------------------------
(* Processes *)

Quiet == \A p \in Procs : proc[p].pc = "idle"

CanStart(p) == proc[p].pc = "idle" /\ (Quiet \/ "overlap" \in Faults)

At(p, pc) == proc[p].pc = pc

Goto(p, pc) == proc' = [proc EXCEPT ![p] = [proc[p] EXCEPT !.pc = pc]]

Begin(p, pc, job, lvl) == proc' = [proc EXCEPT ![p] = [pc |-> pc, job |-> job, level |-> lvl]]

Stop(p) == proc' = [proc EXCEPT ![p] = Idle]

ToCommands(p) == Begin(p, "command", "none", "none")

Doing(p, job) == proc[p].job = job

(* Invoke-Isolate tears down what it did; the self-heal logs and goes on.  *)
RollBack(p) == Begin(p, "restore", "rollback", proc[p].level)

-----------------------------------------------------------------------------
(* One poll of the endpoint: self-heal, then the commands the server sent. *)

(* _IsolationSelfHeal looks at one rule of the lifeline.                   *)
StartPoll ==
    /\ CanStart("poll")
    /\ \/ /\ level = "none" \/ "lifeline" \in rules
          /\ ToCommands("poll")
       \/ /\ level # "none" /\ "lifeline" \notin rules
          /\ \/ Begin("poll", "restore", "heal", level)
             \/ "net" \in Faults /\ ToCommands("poll")      \* resolve failed
    /\ UNCHANGED <<fireVars, vpn, stateVars, taskVars, net, host>>

(* Commands, if the server can be reached, and the end of the run.         *)
FinishPoll ==
    /\ At("poll", "command")
    /\ Stop("poll")
    /\ UNCHANGED <<fireVars, vpn, stateVars, taskVars, net, host>>

(* Every other case of Invoke-Isolate's opening (the level it has already, *)
(* another level, no lifeline) answers and changes nothing.                *)
Isolate(l) ==
    /\ At("poll", "command")
    /\ ApiReachable
    /\ level = "none"
    /\ Begin("poll", "lifeline", "isolate", l)
    /\ UNCHANGED <<fireVars, vpn, stateVars, taskVars, net, host>>

(* With nothing recorded an orphan deadman is scrubbed.                    *)
Unisolate ==
    /\ At("poll", "command")
    /\ ApiReachable
    /\ IF level = "none"
       THEN deadman' = "none" /\ retries' = 0 /\ UNCHANGED proc
       ELSE Begin("poll", "restore", "unisolate", level) /\ UNCHANGED taskVars
    /\ UNCHANGED <<fireVars, vpn, stateVars, net, host>>

-----------------------------------------------------------------------------
(* Putting an isolation up *)

ApplyLifeline(p) ==
    /\ At(p, "lifeline")
    /\ rules' = rules \cup {"lifeline"}
    /\ Goto(p, IF proc[p].level \in Blocking THEN "save" ELSE "level")
    /\ UNCHANGED <<outb, fw, vpn, stateVars, taskVars, net, host>>

(* Mutant: the call is missing.                                             *)
SaveDefaultsSkipped(p) ==
    /\ At(p, "save")
    /\ Goto(p, "block")
    /\ UNCHANGED <<fireVars, vpn, stateVars, taskVars, net, host>>

(* _IsolationSaveProfileDefaults overwrites what was saved before.         *)
SaveDefaults(p) ==
    /\ At(p, "save")
    /\ saved' = outb
    /\ Goto(p, "block")
    /\ UNCHANGED <<fireVars, vpn, listed, level, taskVars, net, host>>

(* _IsolationEnsureFirewallEnabled only warns when it fails.               *)
Block(p) ==
    /\ At(p, "block")
    /\ outb' = "Block"
    /\ fw' = TRUE \/ ("apply" \in Faults /\ UNCHANGED fw)
    /\ Goto(p, "level")
    /\ UNCHANGED <<rules, vpn, stateVars, taskVars, net, host>>

(* What a completed apply goes on with.                                    *)
AfterLevel(p) ==
    IF Doing(p, "isolate") THEN "verify"
    ELSE IF proc[p].level = "full" THEN "list" ELSE "record"

ApplyLevelRules(p) ==
    /\ At(p, "level")
    /\ rules' = rules \cup {"level"}
    /\ Goto(p, AfterLevel(p))
    /\ UNCHANGED <<outb, fw, vpn, stateVars, taskVars, net, host>>

(* Mutant: a failed apply is reported without undoing what was done.        *)
ApplyFailsUndone(p) ==
    /\ "apply" \in Faults
    /\ proc[p].pc \in {"lifeline", "save", "block", "level"}
    /\ ToCommands(p)
    /\ UNCHANGED <<fireVars, vpn, stateVars, taskVars, net, host>>

ApplyFails(p) ==
    /\ "apply" \in Faults
    /\ proc[p].pc \in {"lifeline", "save", "block", "level"}
    /\ IF Doing(p, "isolate") THEN RollBack(p) ELSE ToCommands(p)
    /\ UNCHANGED <<fireVars, vpn, stateVars, taskVars, net, host>>

VerifyApply(p) ==
    /\ At(p, "verify")
    /\ IF ApiReachable /\ (proc[p].level \in Blocking => ~InternetReachable)
       THEN Goto(p, IF proc[p].level = "full" THEN "list" ELSE "record")
       ELSE RollBack(p)
    /\ UNCHANGED <<fireVars, vpn, stateVars, taskVars, net, host>>

(* The names of the adapters that are up are stored before the disable.    *)
ListAdapters(p) ==
    /\ At(p, "list")
    /\ listed' = vpn
    /\ Goto(p, "disable")
    /\ UNCHANGED <<fireVars, vpn, saved, level, taskVars, net, host>>

DisableAdapters(p) ==
    /\ At(p, "disable")
    /\ vpn' = (vpn /\ ~listed) \/ ("apply" \in Faults /\ UNCHANGED vpn)
    /\ Goto(p, IF Doing(p, "isolate") THEN "reverify" ELSE "record")
    /\ UNCHANGED <<fireVars, stateVars, taskVars, net, host>>

(* The adapters may be the way to the server: they are put back first.     *)
Reverify(p) ==
    /\ At(p, "reverify")
    /\ IF ApiReachable THEN Goto(p, "record")
                       ELSE Begin(p, "reenable", "rollback", proc[p].level)
    /\ UNCHANGED <<fireVars, vpn, stateVars, taskVars, net, host>>

(* _IsolationWriteState.  A self-heal writes the level it read at first.   *)
RecordState(p) ==
    /\ At(p, "record")
    /\ level' = proc[p].level
    /\ IF Doing(p, "isolate") THEN Goto(p, "arm") ELSE ToCommands(p)
    /\ UNCHANGED <<fireVars, vpn, saved, listed, taskVars, net, host>>

(* A deadman that cannot be registered is flagged in the result, no more.  *)
Arm(p) ==
    /\ At(p, "arm")
    /\ retries' = 0
    /\ deadman' = "armed" \/ ("arm" \in Faults /\ deadman' = "failed")
    /\ ToCommands(p)
    /\ UNCHANGED <<fireVars, vpn, stateVars, net, host>>

-----------------------------------------------------------------------------
(* Taking it down: _IsolationTeardown *)

(* _IsolationRestoreAdapters forgets the list even when they stay down.    *)
PutBack == /\ listed' = FALSE
           /\ vpn' = (vpn \/ listed) \/ ("restore" \in Faults /\ UNCHANGED vpn)

ReenableAdapters(p) ==
    /\ At(p, "reenable")
    /\ PutBack
    /\ Goto(p, "restore")
    /\ UNCHANGED <<fireVars, saved, level, taskVars, net, host>>

(* Mutant: the rules go first.                                              *)
RestoreDefaultsLast(p) ==
    /\ At(p, "restore")
    /\ rules' = {}
    /\ Goto(p, "unrule")
    /\ UNCHANGED <<outb, fw, vpn, stateVars, taskVars, net, host>>

(* The saved defaults are forgotten even when they could not be set.       *)
RestoreDefaults(p) ==
    /\ At(p, "restore")
    /\ saved' = "none"
    /\ \/ outb' = IF saved = "none" THEN outb ELSE saved
       \/ "restore" \in Faults /\ UNCHANGED outb
    /\ Goto(p, "unrule")
    /\ UNCHANGED <<fw, rules, vpn, listed, level, taskVars, net, host>>

RemoveRules(p) ==
    /\ At(p, "unrule")
    /\ rules' = {} \/ ("restore" \in Faults /\ UNCHANGED rules)
    /\ Goto(p, "enable")
    /\ UNCHANGED <<outb, fw, vpn, stateVars, taskVars, net, host>>

AfterTeardown(p) ==
    CASE Doing(p, "heal")     -> Goto(p, "lifeline")
      [] Doing(p, "rollback") -> ToCommands(p)
      [] OTHER                -> Goto(p, "check")

RestoreAdapters(p) ==
    /\ At(p, "enable")
    /\ PutBack
    /\ AfterTeardown(p)
    /\ UNCHANGED <<fireVars, saved, level, taskVars, net, host>>

(* Mutant: the deadman is removed whatever the verification says.           *)
VerifyTeardownDisarming(p) ==
    /\ At(p, "check")
    /\ Goto(p, IF TeardownVerified THEN "clear" ELSE "disarm")
    /\ UNCHANGED <<fireVars, vpn, stateVars, taskVars, net, host>>

(* A panic that fails re-arms the deadman; an UNISOLATE that fails leaves  *)
(* it and the recorded state as they are.                                  *)
VerifyTeardown(p) ==
    /\ At(p, "check")
    /\ IF TeardownVerified THEN Goto(p, "clear")
       ELSE IF Doing(p, "panic") THEN Goto(p, "retry") ELSE ToCommands(p)
    /\ UNCHANGED <<fireVars, vpn, stateVars, taskVars, net, host>>

ClearState(p) ==
    /\ At(p, "clear")
    /\ level' = "none" /\ saved' = "none" /\ listed' = FALSE
    /\ Goto(p, "disarm")
    /\ UNCHANGED <<fireVars, vpn, taskVars, net, host>>

Disarm(p) ==
    /\ At(p, "disarm")
    /\ deadman' = "none" /\ retries' = 0
    /\ IF p = "poll" THEN ToCommands(p) ELSE Stop(p)
    /\ UNCHANGED <<fireVars, vpn, stateVars, net, host>>

-----------------------------------------------------------------------------
(* Invoke-PanicUnisolate *)

StartPanic ==
    IF level = "none"
    THEN deadman' = "none" /\ retries' = 0 /\ UNCHANGED proc
    ELSE Begin("panic", "restore", "panic", level) /\ UNCHANGED retries

(* The one-shot task fires at its deadline.                                *)
FireDeadman ==
    /\ CanStart("panic") /\ deadman = "armed"
    /\ StartPanic
    /\ level # "none" => deadman' = "spent"
    /\ UNCHANGED <<fireVars, vpn, stateVars, net, host>>

AdminPanic ==
    /\ CanStart("panic")
    /\ StartPanic
    /\ level # "none" => UNCHANGED deadman
    /\ UNCHANGED <<fireVars, vpn, stateVars, net, host>>

(* Mutant: the count is kept, the task is not registered.                   *)
RetryWithoutTask(p) ==
    /\ At(p, "retry")
    /\ retries' = IF retries < MaxRetries THEN retries + 1 ELSE retries
    /\ Stop(p)
    /\ UNCHANGED <<fireVars, vpn, stateVars, deadman, net, host>>

(* Mutant: the cap is not looked at.                                        *)
RetryUncapped(p) ==
    /\ At(p, "retry")
    /\ deadman' = "armed" /\ retries' = retries + 1
    /\ Stop(p)
    /\ UNCHANGED <<fireVars, vpn, stateVars, net, host>>

(* _IsolationDeadmanRetry.  Registering replaces the task, so a failure to *)
(* register leaves none.                                                   *)
Retry(p) ==
    /\ At(p, "retry")
    /\ \/ /\ retries < MaxRetries
          /\ \/ deadman' = "armed" /\ retries' = retries + 1
             \/ "arm" \in Faults /\ deadman' = "failed" /\ UNCHANGED retries
       \/ retries >= MaxRetries /\ UNCHANGED taskVars
    /\ Stop(p)
    /\ UNCHANGED <<fireVars, vpn, stateVars, net, host>>

-----------------------------------------------------------------------------
(* Misfortunes *)

(* The process dies: a reboot, or the task's execution time limit.         *)
Kill(p) ==
    /\ proc[p].pc # "idle"
    /\ Stop(p)
    /\ UNCHANGED <<fireVars, vpn, stateVars, taskVars, net, host>>

NetChanges ==
    /\ "net" \in Faults
    /\ net' \in SUBSET {"api", "internet"} \ {net}
    /\ UNCHANGED <<fireVars, vpn, stateVars, taskVars, host, proc>>

(* AV, a GPO or netsh: rules vanish, or the default action is reset.       *)
Tamper ==
    /\ "tamper" \in Faults /\ Quiet
    /\ \/ \E g \in rules : rules' = rules \ {g} /\ UNCHANGED <<outb, fw>>
       \/ outb' = "Allow" /\ UNCHANGED <<rules, fw>>
       \/ fw' = FALSE /\ UNCHANGED <<rules, outb>>
    /\ UNCHANGED <<vpn, stateVars, taskVars, net, host, proc>>

-----------------------------------------------------------------------------
Commands == \/ Unisolate \/ FinishPoll
            \/ \E l \in Levels : Isolate(l)

Apply(p) == \/ ApplyLifeline(p) \/ SaveDefaults(p) \/ Block(p) \/ ApplyLevelRules(p)
            \/ ApplyFails(p) \/ VerifyApply(p) \/ ListAdapters(p) \/ DisableAdapters(p)
            \/ Reverify(p) \/ RecordState(p) \/ Arm(p)

Teardown(p) == \/ ReenableAdapters(p) \/ RestoreDefaults(p) \/ RemoveRules(p) \/ RestoreAdapters(p)
               \/ VerifyTeardown(p) \/ ClearState(p) \/ Disarm(p) \/ Retry(p)

Step(p) == Apply(p) \/ Teardown(p)

Next == \/ StartPoll \/ Commands \/ FireDeadman \/ AdminPanic
        \/ \E p \in Procs : Step(p)
        \/ NetChanges \/ Tamper

Spec == Init /\ [][Next]_vars

InterruptedSpec == Init /\ [][Next \/ \E p \in Procs : Kill(p)]_vars

(* A script that runs goes on; a poll has a finite batch of commands, so   *)
(* it ends; an armed task fires in the end, and that polls run every       *)
(* minute does not prevent it (hence the strong fairness).                 *)
Fairness ==
    /\ \A p \in Procs : WF_vars(Step(p))
    /\ SF_vars(FinishPoll)
    /\ SF_vars(FireDeadman)

FairSpec == Spec /\ Fairness

-----------------------------------------------------------------------------
(* The inductive invariant, as long as one process runs at a time and the  *)
(* teardown's cmdlets work.                                                *)

Restored == outb = "Allow" /\ rules = {} /\ vpn = host.vpn

(* Nothing of an isolation is left on the host or waiting to be undone.    *)
Clean == Restored /\ saved = "none" /\ ~listed

(* Whatever isolation has changed is recorded while it is changed, so that *)
(* a recovery finds what to put back: the default action it replaced       *)
(* (never the Block it has put there itself) and the adapter it disabled.  *)
Undoable == /\ outb = "Block" => saved = "Allow"
            /\ host.vpn /\ ~vpn => listed

OneRuns == \A p, q \in Procs : proc[p].pc # "idle" /\ proc[q].pc # "idle" => p = q

(* Which process does what.                                                *)
Control(p) ==
    /\ At(p, "idle") => proc[p] = Idle
    /\ proc[p].pc \in {"lifeline", "save", "block", "level", "list", "disable", "record"} =>
          proc[p].job \in {"isolate", "heal"} /\ proc[p].level \in Levels
    /\ proc[p].pc \in {"save", "block"} => proc[p].level \in Blocking
    /\ proc[p].pc \in {"verify", "reverify", "arm"} => Doing(p, "isolate") /\ proc[p].level \in Levels
    /\ proc[p].pc \in {"restore", "unrule", "enable"} =>
          proc[p].job \in {"heal", "rollback", "unisolate", "panic"}
    /\ proc[p].pc \in {"check", "clear", "disarm"} => proc[p].job \in {"unisolate", "panic"}
    /\ At(p, "reenable") => Doing(p, "rollback")
    /\ At(p, "retry") => Doing(p, "panic")
    /\ At(p, "command") => p = "poll" /\ Doing(p, "none")
    /\ ~At(p, "idle") => (Doing(p, "panic") <=> p = "panic")

(* What is recorded as the level meanwhile.                                *)
Recorded(p) ==
    /\ Doing(p, "heal") => level = proc[p].level /\ level # "none"
    /\ Doing(p, "isolate") => (level = "none" <=> ~At(p, "arm"))
    /\ Doing(p, "rollback") => level = "none"
    /\ proc[p].job \in {"unisolate", "panic"} => (level = "none" <=> At(p, "disarm"))

(* How far the host has got.                                               *)
Progress(p) ==
    /\ proc[p].pc \in {"lifeline", "check", "clear", "disarm", "retry"} => Clean
    /\ proc[p].pc \in {"save", "block", "level", "verify", "list"} => vpn = host.vpn /\ ~listed
    /\ proc[p].pc \in {"save", "block"} => outb = "Allow" /\ "lifeline" \in rules
    /\ At(p, "block") => saved = "Allow"
    /\ At(p, "disable") => listed = host.vpn
    /\ proc[p].pc \in {"unrule", "enable"} => outb = "Allow" /\ saved = "none"
    /\ At(p, "enable") => rules = {}

(* Between the side effects of one operation and those of the next.        *)
AtRest == \A p \in Procs : proc[p].pc \in {"idle", "command"}

Armed == deadman \in {"armed", "failed"} \/ retries = MaxRetries

IInv ==
    /\ OneRuns
    /\ \A p \in Procs : Control(p) /\ Recorded(p) /\ Progress(p)
    /\ Undoable
    /\ (vpn => host.vpn) /\ (listed => host.vpn) /\ saved # "Block"
    /\ AtRest /\ level = "none" => Clean
    /\ level # "none" /\ At("panic", "idle") /\ ~At("poll", "arm") => Armed

-----------------------------------------------------------------------------
(* Properties *)

Stranded == Blocked /\ "lifeline" \notin rules

(* The script never cuts the host off from the platform: it blocks after   *)
(* the lifeline rules are there and removes them after it has unblocked.   *)
NeverStranded == [][~Stranded /\ Stranded' => Tamper]_vars

(* When nothing is recorded and no script runs, no trace of isolation is   *)
(* left: a failed ISOLATE was rolled back, a recovery restored everything. *)
CleanWhenClear ==
    Quiet /\ level = "none" => Clean

(* A host left isolated has a deadman waiting, unless the scheduler        *)
(* refused it (the result says so) or all retries have been used.          *)
SafetyNet == Quiet /\ level # "none" => Armed

(* "if nothing has lifted isolation by the TTL, fire -PanicUnisolate and   *)
(* restore the host": an isolation with a deadman ends, unless the probes  *)
(* fail it through all its retries or the scheduler refuses one of them.   *)
DeadmanLifts ==
    (level # "none" /\ deadman = "armed") ~>
        (level = "none" \/ retries = MaxRetries \/ deadman = "failed")
=============================================================================
