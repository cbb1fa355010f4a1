---------------------------- MODULE HandlerUpdate ----------------------------
(***************************************************************************)
(* The handler script of one endpoint and its replacement over the air:    *)
(* the version store on the server (api/handler_store.py), the operator's   *)
(* routes (api/routes/admin.py), the two routes endpoints fetch from       *)
(* (api/routes/agent.py) and the updater inside the script                 *)
(* (scripts/agent_command_handler.ps1).                                    *)
(*                                                                         *)
(* The endpoint runs one poll at a time; the operator acts on the store    *)
(* between any two of its steps.  A script is its content.  Files are      *)
(* moved one at a time and the process may be killed between two moves.    *)
(* The command channel (FleetCommands) is reduced to what this part sees    *)
(* of it: a first-in first-out queue whose answer may be lost.             *)
(***************************************************************************)
EXTENDS Naturals, Sequences, FiniteSets

CONSTANTS Labels,     \* version labels an operator may choose
          AutoLabels, \* the labels handler_scan generates
          Contents,   \* scripts that pass the store's own validation
          Sound,      \* those that pass the endpoint's self-test as well
          Installed,  \* the script deploy_endpoint.ps1 put on the endpoint
          None,       \* no file, no label
          MaxUploads, MaxCommands, MaxKills

ASSUME HandlerAssumption ==
    /\ Sound \subseteq Contents /\ Installed \in Sound
    /\ None \notin Labels \cup AutoLabels \cup Contents
    /\ MaxUploads \in Nat /\ MaxCommands \in Nat /\ MaxKills \in Nat

VARIABLES
    store,    \* the handler_versions table, by label
    queue,    \* commands waiting for the endpoint
    files,    \* the endpoint's live script and its .bak
    reg,      \* the endpoint's registry: version, sha256, previous, bad version
    agent,    \* what the running poll is in the middle of
    batch,    \* commands the poll was answered with and has not run yet
    uploads, commands, kills,
    held,     \* history: (label, content) pairs the store has ever held
    crumbs,   \* history: a verified update is what last wrote the crumbs
    torn      \* history: a process was killed while it moved files

serverVars   == <<store, queue, uploads, commands, held>>
endpointVars == <<files, reg, agent, batch, crumbs, torn>>
vars == <<serverVars, endpointVars, kills>>

AllLabels == Labels \cup AutoLabels
Label == AllLabels \cup {None}
File  == Contents \cup {None}

Row == [status: {"staged", "live", "archived"}, content: Contents]
       \cup {[status |-> "none", content |-> None]}
NoRow == [status |-> "none", content |-> None]

Command == [type: {"update"}, version: AllLabels] \cup [type: {"rollback"}, version: {None}]

(* Where a poll stands: "manifest" is the top-of-poll check, "ask" the      *)
(* request for commands, "commands" between two of them; the "rb" places   *)
(* are Invoke-RollbackHandler's.                                            *)
Places == {"idle", "ask", "commands", "fetch", "drop", "rotate", "place", "verify",
           "restore", "markbad", "register", "rbTake", "rbPut", "rbKeep", "rbRegister"}
Agent == [pc: Places, version: Label, sha: File, auto: BOOLEAN, aside: File]
Idle  == [pc |-> "idle", version |-> None, sha |-> None, auto |-> FALSE, aside |-> None]

Exists(l)   == store[l].status # "none"
LiveLabels  == {l \in AllLabels : store[l].status = "live"}
HasContent(c) == \E l \in AllLabels : store[l].content = c

Init ==
    /\ store = [l \in AllLabels |-> NoRow]
    /\ queue = <<>> /\ batch = <<>>
    /\ files = [live |-> Installed, bak |-> None]
    /\ reg = [version |-> None, sha |-> None, prev |-> None, bad |-> None]
    /\ agent = Idle
    /\ uploads = 0 /\ commands = 0 /\ kills = 0
    /\ held = {} /\ crumbs = FALSE /\ torn = FALSE

-----------------------------------------------------------------------------
(* The store and the operator's routes.                                    *)

(* A row is created staged, under a label no other row has.                 *)
Stage(tbl, l, c) ==
    /\ uploads < MaxUploads
    /\ tbl[l] = NoRow
    /\ store' = [tbl EXCEPT ![l] = [status |-> "staged", content |-> c]]
    /\ uploads' = uploads + 1
    /\ held' = held \cup {<<l, c>>}

Upload(l, c) ==
    /\ l \in Labels
    /\ Stage(store, l, c)
    /\ UNCHANGED <<queue, commands, kills, endpointVars>>

(* The scan of the server's own script: nothing when its bytes are already  *)
(* in a row, else it takes the place of the staged row of an earlier scan.  *)
WithoutAutoStage == [l \in AllLabels |->
    IF l \in AutoLabels /\ store[l].status = "staged" THEN NoRow ELSE store[l]]

Scan(l, c) ==
    /\ l \in AutoLabels
    /\ ~HasContent(c)
    /\ Stage(WithoutAutoStage, l, c)
    /\ UNCHANGED <<queue, commands, kills, endpointVars>>

\* Mutant: the version that was live stays live.
PromotedOnly(tbl, l) == [tbl EXCEPT ![l].status = "live"]

(* What was live is archived; a staged or archived row becomes live.        *)
Promoted(tbl, l) == [k \in AllLabels |->
    IF k = l THEN [tbl[k] EXCEPT !.status = "live"]
    ELSE IF tbl[k].status = "live" THEN [tbl[k] EXCEPT !.status = "archived"]
    ELSE tbl[k]]

Promote(l) ==
    /\ store[l].status \in {"staged", "archived"}
    /\ store' = Promoted(store, l)
    /\ UNCHANGED <<queue, uploads, commands, held, kills, endpointVars>>

Delete(l) ==
    /\ store[l].status \in {"staged", "archived"}
    /\ store' = [store EXCEPT ![l] = NoRow]
    /\ UNCHANGED <<queue, uploads, commands, held, kills, endpointVars>>

Enqueue(cmd) ==
    /\ commands < MaxCommands
    /\ queue' = Append(queue, cmd)
    /\ commands' = commands + 1
    /\ UNCHANGED <<store, uploads, held, kills, endpointVars>>

(* handler_push names any version of the store, handler_retry the live one. *)
Push(l)      == Exists(l) /\ Enqueue([type |-> "update", version |-> l])
Retry        == \E l \in LiveLabels : Enqueue([type |-> "update", version |-> l])
PushRollback == Enqueue([type |-> "rollback", version |-> None])

Operator ==
    \/ \E l \in AllLabels, c \in Contents : Upload(l, c) \/ Scan(l, c)
    \/ \E l \in AllLabels : Promote(l) \/ Delete(l) \/ Push(l)
    \/ Retry
    \/ PushRollback

-----------------------------------------------------------------------------
(* The endpoint's poll.                                                    *)

At(pc) == agent.pc = pc
GoTo(pc) == agent' = [agent EXCEPT !.pc = pc]
Resume(auto) == [Idle EXCEPT !.pc = IF auto THEN "ask" ELSE "commands"]
FilesAndRegistry == <<files, reg, crumbs, torn>>

(* The rest of the poll goes on, whatever became of the update.             *)
Return == agent' = Resume(agent.auto)

(* The script must be there for the task to run.  A manifest that cannot    *)
(* be read, names nothing, or names the version in the registry ends the    *)
(* check; any other live version is fetched.                               *)
PollStarts ==
    /\ At("idle") /\ files.live # None
    /\ agent' = [Idle EXCEPT !.pc = "ask"]
    /\ UNCHANGED <<serverVars, FilesAndRegistry, batch, kills>>

FetchOf(l, auto) == [pc |-> "fetch", version |-> l, sha |-> store[l].content,
                     auto |-> auto, aside |-> None]

\* Mutant: a version that failed here once is never tried again.
SelfUpdateOnce ==
    /\ At("idle") /\ files.live # None
    /\ \E l \in LiveLabels : /\ l \notin {reg.version, reg.bad}
                             /\ agent' = FetchOf(l, TRUE)
    /\ UNCHANGED <<serverVars, FilesAndRegistry, batch, kills>>

SelfUpdate ==
    /\ At("idle") /\ files.live # None
    /\ \E l \in LiveLabels : /\ l # reg.version
                             /\ agent' = FetchOf(l, TRUE)
    /\ UNCHANGED <<serverVars, FilesAndRegistry, batch, kills>>

(* The content arrives under the label the manifest named.  It may be       *)
(* lost, refused by the syntax check, gone, or not what the manifest        *)
(* promised: nothing has been touched then.                                *)
FetchFails ==
    /\ At("fetch")
    /\ Return
    /\ UNCHANGED <<serverVars, FilesAndRegistry, batch, kills>>

Fetch ==
    /\ At("fetch") /\ store[agent.version].content = agent.sha
    /\ GoTo("drop")
    /\ UNCHANGED <<serverVars, FilesAndRegistry, batch, kills>>

DropBackup ==
    /\ At("drop")
    /\ files' = [files EXCEPT !.bak = None]
    /\ GoTo("rotate")
    /\ UNCHANGED <<serverVars, reg, crumbs, torn, batch, kills>>

RotateLive ==
    /\ At("rotate")
    /\ files' = [live |-> None, bak |-> files.live]
    /\ GoTo("place")
    /\ UNCHANGED <<serverVars, reg, crumbs, torn, batch, kills>>

PlaceNew ==
    /\ At("place")
    /\ files' = [files EXCEPT !.live = agent.sha]
    /\ GoTo("verify")
    /\ UNCHANGED <<serverVars, reg, crumbs, torn, batch, kills>>

\* Mutant: the self-test is left out, only the bytes are compared.
VerifiedBytes(c) == c # None

(* The three checks on the file on disk.  A script that fails them is moved *)
(* out of the way first.                                                   *)
Verified(c) == c \in Sound

Verify ==
    /\ At("verify")
    /\ IF Verified(files.live)
       THEN GoTo("register") /\ UNCHANGED files
       ELSE GoTo("restore") /\ files' = [files EXCEPT !.live = None]
    /\ UNCHANGED <<serverVars, reg, crumbs, torn, batch, kills>>

(* Restore copies the backup, or puts the failed script back if there is    *)
(* none.                                                                   *)
Restore ==
    /\ At("restore")
    /\ files' = [files EXCEPT !.live = IF files.bak # None THEN files.bak ELSE agent.sha]
    /\ GoTo("markbad")
    /\ UNCHANGED <<serverVars, reg, crumbs, torn, batch, kills>>

\* Mutant: the version is noted before it is known to work.
MarkBadRegisters ==
    /\ At("markbad")
    /\ reg' = [reg EXCEPT !.bad = agent.version, !.version = agent.version]
    /\ Return
    /\ UNCHANGED <<serverVars, files, crumbs, torn, batch, kills>>

MarkBad ==
    /\ At("markbad")
    /\ reg' = [reg EXCEPT !.bad = agent.version]
    /\ Return
    /\ UNCHANGED <<serverVars, files, crumbs, torn, batch, kills>>

Register ==
    /\ At("register")
    /\ reg' = [version |-> agent.version, sha |-> agent.sha, bad |-> None,
               prev |-> IF reg.version # None THEN reg.version ELSE reg.prev]
    /\ crumbs' = TRUE
    /\ Return
    /\ UNCHANGED <<serverVars, files, torn, batch, kills>>

Update == Fetch \/ DropBackup \/ RotateLive \/ PlaceNew \/ Verify \/ Restore \/ MarkBad \/ Register

(* The answer hands the whole queue over; when it is lost, so are they.     *)
Ask ==
    /\ At("ask")
    /\ queue' = <<>>
    /\ \/ batch' = queue /\ GoTo("commands")
       \/ batch' = <<>> /\ agent' = Idle
    /\ UNCHANGED <<store, uploads, commands, held, FilesAndRegistry, kills>>

PollEnds ==
    /\ At("commands") /\ batch = <<>>
    /\ agent' = Idle
    /\ UNCHANGED <<serverVars, FilesAndRegistry, batch, kills>>

\* Mutant: the answer is not checked for a version the store does not have.
RunUpdateUnchecked ==
    /\ At("commands") /\ batch # <<>> /\ Head(batch).type = "update"
    /\ batch' = Tail(batch)
    /\ \/ UNCHANGED agent
       \/ agent' = FetchOf(Head(batch).version, FALSE)
    /\ UNCHANGED <<serverVars, FilesAndRegistry, kills>>

(* The version is looked up again when the command runs: it may be gone,    *)
(* or the manifest unreadable, and nothing is done.                         *)
RunUpdate ==
    /\ At("commands") /\ batch # <<>> /\ Head(batch).type = "update"
    /\ batch' = Tail(batch)
    /\ \/ UNCHANGED agent
       \/ Exists(Head(batch).version) /\ agent' = FetchOf(Head(batch).version, FALSE)
    /\ UNCHANGED <<serverVars, FilesAndRegistry, kills>>

RunRollback ==
    /\ At("commands") /\ batch # <<>> /\ Head(batch).type = "rollback"
    /\ batch' = Tail(batch)
    /\ IF files.bak = None THEN UNCHANGED agent ELSE GoTo("rbTake")
    /\ UNCHANGED <<serverVars, FilesAndRegistry, kills>>

(* live -> .swap, .bak -> live, .swap -> .bak, and the registry last: the   *)
(* two version labels trade places, the sha256 stays.                       *)
TakeLive ==
    /\ At("rbTake")
    /\ agent' = [agent EXCEPT !.pc = "rbPut", !.aside = files.live]
    /\ files' = [files EXCEPT !.live = None]
    /\ UNCHANGED <<serverVars, reg, crumbs, torn, batch, kills>>

PutBackup ==
    /\ At("rbPut")
    /\ files' = [live |-> files.bak, bak |-> None]
    /\ GoTo("rbKeep")
    /\ UNCHANGED <<serverVars, reg, crumbs, torn, batch, kills>>

KeepTaken ==
    /\ At("rbKeep")
    /\ files' = [files EXCEPT !.bak = agent.aside]
    /\ GoTo("rbRegister")
    /\ UNCHANGED <<serverVars, reg, crumbs, torn, batch, kills>>

SwapLabels ==
    /\ At("rbRegister")
    /\ reg' = [reg EXCEPT !.version = reg.prev,
                          !.prev = IF reg.version # None THEN reg.version ELSE reg.prev]
    /\ crumbs' = FALSE
    /\ agent' = Resume(FALSE)
    /\ UNCHANGED <<serverVars, files, torn, batch, kills>>

Rollback == TakeLive \/ PutBackup \/ KeepTaken \/ SwapLabels

(* Power lost or the task's time limit reached.  Files stay as they are;    *)
(* at these places that leaves the script and the crumbs in agreement.      *)
Whole == {"idle", "ask", "commands", "fetch", "drop", "rotate"}

Kill ==
    /\ kills < MaxKills /\ ~At("idle")
    /\ kills' = kills + 1
    /\ agent' = Idle /\ batch' = <<>>
    /\ torn' = (torn \/ agent.pc \notin Whole)
    /\ UNCHANGED <<serverVars, files, reg, crumbs>>

Poll == \/ PollStarts \/ SelfUpdate \/ FetchFails \/ Update
        \/ Ask \/ PollEnds \/ RunUpdate \/ RunRollback \/ Rollback

Next == Operator \/ Poll \/ Kill

Spec == Init /\ [][Next]_vars

(* The scheduled task starts a poll every minute and each runs to its end;  *)
(* the network lets a manifest and its content through again and again.     *)
FairSpec == Spec /\ WF_vars(Poll) /\ SF_vars(SelfUpdate) /\ SF_vars(Fetch)

-----------------------------------------------------------------------------
(* Every variable has its type, and an update under way always knows the    *)
(* version and the content it is about.                                    *)
UpdatePlaces == {"fetch", "drop", "rotate", "place", "verify", "restore", "markbad", "register"}

TypeOK ==
    /\ store \in [AllLabels -> Row]
    /\ queue \in Seq(Command) /\ batch \in Seq(Command)
    /\ files \in [live: File, bak: File]
    /\ reg \in [version: Label, sha: File, prev: Label, bad: Label]
    /\ agent \in Agent
    /\ agent.pc \in UpdatePlaces => agent.version \in AllLabels /\ agent.sha \in Contents
    /\ uploads \in Nat /\ commands \in Nat /\ kills \in Nat
    /\ held \subseteq AllLabels \X Contents
    /\ crumbs \in BOOLEAN /\ torn \in BOOLEAN

(* Between updates the endpoint runs a script that passed the self-test,    *)
(* and what a rollback would bring back passed it too, whatever the         *)
(* operator uploads, deletes and promotes meanwhile: only a process killed  *)
(* while it moved the files can leave anything else.                        *)
KeepsWorking ==
    agent.pc \in Whole /\ ~torn => files.live \in Sound /\ files.bak \in Sound \cup {None}

(* The version an endpoint reports is one the store held with exactly the   *)
(* script the endpoint runs, even if the label was deleted and given to     *)
(* another script between the manifest and the content, and after any       *)
(* number of failed updates; a rollback ends this until the next success.   *)
ReportTrue ==
    agent.pc \in Whole /\ crumbs /\ ~torn =>
        /\ files.live = reg.sha
        /\ <<reg.version, reg.sha>> \in held

(* Once a version has been promoted there is exactly one live version, at   *)
(* every moment an endpoint may ask for it.                                 *)
LiveKept == [][/\ Cardinality(LiveLabels') <= 1
               /\ LiveLabels # {} => LiveLabels' # {}]_store

(* An endpoint comes to the live version, again after every rollback and    *)
(* every push of another version, and also if the same label failed before  *)
(* with another script: the updater has no memory of failures to get stuck  *)
(* on.                                                                     *)
Converges ==
    \A l \in AllLabels :
        <>[](store[l].status = "live" /\ store[l].content \in Sound /\ ~torn)
            => []<>(reg.version = l)
=============================================================================
