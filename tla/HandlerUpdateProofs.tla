------------------------- MODULE HandlerUpdateProofs -------------------------
(***************************************************************************)
(* Proofs about HandlerUpdate, for any labels, scripts and bounds.         *)
(***************************************************************************)
EXTENDS HandlerUpdate, TLAPS, FiniteSetTheorems

-----------------------------------------------------------------------------
(* What the moves of a poll do to it.                                      *)

TypeOfServer ==
    /\ store \in [AllLabels -> Row] /\ queue \in Seq(Command)
    /\ held \subseteq AllLabels \X Contents /\ uploads \in Nat /\ commands \in Nat

TypeOfAgent ==
    /\ agent \in Agent
    /\ agent.pc \in UpdatePlaces => agent.version \in AllLabels /\ agent.sha \in Contents

LEMMA HeadAndTail ==
  ASSUME NEW S, NEW s \in Seq(S), s # <<>>
  PROVE  Head(s) \in S /\ Tail(s) \in Seq(S)
OBVIOUS

LEMMA GoToMoves ==
  ASSUME TypeOK, NEW pc \in Places, GoTo(pc)
  PROVE  /\ agent' \in Agent /\ agent'.pc = pc
         /\ agent'.version = agent.version /\ agent'.sha = agent.sha
         /\ agent'.auto = agent.auto /\ agent'.aside = agent.aside
<1>1. agent \in Agent
  BY DEF TypeOK
<1> QED
  BY <1>1 DEF GoTo, Agent

LEMMA ResumeMoves ==
  ASSUME NEW auto \in BOOLEAN
  PROVE  /\ Resume(auto) \in Agent
         /\ Resume(auto).pc = IF auto THEN "ask" ELSE "commands"
         /\ Idle \in Agent /\ Idle.pc = "idle"
         /\ [Idle EXCEPT !.pc = "ask"] \in Agent /\ [Idle EXCEPT !.pc = "ask"].pc = "ask"
BY DEF Resume, Idle, Agent, Places, Label, File

LEMMA FetchMoves ==
  ASSUME TypeOK, NEW l \in AllLabels, Exists(l), NEW auto \in BOOLEAN
  PROVE  /\ FetchOf(l, auto) \in Agent /\ FetchOf(l, auto).pc = "fetch"
         /\ FetchOf(l, auto).version = l /\ FetchOf(l, auto).sha = store[l].content
         /\ store[l].content \in Contents
<1>1. store[l] \in Row
  BY DEF TypeOK
<1>2. store[l].content \in Contents
  BY <1>1 DEF Row, Exists
<1> QED
  BY <1>2 DEF FetchOf, Agent, Places, Label, File

-----------------------------------------------------------------------------
(* Types.                                                                  *)

LEMMA TypeOKInit == Init => TypeOK
<1> SUFFICES ASSUME Init PROVE TypeOK
  OBVIOUS
<1>1. store \in [AllLabels -> Row]
  BY DEF Init, NoRow, Row
<1>2. queue \in Seq(Command) /\ batch \in Seq(Command)
  BY DEF Init
<1>3. files \in [live: File, bak: File] /\ reg \in [version: Label, sha: File, prev: Label, bad: Label]
  BY HandlerAssumption DEF Init, File, Label
<1>4. agent \in Agent /\ agent.pc \notin UpdatePlaces
  BY ResumeMoves DEF Init, UpdatePlaces
<1> QED
  BY <1>1, <1>2, <1>3, <1>4 DEF Init, TypeOK

LEMMA TypeOKOperator ==
  ASSUME TypeOK, Operator
  PROVE  TypeOK'
<1>1. /\ store \in [AllLabels -> Row] /\ queue \in Seq(Command)
      /\ held \subseteq AllLabels \X Contents /\ uploads \in Nat /\ commands \in Nat
  BY DEF TypeOK
<1>2. UNCHANGED <<kills, endpointVars>>
  BY Zenon DEF Operator, Upload, Scan, Promote, Delete, Push, Retry, PushRollback, Enqueue
<1>3. TypeOfServer'
  <2>1. \A l \in AllLabels, c \in Contents : [status |-> "staged", content |-> c] \in Row /\ NoRow \in Row
    BY DEF Row, NoRow
  <2>2. ASSUME NEW l \in AllLabels, NEW c \in Contents, NEW tbl \in [AllLabels -> Row], Stage(tbl, l, c)
        PROVE  /\ store' \in [AllLabels -> Row]
               /\ held' \subseteq AllLabels \X Contents /\ uploads' \in Nat
    BY <1>1, <2>1, <2>2 DEF Stage
  <2>3. WithoutAutoStage \in [AllLabels -> Row]
    BY <1>1 DEF WithoutAutoStage, NoRow, Row
  <2>4. ASSUME NEW l \in AllLabels, NEW c \in Contents, Upload(l, c) \/ Scan(l, c)
        PROVE  TypeOfServer'
    BY <1>1, <2>2, <2>3, <2>4 DEF Upload, Scan, TypeOfServer
  <2>5. ASSUME NEW l \in AllLabels, Promote(l)
        PROVE  TypeOfServer'
    <3>1. \A k \in AllLabels : store[k] \in Row
      BY <1>1
    <3>2. ASSUME NEW r \in Row, r.status # "none", NEW st \in {"live", "archived"}
          PROVE  [r EXCEPT !.status = st] \in Row
      BY <3>2 DEF Row
    <3>3. store' \in [AllLabels -> Row]
      BY <2>5, <3>1, <3>2 DEF Promote, Promoted
    <3> QED
      BY <1>1, <2>5, <3>3 DEF Promote, TypeOfServer
  <2>6. ASSUME NEW l \in AllLabels, Delete(l)
        PROVE  TypeOfServer'
    BY <1>1, <2>6 DEF Delete, NoRow, Row, TypeOfServer
  <2>7. ASSUME NEW cmd \in Command, Enqueue(cmd)
        PROVE  TypeOfServer'
    BY <1>1, <2>7 DEF Enqueue, TypeOfServer
  <2>8. \A l \in AllLabels : [type |-> "update", version |-> l] \in Command
    BY DEF Command, Label
  <2>9. [type |-> "rollback", version |-> None] \in Command
    BY DEF Command, Label
  <2>10. LiveLabels \subseteq AllLabels
    BY DEF LiveLabels
  <2>11. ASSUME NEW l \in AllLabels, Push(l)
         PROVE  TypeOfServer'
    BY <2>7, <2>8, <2>11 DEF Push
  <2>12. CASE Retry
    BY <2>7, <2>8, <2>10, <2>12 DEF Retry
  <2>13. CASE PushRollback
    BY <2>7, <2>9, <2>13 DEF PushRollback
  <2> QED
    BY <2>4, <2>5, <2>6, <2>11, <2>12, <2>13 DEF Operator
<1> QED
  BY <1>2, <1>3 DEF TypeOK, TypeOfServer, endpointVars

LEMMA TypeOKKill ==
  ASSUME TypeOK, Kill
  PROVE  TypeOK'
<1>1. agent' \in Agent /\ agent'.pc \notin UpdatePlaces
  BY ResumeMoves DEF Kill, UpdatePlaces
<1>2. batch' \in Seq(Command) /\ kills' \in Nat /\ torn' \in BOOLEAN
  BY DEF Kill, TypeOK
<1> QED
  BY <1>1, <1>2 DEF TypeOK, Kill, serverVars

(* One step of a poll.                                                     *)
LEMMA TypeOKPoll ==
  ASSUME TypeOK, Poll
  PROVE  TypeOK'
<1>1. UNCHANGED <<store, uploads, commands, held, kills>>
  BY DEF Poll, PollStarts, SelfUpdate, FetchFails, Update, Fetch, DropBackup, RotateLive, PlaceNew,
         Verify, Restore, MarkBad, Register, Ask, PollEnds, RunUpdate, RunRollback, Rollback,
         TakeLive, PutBackup, KeepTaken, SwapLabels, serverVars
<1>2. queue' \in Seq(Command) /\ batch' \in Seq(Command)
  <2>1. queue \in Seq(Command) /\ batch \in Seq(Command) /\ <<>> \in Seq(Command)
    BY DEF TypeOK
  <2>2. CASE Ask
    BY <2>1, <2>2 DEF Ask
  <2>3. CASE RunUpdate \/ RunRollback
    <3>1. batch # <<>> /\ batch' = Tail(batch) /\ UNCHANGED serverVars
      BY <2>3, Zenon DEF RunUpdate, RunRollback
    <3>2. Tail(batch) \in Seq(Command)
      BY <2>1, <3>1, HeadAndTail
    <3> QED
      BY <2>1, <3>1, <3>2 DEF serverVars
  <2>4. CASE ~(Ask \/ RunUpdate \/ RunRollback)
    <3>1. UNCHANGED <<queue, batch>>
      BY <2>4
         DEF Poll, PollStarts, SelfUpdate, FetchFails, Update, Fetch, DropBackup, RotateLive, PlaceNew,
             Verify, Restore, MarkBad, Register, PollEnds, Rollback,
             TakeLive, PutBackup, KeepTaken, SwapLabels, serverVars
    <3> QED
      BY <2>1, <3>1
  <2> QED
    BY <2>2, <2>3, <2>4
<1>3. torn' \in BOOLEAN /\ crumbs' \in BOOLEAN
  BY DEF Poll, PollStarts, SelfUpdate, FetchFails, Update, Fetch, DropBackup, RotateLive, PlaceNew,
         Verify, Restore, MarkBad, Register, Ask, PollEnds, RunUpdate, RunRollback, Rollback,
         TakeLive, PutBackup, KeepTaken, SwapLabels, FilesAndRegistry, TypeOK
<1>4. /\ agent.version \in Label /\ agent.sha \in File /\ agent.aside \in File /\ agent.auto \in BOOLEAN
      /\ None \in File /\ None \in Label
      /\ agent.pc \in UpdatePlaces => agent.version \in AllLabels /\ agent.sha \in Contents
  BY DEF TypeOK, Agent, File, Label
<1>5. files' \in [live: File, bak: File]
  <2>1. files \in [live: File, bak: File] /\ files.live \in File /\ files.bak \in File
    BY DEF TypeOK
  <2>2. \A f \in File : /\ [files EXCEPT !.live = f] \in [live: File, bak: File]
                        /\ [files EXCEPT !.bak = f] \in [live: File, bak: File]
                        /\ [live |-> None, bak |-> f] \in [live: File, bak: File]
                        /\ [live |-> f, bak |-> None] \in [live: File, bak: File]
    BY <1>4, <2>1
  <2>3. CASE DropBackup \/ RotateLive \/ PlaceNew \/ Verify \/ Restore
    BY <1>4, <2>1, <2>2, <2>3 DEF DropBackup, RotateLive, PlaceNew, Verify, Restore
  <2>4. CASE TakeLive \/ PutBackup \/ KeepTaken
    BY <1>4, <2>1, <2>2, <2>4 DEF TakeLive, PutBackup, KeepTaken
  <2>5. CASE ~(DropBackup \/ RotateLive \/ PlaceNew \/ Verify \/ Restore \/ TakeLive \/ PutBackup \/ KeepTaken)
    <3>1. UNCHANGED files
      BY <2>5, Zenon
         DEF Poll, PollStarts, SelfUpdate, FetchFails, Update, Fetch, MarkBad, Register, Ask, PollEnds,
             RunUpdate, RunRollback, Rollback, SwapLabels, FilesAndRegistry
    <3> QED
      BY <2>1, <3>1
  <2> QED
    BY <2>3, <2>4, <2>5
<1>6. reg' \in [version: Label, sha: File, prev: Label, bad: Label]
  <2>1. /\ reg \in [version: Label, sha: File, prev: Label, bad: Label]
        /\ reg.version \in Label /\ reg.prev \in Label
    BY DEF TypeOK
  <2>2. CASE MarkBad
    BY <1>4, <2>1, <2>2 DEF MarkBad
  <2>3. CASE Register
    BY <1>4, <2>1, <2>3 DEF Register
  <2>4. CASE SwapLabels
    BY <1>4, <2>1, <2>4 DEF SwapLabels
  <2>5. CASE ~(MarkBad \/ Register \/ SwapLabels)
    <3>1. UNCHANGED reg
      BY <2>5, Zenon
         DEF Poll, PollStarts, SelfUpdate, FetchFails, Update, Fetch, DropBackup, RotateLive, PlaceNew,
             Verify, Restore, Ask, PollEnds, RunUpdate, RunRollback, Rollback, TakeLive, PutBackup,
             KeepTaken, FilesAndRegistry
    <3> QED
      BY <2>1, <3>1
  <2> QED
    BY <2>2, <2>3, <2>4, <2>5
<1>7. TypeOfAgent'
  <2>1. ASSUME NEW pc \in Places, GoTo(pc), pc \in UpdatePlaces => agent.pc \in UpdatePlaces
        PROVE  TypeOfAgent'
    BY <1>4, <2>1, GoToMoves DEF TypeOfAgent
  <2>2. ASSUME NEW auto \in BOOLEAN, agent' = Resume(auto)
        PROVE  TypeOfAgent'
    BY <2>2, ResumeMoves DEF UpdatePlaces, TypeOfAgent
  <2>3. ASSUME NEW l \in AllLabels, Exists(l), NEW auto \in BOOLEAN, agent' = FetchOf(l, auto)
        PROVE  TypeOfAgent'
    BY <2>3, FetchMoves DEF TypeOfAgent
  <2>4. ASSUME UNCHANGED agent PROVE TypeOfAgent'
    BY <2>4 DEF TypeOK, TypeOfAgent
  <2>5. CASE Update
    <3>1. {"drop", "rotate", "place", "verify", "restore", "markbad", "register"} \subseteq Places
      BY DEF Places
    <3>2. agent.pc \in UpdatePlaces
      BY <2>5 DEF Update, Fetch, DropBackup, RotateLive, PlaceNew, Verify, Restore, MarkBad, Register,
                 At, UpdatePlaces
    <3>3. \/ \E pc \in {"drop", "rotate", "place", "verify", "restore", "markbad", "register"} : GoTo(pc)
          \/ agent' = Resume(agent.auto)
      BY <2>5, Zenon DEF Update, Fetch, DropBackup, RotateLive, PlaceNew, Verify, Restore, MarkBad,
                 Register, Return
    <3> QED
      BY <1>4, <2>1, <2>2, <3>1, <3>2, <3>3
  <2>6. CASE PollStarts \/ PollEnds \/ FetchFails \/ Ask \/ SwapLabels
    <3>1. \/ agent' = Idle
          \/ agent' = [Idle EXCEPT !.pc = "ask"]
          \/ agent' = Resume(FALSE)
          \/ agent' = Resume(agent.auto)
          \/ GoTo("commands")
      BY <2>6, Zenon DEF PollStarts, PollEnds, FetchFails, Ask, SwapLabels, Return
    <3>2. /\ "commands" \in Places
          /\ "ask" \notin UpdatePlaces /\ "commands" \notin UpdatePlaces /\ "idle" \notin UpdatePlaces
      BY DEF Places, UpdatePlaces
    <3>3. CASE agent' = Idle \/ agent' = [Idle EXCEPT !.pc = "ask"]
      <4>1. /\ Idle \in Agent /\ Idle.pc = "idle"
            /\ [Idle EXCEPT !.pc = "ask"] \in Agent /\ [Idle EXCEPT !.pc = "ask"].pc = "ask"
        BY ResumeMoves
      <4> QED
        BY <3>2, <3>3, <4>1, Zenon DEF TypeOfAgent
    <3> QED
      BY <1>4, <2>1, <2>2, <3>1, <3>2, <3>3
  <2>7. CASE SelfUpdate
    <3>1. PICK l \in LiveLabels : agent' = FetchOf(l, TRUE)
      BY <2>7 DEF SelfUpdate
    <3>2. l \in AllLabels /\ Exists(l)
      BY <3>1 DEF LiveLabels, Exists
    <3> QED
      BY <2>3, <3>1, <3>2
  <2>8. CASE RunUpdate
    <3>1. CASE UNCHANGED agent
      BY <2>4, <3>1
    <3>2. CASE Exists(Head(batch).version) /\ agent' = FetchOf(Head(batch).version, FALSE)
      <4>1. Head(batch) \in Command
        BY <2>8, HeadAndTail DEF RunUpdate, TypeOK
      <4>2. Head(batch).version \in AllLabels
        BY <2>8, <4>1 DEF RunUpdate, Command
      <4> QED
        BY <2>3, <3>2, <4>2
    <3> QED
      BY <2>8, <3>1, <3>2 DEF RunUpdate
  <2>9. CASE RunRollback
    <3>1. "rbTake" \in Places /\ "rbTake" \notin UpdatePlaces
      BY DEF Places, UpdatePlaces
    <3> QED
      BY <2>1, <2>4, <2>9, <3>1 DEF RunRollback
  <2>10. CASE TakeLive \/ PutBackup \/ KeepTaken
    <3>1. /\ {"rbTake", "rbPut", "rbKeep", "rbRegister"} \subseteq Places
          /\ {"rbTake", "rbPut", "rbKeep", "rbRegister"} \cap UpdatePlaces = {}
      BY DEF Places, UpdatePlaces
    <3>2. CASE TakeLive
      <4>1. files.live \in File /\ agent \in Agent
        BY DEF TypeOK
      <4> QED
        BY <3>1, <3>2, <4>1 DEF TakeLive, Agent, TypeOfAgent
    <3> QED
      BY <2>1, <2>10, <3>1, <3>2 DEF PutBackup, KeepTaken
  <2> QED
    BY <2>5, <2>6, <2>7, <2>8, <2>9, <2>10 DEF Poll, Rollback
<1> QED
  BY <1>1, <1>2, <1>3, <1>5, <1>6, <1>7 DEF TypeOK, TypeOfAgent

LEMMA TypeOKStep ==
  ASSUME TypeOK, [Next]_vars
  PROVE  TypeOK'
<1>1. CASE UNCHANGED vars
  BY <1>1 DEF vars, serverVars, endpointVars, TypeOK
<1> QED
  BY <1>1, TypeOKOperator, TypeOKPoll, TypeOKKill DEF Next

(* Type correctness: also that an update under way knows its version and    *)
(* its content, whatever was deleted from the store since.                  *)
THEOREM TypeCorrect == Spec => []TypeOK
<1>1. TypeOK /\ [Next]_vars => TypeOK'
  BY TypeOKStep
<1> QED
  BY <1>1, TypeOKInit, PTL DEF Spec

-----------------------------------------------------------------------------
(* The invariant: what the two files hold at every place of a poll, as long *)
(* as no process was killed between two moves.                              *)

(* The places at which the live file is a script that works, and those at   *)
(* which there is a backup.                                                 *)
Running == Whole \cup {"markbad", "rbTake", "rbKeep", "rbRegister"}
Backed  == {"place", "verify", "restore", "markbad", "rbTake", "rbPut"}

SoundScripts ==
    ~torn => /\ files.bak \in Sound \cup {None}
             /\ agent.pc \in Running => files.live \in Sound
             /\ agent.pc \in Backed => files.bak # None
             /\ agent.pc \in {"verify", "register"} => files.live = agent.sha
             /\ agent.pc = "register" => agent.sha \in Sound
             /\ agent.pc \in {"rbPut", "rbKeep"} => agent.aside \in Sound

(* What an update under way knows, the store has held.                      *)
KnownToStore ==
    /\ \A l \in AllLabels : Exists(l) => <<l, store[l].content>> \in held
    /\ agent.pc \in UpdatePlaces => <<agent.version, agent.sha>> \in held

(* While the crumbs are an update's, the script they name is the live one,   *)
(* or the backup while another update has the live file.                    *)
CrumbsTrue ==
    crumbs /\ ~torn =>
        /\ <<reg.version, reg.sha>> \in held
        /\ agent.pc \in Whole \cup {"markbad"} => files.live = reg.sha
        /\ agent.pc \in {"place", "verify", "restore"} => files.bak = reg.sha

IInv == TypeOK /\ SoundScripts /\ KnownToStore /\ CrumbsTrue

-----------------------------------------------------------------------------
LEMMA OperatorMoves ==
  ASSUME Operator
  PROVE  UNCHANGED endpointVars
BY Zenon DEF Operator, Upload, Scan, Promote, Delete, Push, Retry, PushRollback, Enqueue

LEMMA PollMoves ==
  ASSUME Poll
  PROVE  UNCHANGED <<store, held, torn>>
BY DEF Poll, PollStarts, SelfUpdate, FetchFails, Update, Fetch, DropBackup, RotateLive, PlaceNew,
       Verify, Restore, MarkBad, Register, Ask, PollEnds, RunUpdate, RunRollback, Rollback,
       TakeLive, PutBackup, KeepTaken, SwapLabels, serverVars, FilesAndRegistry

(* The steps of a poll that touch neither files nor registry: the agent     *)
(* stays between two Whole places, or goes on to rbTake with a backup.      *)
Quiet == PollStarts \/ SelfUpdate \/ FetchFails \/ Fetch \/ Ask \/ PollEnds \/ RunUpdate

LEMMA QuietMoves ==
  ASSUME TypeOK, Quiet
  PROVE  /\ UNCHANGED FilesAndRegistry
         /\ agent.pc \in Whole /\ agent'.pc \in Whole
<1>1. UNCHANGED FilesAndRegistry
  BY DEF Quiet, PollStarts, SelfUpdate, FetchFails, Fetch, Ask, PollEnds, RunUpdate
<1>2. /\ "idle" \in Whole /\ "ask" \in Whole /\ "commands" \in Whole
      /\ "fetch" \in Whole /\ "drop" \in Whole
  BY DEF Whole
<1>3. agent.pc \in Whole
  BY <1>2, Zenon DEF Quiet, PollStarts, SelfUpdate, FetchFails, Fetch, Ask, PollEnds, RunUpdate, At
<1>4. agent'.pc \in Whole
  <2>1. agent.auto \in BOOLEAN /\ "drop" \in Places /\ "commands" \in Places
    BY DEF TypeOK, Agent, Places
  <2>2. CASE PollStarts \/ FetchFails \/ PollEnds \/ Ask \/ Fetch
    <3>1. \/ agent' = Idle
          \/ agent' = [Idle EXCEPT !.pc = "ask"]
          \/ agent' = Resume(agent.auto)
          \/ GoTo("commands") \/ GoTo("drop")
      BY <2>2, Zenon DEF PollStarts, FetchFails, PollEnds, Ask, Fetch, Return
    <3> QED
      BY <1>2, <2>1, <3>1, GoToMoves, ResumeMoves
  <2>3. CASE SelfUpdate \/ RunUpdate
    BY <1>2, <1>3, <2>3 DEF SelfUpdate, RunUpdate, FetchOf
  <2> QED
    BY <2>2, <2>3 DEF Quiet
<1> QED
  BY <1>1, <1>3, <1>4

LEMMA SoundScriptsStep ==
  ASSUME TypeOK, SoundScripts, [Next]_vars
  PROVE  SoundScripts'
<1>1. CASE UNCHANGED endpointVars
  BY <1>1 DEF endpointVars, SoundScripts
<1>2. CASE Kill
  <2>1. agent'.pc = "idle"
    BY <1>2, ResumeMoves DEF Kill
  <2>2. UNCHANGED files /\ torn' = (torn \/ agent.pc \notin Whole)
    BY <1>2 DEF Kill
  <2> QED
    BY <2>1, <2>2 DEF SoundScripts, Running, Backed, Whole
<1>3. CASE Poll
  <2> SUFFICES ASSUME ~torn'
               PROVE  SoundScripts'
    BY DEF SoundScripts
  <2>1. ~torn /\ UNCHANGED torn
    BY <1>3, PollMoves
  <2>2. /\ files.bak \in Sound \cup {None}
        /\ agent.pc \in Running => files.live \in Sound
        /\ agent.pc \in Backed => files.bak # None
        /\ agent.pc \in {"verify", "register"} => files.live = agent.sha
        /\ agent.pc = "register" => agent.sha \in Sound
        /\ agent.pc \in {"rbPut", "rbKeep"} => agent.aside \in Sound
    BY <2>1 DEF SoundScripts
  <2>3. files \in [live: File, bak: File] /\ agent \in Agent /\ agent.auto \in BOOLEAN
    BY DEF TypeOK, Agent
  <2>4. None \notin Sound
    BY HandlerAssumption
  <2>5. CASE Quiet
    <3>1. /\ Whole \cap Backed = {} /\ Whole \subseteq Running
          /\ "verify" \notin Whole /\ "register" \notin Whole /\ "rbPut" \notin Whole /\ "rbKeep" \notin Whole
      BY DEF Whole, Backed, Running
    <3>2. UNCHANGED files /\ agent.pc \in Whole /\ agent'.pc \in Whole
      BY <2>5, QuietMoves DEF FilesAndRegistry
    <3> QED
      BY <2>2, <3>1, <3>2 DEF SoundScripts
  <2>6. CASE DropBackup
    BY <2>2, <2>3, <2>6, GoToMoves DEF DropBackup, At, SoundScripts, Running, Backed, Whole, Places
  <2>7. CASE RotateLive
    BY <2>2, <2>3, <2>4, <2>7, GoToMoves DEF RotateLive, At, SoundScripts, Running, Backed, Whole, Places
  <2>8. CASE PlaceNew
    BY <2>2, <2>3, <2>8, GoToMoves DEF PlaceNew, At, SoundScripts, Running, Backed, Whole, Places
  <2>9. CASE Verify
    BY <2>2, <2>3, <2>9, GoToMoves
       DEF Verify, Verified, At, SoundScripts, Running, Backed, Whole, Places
  <2>10. CASE Restore
    BY <2>2, <2>3, <2>10, GoToMoves DEF Restore, At, SoundScripts, Running, Backed, Whole, Places
  <2>11. CASE MarkBad \/ Register
    <3>1. UNCHANGED files /\ agent' = Resume(agent.auto) /\ agent.pc \in {"markbad", "register"}
      BY <2>11, Zenon DEF MarkBad, Register, Return, At
    <3>2. agent'.pc \in {"ask", "commands"}
      BY <2>3, <3>1, ResumeMoves
    <3>3. files.live \in Sound
      BY <2>2, <3>1 DEF Running
    <3> QED
      BY <2>2, <3>1, <3>2, <3>3 DEF SoundScripts, Running, Backed, Whole
  <2>12. CASE RunRollback
    <3>1. UNCHANGED files /\ agent.pc = "commands"
      BY <2>12, Zenon DEF RunRollback, FilesAndRegistry, At
    <3>2. \/ UNCHANGED agent
          \/ files.bak # None /\ GoTo("rbTake")
      BY <2>12 DEF RunRollback
    <3> QED
      BY <2>2, <3>1, <3>2, GoToMoves DEF SoundScripts, Running, Backed, Whole, Places
  <2>13. CASE TakeLive
    BY <2>2, <2>3, <2>13 DEF TakeLive, At, SoundScripts, Running, Backed, Whole, Agent
  <2>14. CASE PutBackup
    BY <2>2, <2>3, <2>14, GoToMoves DEF PutBackup, At, SoundScripts, Running, Backed, Whole, Places
  <2>15. CASE KeepTaken
    BY <2>2, <2>3, <2>15, GoToMoves DEF KeepTaken, At, SoundScripts, Running, Backed, Whole, Places
  <2>16. CASE SwapLabels
    BY <2>2, <2>16, ResumeMoves DEF SwapLabels, At, SoundScripts, Running, Backed, Whole
  <2> QED
    BY <1>3, <2>5, <2>6, <2>7, <2>8, <2>9, <2>10, <2>11, <2>12, <2>13, <2>14, <2>15, <2>16
       DEF Poll, Update, Rollback, Quiet
<1> QED
  BY <1>1, <1>2, <1>3, OperatorMoves DEF Next, vars

LEMMA KnownToStoreStep ==
  ASSUME TypeOK, KnownToStore, [Next]_vars
  PROVE  KnownToStore'
<1>1. CASE UNCHANGED vars
  BY <1>1 DEF vars, serverVars, endpointVars, KnownToStore, Exists
<1>2. CASE Operator
  <2>1. UNCHANGED agent
    BY <1>2, OperatorMoves DEF endpointVars
  <2>2. store \in [AllLabels -> Row]
    BY DEF TypeOK
  <2>3. ASSUME NEW l \in AllLabels, NEW c \in Contents, NEW tbl \in [AllLabels -> Row], Stage(tbl, l, c),
               \A k \in AllLabels : tbl[k] = store[k] \/ tbl[k] = NoRow
        PROVE  KnownToStore'
    BY <2>1, <2>2, <2>3 DEF KnownToStore, Stage, Exists, NoRow
  <2>4. ASSUME NEW l \in AllLabels, NEW c \in Contents, Upload(l, c)
        PROVE  KnownToStore'
    BY <2>2, <2>3, <2>4 DEF Upload
  <2>5. ASSUME NEW l \in AllLabels, NEW c \in Contents, Scan(l, c)
        PROVE  KnownToStore'
    <3>1. /\ WithoutAutoStage \in [AllLabels -> Row]
          /\ \A k \in AllLabels : WithoutAutoStage[k] = store[k] \/ WithoutAutoStage[k] = NoRow
      BY <2>2 DEF WithoutAutoStage, NoRow, Row
    <3> QED
      BY <2>3, <2>5, <3>1 DEF Scan
  <2>6. ASSUME NEW l \in AllLabels, Promote(l)
        PROVE  KnownToStore'
    <3>1. UNCHANGED held
      BY <2>6 DEF Promote
    <3>2. \A k \in AllLabels : store'[k].content = store[k].content /\ (Exists(k)' => Exists(k))
      <4>1. \A k \in AllLabels : store[k] \in Row
        BY <2>2
      <4>2. \A r \in Row : \A st \in {"live", "archived"} : [r EXCEPT !.status = st].content = r.content
        BY DEF Row
      <4>3. store' = Promoted(store, l) /\ Exists(l)
        BY <2>6 DEF Promote, Exists
      <4> QED
        BY <4>1, <4>2, <4>3 DEF Promoted, Exists
    <3> QED
      BY <2>1, <3>1, <3>2 DEF KnownToStore
  <2>7. ASSUME NEW l \in AllLabels, Delete(l)
        PROVE  KnownToStore'
    BY <2>1, <2>2, <2>7 DEF Delete, KnownToStore, Exists, NoRow
  <2>8. CASE (\E l \in AllLabels : Push(l)) \/ Retry \/ PushRollback
    <3>1. UNCHANGED <<store, held>>
      BY <2>8, Zenon DEF Push, Retry, PushRollback, Enqueue
    <3> QED
      BY <2>1, <3>1 DEF KnownToStore, Exists
  <2> QED
    BY <1>2, <2>4, <2>5, <2>6, <2>7, <2>8 DEF Operator
<1>3. CASE Poll
  <2>1. UNCHANGED <<store, held>>
    BY <1>3, PollMoves
  <2>2. \/ agent'.pc \notin UpdatePlaces
        \/ agent.pc \in UpdatePlaces /\ agent'.version = agent.version /\ agent'.sha = agent.sha
        \/ \E l \in AllLabels : Exists(l) /\ agent'.version = l /\ agent'.sha = store[l].content
    <3>1. agent.auto \in BOOLEAN /\ agent \in Agent
      BY DEF TypeOK, Agent
    <3>2. ASSUME NEW auto \in BOOLEAN
          PROVE  Resume(auto).pc \notin UpdatePlaces /\ Idle.pc \notin UpdatePlaces
      BY ResumeMoves DEF UpdatePlaces
    <3>3. CASE Update
      <4>1. agent.pc \in UpdatePlaces
        BY <3>3 DEF Update, Fetch, DropBackup, RotateLive, PlaceNew, Verify, Restore, MarkBad, Register,
                    At, UpdatePlaces
      <4>2. \/ \E pc \in Places : GoTo(pc)
            \/ agent' = Resume(agent.auto)
        <5>1. {"drop", "rotate", "place", "verify", "restore", "markbad", "register"} \subseteq Places
          BY DEF Places
        <5>2. \/ \E pc \in {"drop", "rotate", "place", "verify", "restore", "markbad", "register"} : GoTo(pc)
              \/ agent' = Resume(agent.auto)
          BY <3>3, Zenon DEF Update, Fetch, DropBackup, RotateLive, PlaceNew, Verify, Restore, MarkBad,
                     Register, Return
        <5> QED
          BY <5>1, <5>2
      <4> QED
        BY <3>1, <3>2, <4>1, <4>2, GoToMoves
    <3>4. CASE PollStarts \/ PollEnds \/ FetchFails \/ Ask \/ SwapLabels
      <4>1. \/ agent' = Idle
            \/ agent' = [Idle EXCEPT !.pc = "ask"]
            \/ agent' = Resume(FALSE)
            \/ agent' = Resume(agent.auto)
            \/ GoTo("commands")
        BY <3>4, Zenon DEF PollStarts, PollEnds, FetchFails, Ask, SwapLabels, Return
      <4>2. /\ "commands" \in Places /\ "commands" \notin UpdatePlaces
            /\ [Idle EXCEPT !.pc = "ask"].pc \notin UpdatePlaces
        BY ResumeMoves DEF Places, UpdatePlaces
      <4> QED
        BY <3>1, <3>2, <4>1, <4>2, GoToMoves
    <3>5. CASE SelfUpdate
      BY <3>5, FetchMoves DEF SelfUpdate, LiveLabels, Exists, FetchOf
    <3>6. CASE RunUpdate
      <4>1. Head(batch) \in Command /\ Head(batch).type = "update"
        BY <3>6, HeadAndTail DEF RunUpdate, TypeOK
      <4>2. Head(batch).version \in AllLabels
        BY <4>1 DEF Command
      <4>3. \/ UNCHANGED agent
            \/ Exists(Head(batch).version) /\ agent' = FetchOf(Head(batch).version, FALSE)
        BY <3>6 DEF RunUpdate
      <4> QED
        BY <4>2, <4>3 DEF FetchOf
    <3>7. CASE RunRollback
      BY <3>7, GoToMoves DEF RunRollback, At, Places, UpdatePlaces
    <3>8. CASE TakeLive \/ PutBackup \/ KeepTaken
      BY <3>1, <3>8, GoToMoves DEF TakeLive, PutBackup, KeepTaken, Agent, Places, UpdatePlaces
    <3> QED
      BY <1>3, <3>3, <3>4, <3>5, <3>6, <3>7, <3>8 DEF Poll, Rollback
  <2> QED
    BY <2>1, <2>2 DEF KnownToStore, Exists
<1>4. CASE Kill
  BY <1>4, ResumeMoves DEF Kill, serverVars, KnownToStore, Exists, UpdatePlaces
<1> QED
  BY <1>1, <1>2, <1>3, <1>4 DEF Next

LEMMA CrumbsTrueStep ==
  ASSUME TypeOK, SoundScripts, KnownToStore, CrumbsTrue, [Next]_vars
  PROVE  CrumbsTrue'
<1>1. held \subseteq held'
  <2>1. CASE Operator
    BY <2>1, Zenon DEF Operator, Upload, Scan, Stage, Promote, Delete, Push, Retry, PushRollback, Enqueue
  <2>2. CASE Poll
    BY <2>2, PollMoves
  <2>3. CASE Kill \/ UNCHANGED vars
    BY <2>3 DEF Kill, serverVars, vars
  <2> QED
    BY <2>1, <2>2, <2>3 DEF Next
<1>2. CASE UNCHANGED endpointVars
  BY <1>1, <1>2 DEF endpointVars, CrumbsTrue
<1>3. CASE Kill
  <2>1. agent'.pc = "idle" /\ UNCHANGED <<files, reg, crumbs>> /\ torn' = (torn \/ agent.pc \notin Whole)
    BY <1>3, ResumeMoves DEF Kill
  <2> QED
    BY <1>1, <2>1 DEF CrumbsTrue, Whole
<1>4. CASE Poll
  <2> SUFFICES ASSUME crumbs', ~torn'
               PROVE  CrumbsTrue'
    BY DEF CrumbsTrue
  <2>1. ~torn
    BY <1>4, PollMoves
  <2>2. crumbs => /\ <<reg.version, reg.sha>> \in held
                  /\ agent.pc \in Whole \cup {"markbad"} => files.live = reg.sha
                  /\ agent.pc \in {"place", "verify", "restore"} => files.bak = reg.sha
    BY <2>1 DEF CrumbsTrue
  <2>3. /\ files \in [live: File, bak: File] /\ agent \in Agent /\ agent.auto \in BOOLEAN
        /\ reg \in [version: Label, sha: File, prev: Label, bad: Label]
    BY DEF TypeOK, Agent
  <2>4. CASE Quiet
    <3>1. UNCHANGED <<files, reg, crumbs>> /\ agent.pc \in Whole /\ agent'.pc \in Whole
      BY <2>4, QuietMoves DEF FilesAndRegistry
    <3> QED
      BY <1>1, <2>2, <3>1 DEF CrumbsTrue, Whole
  <2>5. CASE DropBackup \/ RotateLive \/ PlaceNew \/ Verify \/ Restore
    <3>1. UNCHANGED <<reg, crumbs>>
      BY <2>5 DEF DropBackup, RotateLive, PlaceNew, Verify, Restore
    <3>2. <<reg.version, reg.sha>> \in held
      BY <2>2, <3>1
    <3>3. agent'.pc \in Whole \cup {"markbad"} => files'.live = reg.sha
      <4>1. CASE DropBackup
        BY <2>2, <2>3, <3>1, <4>1, GoToMoves DEF DropBackup, At, Whole, Places
      <4>2. CASE RotateLive \/ PlaceNew \/ Verify
        BY <4>2, GoToMoves DEF RotateLive, PlaceNew, Verify, Whole, Places
      <4>3. CASE Restore
        <5>1. files.bak # None
          BY <2>1, <4>3 DEF SoundScripts, Backed, Restore, At
        <5> QED
          BY <2>2, <2>3, <3>1, <4>3, <5>1 DEF Restore, At
      <4> QED
        BY <2>5, <4>1, <4>2, <4>3
    <3>4. agent'.pc \in {"place", "verify", "restore"} => files'.bak = reg.sha
      <4>1. CASE DropBackup \/ Restore
        BY <4>1, GoToMoves DEF DropBackup, Restore, Places
      <4>2. CASE RotateLive
        BY <2>2, <2>3, <3>1, <4>2 DEF RotateLive, At, Whole
      <4>3. CASE PlaceNew \/ Verify
        BY <2>2, <2>3, <3>1, <4>3, GoToMoves DEF PlaceNew, Verify, At, Places
      <4> QED
        BY <2>5, <4>1, <4>2, <4>3
    <3> QED
      BY <1>1, <3>1, <3>2, <3>3, <3>4 DEF CrumbsTrue
  <2>6. CASE MarkBad
    <3>1. UNCHANGED <<files, crumbs>> /\ agent' = Resume(agent.auto) /\ agent.pc = "markbad"
      BY <2>6, Zenon DEF MarkBad, Return, At
    <3>2. reg'.version = reg.version /\ reg'.sha = reg.sha
      BY <2>3, <2>6 DEF MarkBad
    <3>3. agent'.pc \in {"ask", "commands"}
      BY <2>3, <3>1, ResumeMoves
    <3> QED
      BY <1>1, <2>2, <3>1, <3>2, <3>3 DEF CrumbsTrue, Whole
  <2>7. CASE Register
    <3>1. UNCHANGED files /\ agent' = Resume(agent.auto) /\ agent.pc = "register"
      BY <2>7, Zenon DEF Register, Return, At
    <3>2. reg'.version = agent.version /\ reg'.sha = agent.sha
      BY <2>7 DEF Register
    <3>3. <<agent.version, agent.sha>> \in held
      BY <3>1 DEF KnownToStore, UpdatePlaces
    <3>4. files.live = agent.sha
      BY <2>1, <3>1 DEF SoundScripts
    <3>5. agent'.pc \in {"ask", "commands"}
      BY <2>3, <3>1, ResumeMoves
    <3> QED
      BY <1>1, <3>1, <3>2, <3>3, <3>4, <3>5 DEF CrumbsTrue
  <2>8. CASE RunRollback
    <3>1. UNCHANGED <<files, reg, crumbs>> /\ agent.pc = "commands"
      BY <2>8, Zenon DEF RunRollback, FilesAndRegistry, At
    <3>2. UNCHANGED agent \/ GoTo("rbTake")
      BY <2>8 DEF RunRollback
    <3> QED
      BY <1>1, <2>2, <3>1, <3>2, GoToMoves DEF CrumbsTrue, Whole, Places
  <2>9. CASE TakeLive \/ PutBackup \/ KeepTaken
    <3>1. UNCHANGED <<reg, crumbs>>
      BY <2>9 DEF TakeLive, PutBackup, KeepTaken
    <3>2. agent'.pc \in {"rbPut", "rbKeep", "rbRegister"}
      BY <2>3, <2>9, GoToMoves DEF TakeLive, PutBackup, KeepTaken, Agent, Places
    <3> QED
      BY <1>1, <2>2, <3>1, <3>2 DEF CrumbsTrue, Whole
  <2>10. CASE SwapLabels
    BY <2>10 DEF SwapLabels, CrumbsTrue
  <2> QED
    BY <1>4, <2>4, <2>5, <2>6, <2>7, <2>8, <2>9, <2>10 DEF Poll, Update, Rollback, Quiet
<1> QED
  BY <1>2, <1>3, <1>4, OperatorMoves DEF Next, vars

LEMMA Invariant == Spec => []IInv
<1>1. Init => IInv
  <2> SUFFICES ASSUME Init PROVE IInv
    OBVIOUS
  <2>1. agent.pc = "idle"
    BY DEF Init, Idle
  <2>2. SoundScripts
    BY <2>1, HandlerAssumption DEF Init, SoundScripts, Backed
  <2>3. KnownToStore
    BY <2>1 DEF Init, KnownToStore, Exists, NoRow, UpdatePlaces
  <2>4. CrumbsTrue
    BY DEF Init, CrumbsTrue
  <2> QED
    BY <2>2, <2>3, <2>4, TypeOKInit DEF IInv
<1>2. IInv /\ [Next]_vars => IInv'
  <2> SUFFICES ASSUME IInv, [Next]_vars PROVE IInv'
    OBVIOUS
  <2> QED
    BY TypeOKStep, SoundScriptsStep, KnownToStoreStep, CrumbsTrueStep DEF IInv
<1> QED
  BY <1>1, <1>2, PTL DEF Spec

(* Between updates the endpoint runs a script that works, and so is its      *)
(* backup, unless a process was killed while it moved files.                *)
THEOREM Working == Spec => []KeepsWorking
<1>1. IInv => KeepsWorking
  BY DEF IInv, SoundScripts, KeepsWorking, Running
<1> QED
  BY <1>1, Invariant, PTL

(* The version an endpoint reports names the script it runs, for any number *)
(* of deletions and reuses of its label.                                    *)
THEOREM Reported == Spec => []ReportTrue
<1>1. IInv => ReportTrue
  BY DEF IInv, CrumbsTrue, ReportTrue
<1> QED
  BY <1>1, Invariant, PTL

-----------------------------------------------------------------------------
(* The live version.                                                       *)

OneLive == \A k, l \in LiveLabels : k = l

LEMMA AtMostOneElement ==
  ASSUME NEW S, \A k, l \in S : k = l
  PROVE  Cardinality(S) <= 1
<1>1. CASE S = {}
  BY <1>1, FS_EmptySet
<1>2. CASE S # {}
  <2>1. PICK l : S = {l}
    BY <1>2
  <2>2. Cardinality({l}) = 1
    BY FS_Singleton
  <2> QED
    BY <2>1, <2>2
<1> QED
  BY <1>1, <1>2

(* A version that is live stays it until another one is, in the same step.   *)
LEMMA OneLiveStep ==
  ASSUME TypeOK, OneLive, [Next]_vars
  PROVE  OneLive' /\ (LiveLabels # {} => LiveLabels' # {})
<1>1. store \in [AllLabels -> Row] /\ \A l \in AllLabels : store[l].status = "live" => store[l] # NoRow
  BY DEF TypeOK, NoRow
<1>2. CASE UNCHANGED store
  BY <1>2 DEF OneLive, LiveLabels
<1>3. ASSUME NEW tbl \in [AllLabels -> Row], NEW l \in AllLabels, NEW c \in Contents, Stage(tbl, l, c),
             \A k \in AllLabels : tbl[k].status = "live" <=> store[k].status = "live"
      PROVE  LiveLabels' = LiveLabels
  <2>1. [status |-> "staged", content |-> c].status = "staged"
    OBVIOUS
  <2>2. tbl[l].status # "live" /\ store' = [tbl EXCEPT ![l] = [status |-> "staged", content |-> c]]
    BY <1>3 DEF Stage, NoRow
  <2>3. \A k \in AllLabels : store'[k].status = "live" <=> store[k].status = "live"
    BY <1>3, <2>1, <2>2
  <2> QED
    BY <2>3 DEF LiveLabels
<1>4. ASSUME NEW l \in AllLabels, NEW c \in Contents, Upload(l, c) PROVE LiveLabels' = LiveLabels
  BY <1>1, <1>3, <1>4 DEF Upload
<1>5. ASSUME NEW l \in AllLabels, NEW c \in Contents, Scan(l, c) PROVE LiveLabels' = LiveLabels
  <2>1. NoRow \in Row
    BY DEF NoRow, Row
  <2>2. WithoutAutoStage \in [AllLabels -> Row]
    BY <1>1, <2>1 DEF WithoutAutoStage
  <2>3. \A k \in AllLabels : WithoutAutoStage[k].status = "live" <=> store[k].status = "live"
    BY <1>1 DEF WithoutAutoStage, NoRow
  <2> QED
    BY <1>3, <1>5, <2>2, <2>3 DEF Scan
<1>6. ASSUME NEW l \in AllLabels, Promote(l) PROVE LiveLabels' = {l}
  <2>1. \A k \in AllLabels : /\ [store[k] EXCEPT !.status = "archived"].status # "live"
                             /\ store[k] # NoRow => [store[k] EXCEPT !.status = "live"].status = "live"
    BY <1>1 DEF Row, NoRow
  <2>2. store[l] # NoRow /\ store' = Promoted(store, l)
    BY <1>6 DEF Promote, NoRow
  <2>3. \A k \in AllLabels : store'[k].status = "live" <=> k = l
    BY <1>1, <2>1, <2>2 DEF Promoted
  <2> QED
    BY <2>3 DEF LiveLabels
<1>7. ASSUME NEW l \in AllLabels, Delete(l) PROVE LiveLabels' = LiveLabels
  <2>1. \A k \in AllLabels : store'[k].status = "live" <=> store[k].status = "live"
    BY <1>1, <1>7 DEF Delete, NoRow
  <2> QED
    BY <2>1 DEF LiveLabels
<1>8. CASE LiveLabels' = LiveLabels \/ \E l : LiveLabels' = {l}
  BY <1>8 DEF OneLive
<1>9. CASE Operator
  <2>1. CASE \E l \in AllLabels : Push(l) \/ Retry \/ PushRollback
    BY <1>2, <2>1 DEF Push, Retry, PushRollback, Enqueue
  <2>2. Retry \/ PushRollback => UNCHANGED store
    BY DEF Retry, PushRollback, Enqueue
  <2> QED
    BY <1>2, <1>4, <1>5, <1>6, <1>7, <1>8, <1>9, <2>1, <2>2 DEF Operator
<1>10. CASE Poll \/ Kill \/ UNCHANGED vars
  BY <1>2, <1>10, PollMoves DEF Kill, vars, serverVars
<1> QED
  BY <1>9, <1>10 DEF Next

(* Whatever the operator does, in any order and with any labels, there is    *)
(* one live version at most, and one from the first promotion on.           *)
THEOREM OneLiveKept == Spec => LiveKept
<1>1. Init => OneLive
  BY DEF Init, NoRow, OneLive, LiveLabels
<1>2. TypeOK /\ OneLive /\ [Next]_vars => OneLive'
  BY OneLiveStep
<1>3. TypeOK /\ OneLive /\ [Next]_vars =>
         [/\ Cardinality(LiveLabels') <= 1 /\ (LiveLabels # {} => LiveLabels' # {})]_store
  <2> SUFFICES ASSUME TypeOK, OneLive, [Next]_vars
               PROVE  Cardinality(LiveLabels') <= 1 /\ (LiveLabels # {} => LiveLabels' # {})
    OBVIOUS
  <2>1. OneLive' /\ (LiveLabels # {} => LiveLabels' # {})
    BY OneLiveStep
  <2>2. OneLive' => Cardinality(LiveLabels') <= 1
    BY AtMostOneElement DEF OneLive
  <2> QED
    BY <2>1, <2>2
<1>4. TypeOK /\ [Next]_vars => TypeOK'
  BY TypeOKStep
<1> QED
  BY <1>1, <1>2, <1>3, <1>4, TypeOKInit, PTL DEF Spec, LiveKept
=============================================================================
