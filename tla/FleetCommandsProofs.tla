------------------------- MODULE FleetCommandsProofs -------------------------
(***************************************************************************)
(* Proofs about FleetCommands, for every set of agents, every authentication*)
(* window, batch limit, clock error and bound.                             *)
(***************************************************************************)
EXTENDS FleetCommands, TLAPS

-----------------------------------------------------------------------------
(* The record updates of the actions stay in the types of the tables.      *)

(* The endpoint steps of a poll iteration.                                 *)
LEMMA AgentUpdates ==
  ASSUME NEW r \in AgentType
  PROVE  /\ \A k \in 0 .. MaxKeys : [r EXCEPT !.key = k] \in AgentType
         /\ \A s \in Skews : [r EXCEPT !.skew = s] \in AgentType
         /\ \A k \in 0 .. MaxKeys : [r EXCEPT !.pc = "waiting", !.procKey = k] \in AgentType
         /\ \A B \in SUBSET Index : [r EXCEPT !.pc = "running", !.batch = B] \in AgentType
         /\ [r EXCEPT !.pc = "idle", !.procKey = 0] \in AgentType
         /\ [r EXCEPT !.pc = "idle", !.procKey = 0, !.batch = {}, !.report = NoReport] \in AgentType
         /\ \A i \in Index, R \in ReportType : [r EXCEPT !.batch = r.batch \ {i}, !.report = R] \in AgentType
         /\ [r EXCEPT !.report = NoReport] \in AgentType
<1>1. 0 \in 0 .. MaxKeys
  BY BoundsAssumption
<1>2. NoReport \in ReportType
  BY DEF ReportType
<1>3. {} \in SUBSET Index
  OBVIOUS
<1>4. r.batch \in SUBSET Index
  BY DEF AgentType
<1>5. \A i : r.batch \ {i} \in SUBSET Index
  BY <1>4
<1>6. \A k \in 0 .. MaxKeys : [r EXCEPT !.key = k] \in AgentType
  BY Zenon DEF AgentType
<1>7. \A s \in Skews : [r EXCEPT !.skew = s] \in AgentType
  BY Zenon DEF AgentType
<1>8. \A k \in 0 .. MaxKeys : [r EXCEPT !.pc = "waiting", !.procKey = k] \in AgentType
  BY Zenon DEF AgentType
<1>9. \A B \in SUBSET Index : [r EXCEPT !.pc = "running", !.batch = B] \in AgentType
  BY Zenon DEF AgentType
<1>10. [r EXCEPT !.pc = "idle", !.procKey = 0] \in AgentType
  BY <1>1, Zenon DEF AgentType
<1>11. [r EXCEPT !.pc = "idle", !.procKey = 0, !.batch = {}, !.report = NoReport] \in AgentType
  BY <1>1, <1>2, <1>3, Zenon DEF AgentType
<1>12. \A i \in Index, R \in ReportType : [r EXCEPT !.batch = r.batch \ {i}, !.report = R] \in AgentType
  BY <1>5, Zenon DEF AgentType
<1>13. [r EXCEPT !.report = NoReport] \in AgentType
  BY <1>2, Zenon DEF AgentType
<1> QED
  BY <1>6, <1>7, <1>8, <1>9, <1>10, <1>11, <1>12, <1>13, Zenon

(* The sequence counter and the profile of an agents row.                   *)
LEMMA RowUpdates ==
  ASSUME NEW r \in RowType
  PROVE  /\ [r EXCEPT !.seq = r.seq + 1] \in RowType
         /\ \A p \in Profiles \cup {NoProfile} : [r EXCEPT !.profile = p] \in RowType
  BY DEF RowType

(* The status of a commands row.                                           *)
LEMMA CmdUpdates ==
  ASSUME NEW r \in CmdType
  PROVE  \A s \in {"delivered", "completed"} : [r EXCEPT !.status = s] \in CmdType
  BY DEF CmdType

(* The history of a command.                                               *)
LEMMA TraceUpdates ==
  ASSUME NEW r \in TraceType
  PROVE  /\ \A k \in 0 .. MaxKeys : [r EXCEPT !.epoch = k] \in TraceType
         /\ [r EXCEPT !.outcome = "rejected"] \in TraceType
         /\ \A o \in {"success", "failure"} : [r EXCEPT !.runs = r.runs + 1, !.outcome = o] \in TraceType
<1>1. r.runs + 1 \in Nat
  BY DEF TraceType
<1>2. \A k \in 0 .. MaxKeys : [r EXCEPT !.epoch = k] \in TraceType
  BY Zenon DEF TraceType
<1>3. [r EXCEPT !.outcome = "rejected"] \in TraceType
  BY Zenon DEF TraceType, Outcomes
<1>4. \A o \in {"success", "failure"} : [r EXCEPT !.runs = r.runs + 1, !.outcome = o] \in TraceType
  BY <1>1, Zenon DEF TraceType, Outcomes
<1> QED
  BY <1>2, <1>3, <1>4, Zenon

-----------------------------------------------------------------------------
(* The initial state has the types.                                        *)
LEMMA TypeOKInit == Init => TypeOK
<1> SUFFICES ASSUME Init PROVE TypeOK
  OBVIOUS
<1>1. 0 \in 0 .. MaxKeys /\ 0 \in 0 .. MaxCommands /\ 0 \in 0 .. MaxTime
  BY BoundsAssumption
<1>2. \A s \in Skews : [key |-> 0, skew |-> s, pc |-> "idle", procKey |-> 0,
                        batch |-> {}, report |-> NoReport] \in AgentType
  BY <1>1 DEF AgentType, ReportType
<1>3. agent \in [Agents -> AgentType]
  BY <1>2 DEF Init
<1>4. answer \in [Agents -> AnswerType]
  BY <1>1 DEF Init, AnswerType, NoAnswer
<1>5. row \in [Agents -> RowType] /\ cmds \in [Agents -> [Index -> CmdType]]
  BY <1>1 DEF Init, RowType, CmdType
<1>6. trace \in [Agents -> [Index -> TraceType]]
  BY <1>1 DEF Init, TraceType
<1> QED
  BY <1>1, <1>3, <1>4, <1>5, <1>6 DEF TypeOK, Init

(* Every action keeps the types.                                           *)
LEMMA TypeOKStep == TypeOK /\ [Next]_vars => TypeOK'
<1> SUFFICES ASSUME TypeOK, [Next]_vars PROVE TypeOK'
  OBVIOUS
<1>a. \A a \in Agents : /\ agent[a] \in AgentType
                        /\ row[a] \in RowType
                        /\ answer[a] \in AnswerType
                        /\ polls[a] \subseteq PollType
                        /\ posts[a] \subseteq PostType
                        /\ \A i \in Index : cmds[a][i] \in CmdType /\ trace[a][i] \in TraceType
  BY DEF TypeOK
<1>b. \A a \in Agents : /\ agent[a].key \in 0 .. MaxKeys /\ agent[a].procKey \in 0 .. MaxKeys
                        /\ agent[a].skew \in Skews /\ agent[a].report \in ReportType
  BY <1>a DEF AgentType
<1>c. \A a \in Agents : row[a].key \in 0 .. MaxKeys /\ row[a].seq \in Nat
                        /\ row[a].profile \in Profiles \cup {NoProfile}
  BY <1>a DEF RowType
<1>d. \A a \in Agents, i \in Index : cmds[a][i].profile \in Profiles \cup {NoProfile}
  BY <1>a DEF CmdType
<1>e. now \in 0 .. MaxTime /\ \A a \in Agents : AgentClock(a) \in Int
  <2>1. now \in 0 .. MaxTime
    BY DEF TypeOK
  <2>2. \A a \in Agents : agent[a].skew \in Int
    BY <1>b, BoundsAssumption
  <2> QED
    BY <2>1, <2>2, BoundsAssumption DEF AgentClock
<1>f. NoAnswer \in AnswerType /\ Refusal \in AnswerType
  BY BoundsAssumption DEF NoAnswer, Refusal, AnswerType
<1>1. ASSUME NEW a \in Agents, NEW p \in Profiles \cup {NoProfile}, EnrollAgent(a, p)
      PROVE  TypeOK'
  <2>1. [key |-> row[a].key + 1, seq |-> 0, profile |-> p] \in RowType
    BY <1>1, <1>c, BoundsAssumption DEF RowType, EnrollAgent
  <2> QED
    BY <1>1, <2>1 DEF TypeOK, EnrollAgent, networkVars
<1>2. ASSUME NEW a \in Agents, RotateSecret(a)
      PROVE  TypeOK'
  BY <1>1, <1>2, <1>c DEF RotateSecret
<1>3. ASSUME NEW a \in Agents, NEW k \in 1 .. MaxKeys, InstallSecret(a, k)
      PROVE  TypeOK'
  <2>1. [agent[a] EXCEPT !.key = k] \in AgentType
    <3>1. k \in 0 .. MaxKeys
      BY BoundsAssumption
    <3> QED
      BY <1>a, <3>1, AgentUpdates
  <2> QED
    BY <1>3, <2>1 DEF TypeOK, InstallSecret, networkVars, serverVars
<1>4. ASSUME NEW S \in SUBSET Agents, NEW p \in Profiles \cup {NoProfile}, NEW t \in Ttls,
             Enqueue(S, p, t)
      PROVE  TypeOK'
  <2>1. issued' \in [Agents -> 0 .. MaxCommands]
    BY <1>4, BoundsAssumption DEF TypeOK, Enqueue
  <2>2. row' \in [Agents -> RowType]
    BY <1>4, <1>a, RowUpdates DEF Enqueue
  <2>3. \A a \in Agents : [status |-> "pending", seq |-> row[a].seq + 1,
                           expires |-> now + t, profile |-> p] \in CmdType
    BY <1>c, <1>e, BoundsAssumption DEF CmdType
  <2>4. cmds' \in [Agents -> [Index -> CmdType]]
    BY <1>4, <1>a, <2>3 DEF Enqueue
  <2>5. \A a \in Agents, i \in Index : [trace[a][i] EXCEPT !.epoch = row[a].key] \in TraceType
    BY <1>a, <1>c, TraceUpdates
  <2>6. trace' \in [Agents -> [Index -> TraceType]]
    BY <1>4, <1>a, <2>5 DEF Enqueue
  <2> QED
    BY <1>4, <2>1, <2>2, <2>4, <2>6 DEF TypeOK, Enqueue, networkVars
<1>5. ASSUME NEW a \in Agents, NEW p \in Profiles \cup {NoProfile}, NEW t \in Ttls,
             SendCommand(a, p, t)
      PROVE  TypeOK'
  BY <1>4, <1>5 DEF SendCommand
<1>6. ASSUME NEW f \in SUBSET Profiles, NEW p \in Profiles \cup {NoProfile}, NEW t \in Ttls,
             Broadcast(f, p, t)
      PROVE  TypeOK'
  BY <1>4, <1>6 DEF Broadcast
<1>7. ASSUME NEW a \in Agents, NEW m \in polls[a], NEW B \in SUBSET Index, ServePoll(a, m, B)
      PROVE  TypeOK'
  <2>1. [kind |-> "commands", key |-> row[a].key, batch |-> B] \in AnswerType
    BY <1>c DEF AnswerType
  <2>2. \A i \in Index : [cmds[a][i] EXCEPT !.status = "delivered"] \in CmdType
    BY <1>a, CmdUpdates
  <2>3. cmds' \in [Agents -> [Index -> CmdType]]
    BY <1>7, <2>2 DEF TypeOK, ServePoll, MarkDelivered
  <2> QED
    BY <1>7, <2>1, <2>3 DEF TypeOK, ServePoll
<1>8. ASSUME NEW a \in Agents, NEW m \in polls[a], RefusePoll(a, m)
      PROVE  TypeOK'
  BY <1>8, <1>f DEF TypeOK, RefusePoll, serverVars
<1>9. ASSUME NEW a \in Agents, NEW m \in posts[a], RecordResult(a, m)
      PROVE  TypeOK'
  <2>1. m.cmd \in Index /\ m.status \in Outcomes
    BY <1>a DEF PostType
  <2>2. [cmds[a][m.cmd] EXCEPT !.status = "completed"] \in CmdType
    BY <2>1, <1>a, CmdUpdates
  <2>3. [row[a] EXCEPT !.profile = cmds[a][m.cmd].profile] \in RowType
    BY <2>1, <1>a, <1>d, RowUpdates
  <2> QED
    <3>1. cmds' \in [Agents -> [Index -> CmdType]] /\ result' \in [Agents -> [Index -> Outcomes \cup {"none"}]]
      BY <1>9, <2>1, <2>2 DEF TypeOK, RecordResult
    <3>2. row' \in [Agents -> RowType]
      BY <1>9, <2>3 DEF TypeOK, RecordResult
    <3> QED
      BY <1>9, <3>1, <3>2 DEF TypeOK, RecordResult
<1>10. ASSUME NEW a \in Agents, StartPoll(a)
       PROVE  TypeOK'
  <2>1. [agent[a] EXCEPT !.pc = "waiting", !.procKey = agent[a].key] \in AgentType
    BY <1>a, <1>b, AgentUpdates
  <2>2. [key |-> agent[a].key, ts |-> AgentClock(a), live |-> TRUE] \in PollType
    BY <1>b, <1>e DEF PollType
  <2> QED
    BY <1>10, <2>1, <2>2 DEF TypeOK, StartPoll, serverVars
<1>11. ASSUME NEW a \in Agents, ReceiveCommands(a)
       PROVE  TypeOK'
  <2>1. (IF answer[a].key = agent[a].procKey THEN answer[a].batch ELSE {}) \in SUBSET Index
    BY <1>a DEF AnswerType
  <2>2. \A b \in SUBSET Index : [agent[a] EXCEPT !.pc = "running", !.batch = b] \in AgentType
    BY <1>a, AgentUpdates
  <2> QED
    BY <1>11, <1>f, <2>1, <2>2 DEF TypeOK, ReceiveCommands, serverVars
<1>12. ASSUME NEW a \in Agents, ReceiveRefusal(a)
       PROVE  TypeOK'
  <2>1. [agent[a] EXCEPT !.pc = "idle", !.procKey = 0] \in AgentType
    BY <1>a, AgentUpdates
  <2> QED
    BY <1>12, <1>f, <2>1 DEF TypeOK, ReceiveRefusal, serverVars
<1>13. ASSUME NEW a \in Agents, NEW i \in Index, NEW o \in Outcomes, TakeCommand(a, i, o)
       PROVE  agent' \in [Agents -> AgentType]
  <2>1. [cmd |-> i, status |-> o] \in ReportType
    BY DEF ReportType
  <2>2. [agent[a] EXCEPT !.batch = agent[a].batch \ {i}, !.report = [cmd |-> i, status |-> o]] \in AgentType
    BY <1>a, <2>1, AgentUpdates
  <2> QED
    BY <1>13, <2>2 DEF TypeOK, TakeCommand
<1>14. ASSUME NEW a \in Agents, NEW i \in Index, SkipExpired(a, i)
       PROVE  TypeOK'
  <2>1. [trace[a][i] EXCEPT !.outcome = "rejected"] \in TraceType
    BY <1>a, TraceUpdates
  <2>2. agent' \in [Agents -> AgentType]
    BY <1>13, <1>14 DEF SkipExpired, Outcomes
  <2> QED
    BY <1>14, <2>1, <2>2 DEF TypeOK, SkipExpired, TakeCommand, serverVars, networkVars
<1>15. ASSUME NEW a \in Agents, NEW i \in Index, NEW o \in {"success", "failure"},
              RunCommand(a, i, o)
       PROVE  TypeOK'
  <2>1. [trace[a][i] EXCEPT !.runs = trace[a][i].runs + 1, !.outcome = o] \in TraceType
    BY <1>a, TraceUpdates
  <2>2. agent' \in [Agents -> AgentType]
    BY <1>13, <1>15 DEF RunCommand, Outcomes
  <2> QED
    BY <1>15, <2>1, <2>2 DEF TypeOK, RunCommand, TakeCommand, serverVars, networkVars
<1>16. ASSUME NEW a \in Agents, SendResult(a)
       PROVE  TypeOK'
  <2>1. [agent[a] EXCEPT !.report = NoReport] \in AgentType
    BY <1>a, AgentUpdates
  <2>2. agent[a].report.cmd \in Index /\ agent[a].report.status \in Outcomes
    BY <1>16, <1>b DEF SendResult, ReportType
  <2>3. [key |-> agent[a].procKey, ts |-> AgentClock(a), cmd |-> agent[a].report.cmd,
         status |-> agent[a].report.status] \in PostType
    BY <1>b, <1>e, <2>2 DEF PostType
  <2> QED
    BY <1>16, <2>1, <2>3 DEF TypeOK, SendResult, serverVars
<1>17. ASSUME NEW a \in Agents, FinishPoll(a)
       PROVE  TypeOK'
  <2>1. [agent[a] EXCEPT !.pc = "idle", !.procKey = 0] \in AgentType
    BY <1>a, AgentUpdates
  <2> QED
    BY <1>17, <2>1 DEF TypeOK, FinishPoll, serverVars, networkVars
<1>18. ASSUME NEW a \in Agents, StopProcess(a)
       PROVE  TypeOK'
  <2>1. [agent[a] EXCEPT !.pc = "idle", !.procKey = 0, !.batch = {}, !.report = NoReport]
          \in AgentType
    BY <1>a, AgentUpdates
  <2>2. \A m \in polls[a] : [m EXCEPT !.live = FALSE] \in PollType
    BY <1>a DEF PollType
  <2>3. {[m EXCEPT !.live = FALSE] : m \in polls[a]} \in SUBSET PollType
    BY <2>2
  <2> QED
    BY <1>18, <1>f, <2>1, <2>3 DEF TypeOK, StopProcess, serverVars
<1>19. ASSUME NEW a \in Agents, NEW s \in Skews, SetClock(a, s)
       PROVE  TypeOK'
  <2>1. [agent[a] EXCEPT !.skew = s] \in AgentType
    BY <1>a, AgentUpdates
  <2> QED
    BY <1>19, <2>1 DEF TypeOK, SetClock, serverVars, networkVars
<1>20. ASSUME NEW a \in Agents, NEW m \in polls[a], LosePoll(a, m)
       PROVE  TypeOK'
  BY <1>20 DEF TypeOK, LosePoll, serverVars
<1>21. ASSUME NEW a \in Agents, NEW m \in posts[a], LosePost(a, m)
       PROVE  TypeOK'
  BY <1>21 DEF TypeOK, LosePost, serverVars
<1>22. CASE Tick
  BY <1>22, BoundsAssumption DEF TypeOK, Tick, serverVars, networkVars
<1>23. CASE UNCHANGED vars
  BY <1>23 DEF TypeOK, vars
<1> QED
  BY <1>1, <1>2, <1>3, <1>5, <1>6, <1>7, <1>8, <1>9, <1>10, <1>11, <1>12, <1>14, <1>15,
     <1>16, <1>17, <1>18, <1>19, <1>20, <1>21, <1>22, <1>23
  DEF Next, Operator, Server, Endpoint, Environment

(* Every reachable state has the types declared for it.                    *)
THEOREM TypeCorrect == Spec => []TypeOK
<1>1. Init => TypeOK
  BY TypeOKInit
<1>2. TypeOK /\ [Next]_vars => TypeOK'
  BY TypeOKStep
<1> QED
  BY <1>1, <1>2, PTL DEF Spec

(* What the types say of one endpoint and of its rows.                     *)
LEMMA TypeFacts ==
  ASSUME TypeOK, NEW a \in Agents
  PROVE  /\ agent[a] \in AgentType /\ row[a] \in RowType /\ answer[a] \in AnswerType
         /\ polls[a] \subseteq PollType /\ posts[a] \subseteq PostType
         /\ now \in Nat /\ issued[a] \in Nat
         /\ agent[a].skew \in Int /\ agent[a].batch \in SUBSET Index
         /\ agent[a].procKey \in Int /\ agent[a].key \in Int
         /\ row[a].key \in Int /\ answer[a].key \in Int
         /\ \A i \in Index : /\ cmds[a][i] \in CmdType /\ trace[a][i] \in TraceType
                             /\ trace[a][i].runs \in Nat /\ trace[a][i].epoch \in Int
                             /\ cmds[a][i].expires \in Int
         /\ \A m \in polls[a] : m.ts \in Int
         /\ \A m \in posts[a] : m.cmd \in Index /\ m.status \in Outcomes
<1>1. agent[a] \in AgentType /\ row[a] \in RowType /\ answer[a] \in AnswerType
         /\ polls[a] \subseteq PollType /\ posts[a] \subseteq PostType
         /\ now \in Nat /\ issued[a] \in Nat
  BY BoundsAssumption DEF TypeOK
<1>2. \A i \in Index : cmds[a][i] \in CmdType /\ trace[a][i] \in TraceType
  BY DEF TypeOK
<1>3. /\ agent[a].skew \in Int /\ agent[a].batch \in SUBSET Index
      /\ agent[a].procKey \in Int /\ agent[a].key \in Int
  <2>1. /\ agent[a].skew \in Skews /\ agent[a].batch \in SUBSET Index
        /\ agent[a].procKey \in 0 .. MaxKeys /\ agent[a].key \in 0 .. MaxKeys
    BY <1>1 DEF AgentType
  <2>2. agent[a].skew \in Int
    BY <2>1, BoundsAssumption
  <2>3. \A k \in 0 .. MaxKeys : k \in Int
    OBVIOUS
  <2> QED
    BY <2>1, <2>2, <2>3
<1>4. row[a].key \in Int /\ answer[a].key \in Int
  BY <1>1, BoundsAssumption DEF RowType, AnswerType
<1>5. \A i \in Index : trace[a][i].runs \in Nat /\ trace[a][i].epoch \in Int
  BY <1>2, BoundsAssumption DEF TraceType
<1>6. \A i \in Index : cmds[a][i].expires \in Int
  BY <1>2 DEF CmdType
<1>7. \A m \in polls[a] : m.ts \in Int
  BY <1>1 DEF PollType
<1>8. \A m \in posts[a] : m.cmd \in Index /\ m.status \in Outcomes
  BY <1>1 DEF PostType
<1> QED
  BY <1>1, <1>2, <1>3, <1>4, <1>5, <1>6, <1>7, <1>8

(* A step that changes nothing of an endpoint, but may let time pass,      *)
(* keeps its invariant.                                                    *)
LEMMA Untouched ==
  ASSUME TypeOK, NEW b \in Agents, AgentInv(b), now' \in Nat, now <= now',
         UNCHANGED <<row[b], issued[b], cmds[b], polls[b], posts[b], answer[b], agent[b], trace[b]>>
  PROVE  AgentInv(b)'
<1>1. Connection(b)' /\ Custody(b)' /\ Truthful(b)' /\ Epochs(b)'
  BY DEF AgentInv, Connection, Custody, Truthful, Epochs
<1>2. Fresh(b)'
  BY TypeFacts DEF AgentInv, Fresh, AgentClock
<1> QED
  BY <1>1, <1>2 DEF AgentInv


(* The invariant holds before anything is enrolled.                        *)
LEMMA InvInit == Init => Inv
<1> SUFFICES ASSUME Init, NEW a \in Agents PROVE AgentInv(a)
  BY DEF Inv
<1>1. agent[a].pc = "idle" /\ agent[a].batch = {} /\ agent[a].report = NoReport
  BY DEF Init
<1>2. /\ answer[a] = NoAnswer /\ polls[a] = {} /\ posts[a] = {} /\ issued[a] = 0
      /\ row[a].key = 0
  BY DEF Init
<1>3. \A i \in Index : /\ cmds[a][i].status = "none" /\ trace[a][i].epoch = 0
                       /\ trace[a][i].runs = 0 /\ trace[a][i].outcome = "none"
  BY DEF Init
<1> QED
  BY <1>1, <1>2, <1>3 DEF AgentInv, Connection, Custody, Truthful, Fresh, Epochs, NoAnswer

(* Enrolling, rotating, installing and issuing keep the invariant.         *)
LEMMA InvOperator == TypeOK /\ Inv /\ Operator => Inv'
<1> SUFFICES ASSUME TypeOK, Inv, Operator PROVE Inv'
  OBVIOUS
<1>1. ASSUME NEW a \in Agents, NEW p, EnrollAgent(a, p)
      PROVE  Inv'
  <2>1. \A b \in Agents \ {a} : AgentInv(b)'
    BY <1>1, Untouched, TypeFacts DEF TypeOK, Inv, EnrollAgent, networkVars
  <2>2. row'[a].key = row[a].key + 1
    BY <1>1 DEF TypeOK, EnrollAgent
  <2>3. Connection(a)' /\ Custody(a)' /\ Truthful(a)' /\ Fresh(a)'
    BY <1>1 DEF Inv, AgentInv, Connection, Custody, Truthful, Fresh, AgentClock, EnrollAgent, networkVars
  <2>4. Epochs(a)'
    BY <1>1, <2>2, TypeFacts DEF Inv, AgentInv, Epochs, EnrollAgent, networkVars
  <2> QED
    BY <2>1, <2>3, <2>4 DEF Inv, AgentInv
<1>2. ASSUME NEW a \in Agents, NEW k, InstallSecret(a, k)
      PROVE  Inv'
  <2>1. \A b \in Agents \ {a} : AgentInv(b)'
    BY <1>2, Untouched, TypeFacts DEF TypeOK, Inv, InstallSecret, serverVars, networkVars
  <2>2. /\ agent'[a].pc = agent[a].pc /\ agent'[a].procKey = agent[a].procKey
        /\ agent'[a].skew = agent[a].skew /\ agent'[a].batch = agent[a].batch
        /\ agent'[a].report = agent[a].report
    BY <1>2, TypeFacts DEF TypeOK, AgentType, InstallSecret
  <2>3. Connection(a)' /\ Custody(a)' /\ Truthful(a)' /\ Fresh(a)' /\ Epochs(a)'
    BY <1>2, <2>2 DEF Inv, AgentInv, Connection, Custody, Truthful, Fresh, Epochs, AgentClock,
                      InstallSecret, serverVars, networkVars
  <2> QED
    BY <2>1, <2>3 DEF Inv, AgentInv
<1>3. ASSUME NEW S \in SUBSET Agents, NEW p, NEW t, Enqueue(S, p, t)
      PROVE  Inv'
  <2> SUFFICES ASSUME NEW a \in Agents PROVE AgentInv(a)'
    BY DEF Inv
  <2>1. CASE a \notin S
    <3>1. /\ row'[a] = row[a] /\ issued'[a] = issued[a]
          /\ UNCHANGED <<polls[a], posts[a], answer[a], agent[a]>>
      BY <1>3, <2>1 DEF Enqueue, networkVars
    <3>2. cmds'[a] = cmds[a] /\ trace'[a] = trace[a]
      BY <1>3, <2>1 DEF TypeOK, Enqueue
    <3>3. now' = now /\ now \in Nat
      BY <1>3, TypeFacts DEF Enqueue
    <3> QED
      BY <3>1, <3>2, <3>3, Untouched DEF Inv
  <2>2. CASE a \in S
    <3>1. row'[a].key = row[a].key /\ issued'[a] = issued[a] + 1
      BY <1>3, <2>2, TypeFacts DEF RowType, Enqueue
    <3>2. \A i \in Index \ {issued[a] + 1} : cmds'[a][i] = cmds[a][i] /\ trace'[a][i] = trace[a][i]
      BY <1>3 DEF Enqueue
    <3>3. \A i \in Index : i = issued[a] + 1 =>
             /\ cmds'[a][i].status = "pending" /\ trace'[a][i].epoch = row[a].key
             /\ trace'[a][i].runs = trace[a][i].runs /\ trace'[a][i].outcome = trace[a][i].outcome
             /\ cmds[a][i].status = "none"
      <4>1. \A i \in Index : i = issued[a] + 1 => cmds[a][i].status = "none"
        BY TypeFacts DEF Inv, AgentInv, Custody, Index
      <4> QED
        BY <1>3, <2>2, <4>1, TypeFacts DEF TraceType, Enqueue
    <3>4. Connection(a)' /\ Fresh(a)'
      BY <1>3 DEF Inv, AgentInv, Connection, Fresh, AgentClock, Enqueue, networkVars
    <3>5. Custody(a)'
      BY <1>3, <3>1, <3>2, <3>3, TypeFacts DEF Inv, AgentInv, Custody, Enqueue, networkVars, Index
    <3>6. Truthful(a)'
      <4>1. \A i \in Index : trace'[a][i].outcome = trace[a][i].outcome
        BY <3>2, <3>3
      <4>2. agent[a].report # NoReport => agent[a].report.cmd \in Index
        BY TypeFacts DEF AgentType, ReportType
      <4> QED
        BY <1>3, <4>1, <4>2, TypeFacts DEF Inv, AgentInv, Truthful, Enqueue, networkVars
    <3>7. Epochs(a)'
      <4> SUFFICES ASSUME NEW i \in Index
                   PROVE  /\ trace'[a][i].epoch <= row'[a].key
                          /\ i \in answer'[a].batch => trace'[a][i].epoch <= answer'[a].key
                          /\ i \in agent'[a].batch => trace'[a][i].epoch <= agent'[a].procKey
        BY DEF Epochs
      <4>1. answer' = answer /\ agent' = agent
        BY <1>3 DEF Enqueue, networkVars
      <4>2. CASE i = issued[a] + 1
        BY <3>1, <3>3, <4>1, <4>2, TypeFacts DEF Inv, AgentInv, Custody
      <4>3. CASE i # issued[a] + 1
        BY <3>1, <3>2, <4>1, <4>3 DEF Inv, AgentInv, Epochs
      <4> QED
        BY <4>2, <4>3
    <3> QED
      BY <3>4, <3>5, <3>6, <3>7 DEF AgentInv
  <2> QED
    BY <2>1, <2>2
<1> QED
  BY <1>1, <1>2, <1>3 DEF Operator, RotateSecret, SendCommand, Broadcast
(* The server answering polls and recording results keeps the invariant.   *)
LEMMA InvServer == TypeOK /\ Inv /\ (\E a \in Agents : Server(a)) => Inv'
<1> SUFFICES ASSUME TypeOK, Inv, NEW a \in Agents, Server(a) PROVE Inv'
  OBVIOUS
<1>a. /\ Connection(a) /\ Custody(a) /\ Truthful(a) /\ Fresh(a) /\ Epochs(a)
      /\ \A b \in Agents : AgentInv(b)
  BY DEF Inv, AgentInv
<1>1. ASSUME NEW m \in polls[a], RefusePoll(a, m)
      PROVE  Inv'
  <2>1. \A b \in Agents \ {a} : AgentInv(b)'
    BY <1>1, Untouched, TypeFacts DEF TypeOK, Inv, RefusePoll, serverVars
  <2>2. polls'[a] = polls[a] \ {m}
    BY <1>1 DEF TypeOK, RefusePoll
  <2>3. answer'[a] = IF m.live THEN Refusal ELSE answer[a]
    BY <1>1 DEF TypeOK, RefusePoll
  <2>4. Connection(a)'
    BY <1>1, <1>a, <2>2, <2>3 DEF Connection, RefusePoll, Refusal
  <2>5. Custody(a)' /\ Truthful(a)' /\ Fresh(a)' /\ Epochs(a)'
    BY <1>1, <1>a, <2>2, <2>3 DEF Custody, Truthful, Fresh, Epochs, AgentClock,
                                  RefusePoll, serverVars, Refusal
  <2> QED
    BY <2>1, <2>4, <2>5 DEF Inv, AgentInv
<1>2. ASSUME NEW m \in polls[a], NEW B \in SUBSET Index, ServePoll(a, m, B)
      PROVE  Inv'
  <2>1. \A b \in Agents \ {a} : AgentInv(b)'
    BY <1>2, Untouched, TypeFacts DEF TypeOK, Inv, ServePoll, MarkDelivered
  <2>2. polls'[a] = polls[a] \ {m}
    BY <1>2 DEF TypeOK, ServePoll
  <2>3. /\ \A i \in B : cmds[a][i].status = "pending" /\ cmds'[a][i].status = "delivered"
        /\ \A i \in Index \ B : cmds'[a][i] = cmds[a][i]
    <3>1. \A i \in B : cmds[a][i].status = "pending" /\ i \in Index
      BY <1>2 DEF ServePoll, PendingBatch, Deliverable
    <3>2. \A i \in Index : cmds'[a][i] =
             IF i \in B THEN [cmds[a][i] EXCEPT !.status = "delivered"] ELSE cmds[a][i]
      BY <1>2 DEF TypeOK, ServePoll, MarkDelivered
    <3>3. \A i \in Index : cmds[a][i] \in CmdType
      BY TypeFacts
    <3> QED
      BY <3>1, <3>2, <3>3 DEF CmdType
  <2>4. \A i \in B : i \notin answer[a].batch \cup agent[a].batch /\ trace[a][i].outcome = "none"
    BY <1>a, <2>3 DEF Custody
  <2>5. CASE m.live
    <3>1. answer'[a] = [kind |-> "commands", key |-> row[a].key, batch |-> B]
      BY <1>2, <2>5 DEF TypeOK, ServePoll
    <3>2. agent[a].pc = "waiting" /\ agent[a].batch = {} /\ agent[a].report = NoReport
      BY <1>a, <2>5 DEF Connection
    <3>3. agent[a].skew >= -MaxAuthAge
      BY <1>2, <1>a, <2>5, TypeFacts, BoundsAssumption
         DEF ServePoll, Authentic, Abs, Fresh, AgentClock
    <3>4. Connection(a)' /\ Truthful(a)' /\ Fresh(a)'
      BY <1>2, <1>a, <2>2, <3>1, <3>2, <3>3 DEF Connection, Truthful, Fresh, AgentClock, ServePoll
    <3>5. Custody(a)'
      BY <1>2, <1>a, <2>3, <2>4, <3>1, <3>2 DEF Custody, ServePoll
    <3>6. Epochs(a)'
      BY <1>2, <1>a, <3>1 DEF Epochs, ServePoll
    <3> QED
      BY <2>1, <3>4, <3>5, <3>6 DEF Inv, AgentInv
  <2>6. CASE ~m.live
    <3>1. answer' = answer
      BY <1>2, <2>6 DEF ServePoll
    <3>2. Connection(a)' /\ Truthful(a)' /\ Fresh(a)' /\ Epochs(a)'
      BY <1>2, <1>a, <2>2, <3>1 DEF Connection, Truthful, Fresh, Epochs, AgentClock, ServePoll
    <3>3. Custody(a)'
      BY <1>2, <1>a, <2>3, <2>4, <3>1 DEF Custody, ServePoll
    <3> QED
      BY <2>1, <3>2, <3>3 DEF Inv, AgentInv
  <2> QED
    BY <2>5, <2>6
<1>3. ASSUME NEW m \in posts[a], RecordResult(a, m)
      PROVE  Inv'
  <2>1. \A b \in Agents \ {a} : AgentInv(b)'
    BY <1>3, Untouched, TypeFacts DEF TypeOK, Inv, RecordResult
  <2>2. posts'[a] \subseteq posts[a]
    BY <1>3 DEF TypeOK, RecordResult
  <2>3. m.cmd \in Index /\ trace[a][m.cmd].outcome = m.status /\ m.status # "none"
    BY <1>a, TypeFacts DEF Truthful, Outcomes
  <2>4. cmds'[a][m.cmd].status = "completed"
        /\ \A i \in Index \ {m.cmd} : cmds'[a][i] = cmds[a][i]
    BY <1>3, <2>3, TypeFacts DEF TypeOK, CmdType, RecordResult
  <2>5. row'[a].key = row[a].key
    BY <1>3, TypeFacts DEF TypeOK, RowType, RecordResult
  <2>6. Connection(a)' /\ Truthful(a)' /\ Fresh(a)' /\ Epochs(a)'
    BY <1>3, <1>a, <2>2, <2>5 DEF Connection, Truthful, Fresh, Epochs, AgentClock, RecordResult
  <2>7. Custody(a)'
    BY <1>3, <1>a, <2>3, <2>4 DEF Custody, RecordResult
  <2> QED
    BY <2>1, <2>6, <2>7 DEF Inv, AgentInv
<1> QED
  BY <1>1, <1>2, <1>3 DEF Server

(* Timeouts, reboots, clock changes and losses keep the invariant.         *)
LEMMA InvEnvironment == TypeOK /\ Inv /\ (\E a \in Agents : Environment(a)) => Inv'
<1> SUFFICES ASSUME TypeOK, Inv, NEW a \in Agents, Environment(a) PROVE Inv'
  OBVIOUS
<1>a. Connection(a) /\ Custody(a) /\ Truthful(a) /\ Fresh(a) /\ Epochs(a)
  BY DEF Inv, AgentInv
<1>1. ASSUME StopProcess(a) PROVE Inv'
  <2>1. \A b \in Agents \ {a} : AgentInv(b)'
    BY <1>1, Untouched, TypeFacts DEF TypeOK, Inv, StopProcess, serverVars
  <2>2. /\ agent'[a].pc = "idle" /\ agent'[a].batch = {} /\ agent'[a].report = NoReport
        /\ agent'[a].skew = agent[a].skew
    BY <1>1, TypeFacts DEF TypeOK, AgentType, StopProcess
  <2>3. answer'[a] = NoAnswer
    BY <1>1 DEF TypeOK, StopProcess
  <2>4. \A m \in polls'[a] : ~m.live
    <3>1. polls'[a] = {[m EXCEPT !.live = FALSE] : m \in polls[a]}
      BY <1>1 DEF TypeOK, StopProcess
    <3>2. \A m \in polls[a] : ~[m EXCEPT !.live = FALSE].live
      BY TypeFacts DEF PollType
    <3> QED
      BY <3>1, <3>2
  <2>5. Connection(a)' /\ Custody(a)' /\ Truthful(a)' /\ Fresh(a)' /\ Epochs(a)'
    BY <1>1, <1>a, <2>2, <2>3, <2>4 DEF Connection, Custody, Truthful, Fresh, Epochs, NoAnswer,
                                        StopProcess, serverVars
  <2> QED
    BY <2>1, <2>5 DEF Inv, AgentInv
<1>2. ASSUME NEW s \in Skews, SetClock(a, s) PROVE Inv'
  <2>1. \A b \in Agents \ {a} : AgentInv(b)'
    BY <1>2, Untouched, TypeFacts DEF TypeOK, Inv, SetClock, serverVars, networkVars
  <2>2. /\ agent'[a].pc = agent[a].pc /\ agent'[a].procKey = agent[a].procKey
        /\ agent'[a].batch = agent[a].batch /\ agent'[a].report = agent[a].report
    BY <1>2, TypeFacts DEF TypeOK, AgentType, SetClock
  <2>3. agent[a].pc = "idle" /\ answer[a].kind # "commands" /\ \A m \in polls[a] : ~m.live
    BY <1>2, <1>a DEF SetClock, Connection
  <2>4. Connection(a)' /\ Custody(a)' /\ Truthful(a)' /\ Fresh(a)' /\ Epochs(a)'
    BY <1>2, <1>a, <2>2, <2>3 DEF Connection, Custody, Truthful, Fresh, Epochs,
                                  SetClock, serverVars, networkVars
  <2> QED
    BY <2>1, <2>4 DEF Inv, AgentInv
<1>3. ASSUME NEW m \in polls[a], LosePoll(a, m) PROVE Inv'
  <2>1. \A b \in Agents \ {a} : AgentInv(b)'
    BY <1>3, Untouched, TypeFacts DEF TypeOK, Inv, LosePoll, serverVars
  <2>2. polls'[a] \subseteq polls[a]
    BY <1>3 DEF TypeOK, LosePoll
  <2>3. Connection(a)' /\ Custody(a)' /\ Truthful(a)' /\ Fresh(a)' /\ Epochs(a)'
    BY <1>3, <1>a, <2>2 DEF Connection, Custody, Truthful, Fresh, Epochs, AgentClock,
                            LosePoll, serverVars
  <2> QED
    BY <2>1, <2>3 DEF Inv, AgentInv
<1>4. ASSUME NEW m \in posts[a], LosePost(a, m) PROVE Inv'
  <2>1. \A b \in Agents \ {a} : AgentInv(b)'
    BY <1>4, Untouched, TypeFacts DEF TypeOK, Inv, LosePost, serverVars
  <2>2. posts'[a] \subseteq posts[a]
    BY <1>4 DEF TypeOK, LosePost
  <2>3. Connection(a)' /\ Custody(a)' /\ Truthful(a)' /\ Fresh(a)' /\ Epochs(a)'
    BY <1>4, <1>a, <2>2 DEF Connection, Custody, Truthful, Fresh, Epochs, AgentClock,
                            LosePost, serverVars
  <2> QED
    BY <2>1, <2>3 DEF Inv, AgentInv
<1> QED
  BY <1>1, <1>2, <1>3, <1>4 DEF Environment

(* The steps of the poll iteration keep the invariant.                     *)
LEMMA InvEndpoint == TypeOK /\ Inv /\ (\E a \in Agents : Endpoint(a)) => Inv'
<1> SUFFICES ASSUME TypeOK, Inv, NEW a \in Agents, Endpoint(a) PROVE Inv'
  OBVIOUS
<1>a. Connection(a) /\ Custody(a) /\ Truthful(a) /\ Fresh(a) /\ Epochs(a)
  BY DEF Inv, AgentInv
<1>b. agent[a].report # NoReport => agent[a].report.cmd \in Index
                                    /\ agent[a].report.status \in Outcomes
  BY TypeFacts DEF AgentType, ReportType
<1>1. CASE StartPoll(a)
  <2>1. \A b \in Agents \ {a} : AgentInv(b)'
    BY <1>1, Untouched, TypeFacts DEF TypeOK, Inv, StartPoll, serverVars
  <2>2. /\ agent'[a].pc = "waiting" /\ agent'[a].batch = agent[a].batch
        /\ agent'[a].skew = agent[a].skew /\ agent'[a].report = agent[a].report
    BY <1>1, TypeFacts DEF TypeOK, AgentType, StartPoll
  <2>3. agent[a].batch = {} /\ agent[a].report = NoReport
        /\ answer[a].kind = "none" /\ answer[a].batch = {}
    BY <1>1, <1>a DEF StartPoll, Connection
  <2>4. /\ \A m \in polls[a] : ~m.live
        /\ polls'[a] = polls[a] \cup {[key |-> agent[a].key, ts |-> AgentClock(a), live |-> TRUE]}
    BY <1>1, <1>a DEF TypeOK, StartPoll, Connection
  <2>5. Fresh(a)'
    BY <1>1, <1>a, <2>2, <2>3, <2>4, TypeFacts DEF Fresh, AgentClock, StartPoll
  <2>6. Connection(a)'
    BY <1>1, <1>a, <2>2, <2>3, <2>4 DEF Connection, StartPoll
  <2>7. Custody(a)' /\ Truthful(a)' /\ Epochs(a)'
    BY <1>1, <1>a, <2>2, <2>3 DEF Custody, Truthful, Epochs, StartPoll, serverVars
  <2> QED
    BY <2>1, <2>5, <2>6, <2>7 DEF Inv, AgentInv
<1>2. CASE ReceiveCommands(a)
  <2>1. \A b \in Agents \ {a} : AgentInv(b)'
    BY <1>2, Untouched, TypeFacts DEF TypeOK, Inv, ReceiveCommands, serverVars
  <2>2. /\ agent'[a].pc = "running"
        /\ agent'[a].batch = IF answer[a].key = agent[a].procKey THEN answer[a].batch ELSE {}
        /\ agent'[a].procKey = agent[a].procKey
        /\ agent'[a].skew = agent[a].skew /\ agent'[a].report = agent[a].report
    BY <1>2, TypeFacts DEF TypeOK, AgentType, ReceiveCommands
  <2>3. answer'[a] = NoAnswer
    BY <1>2 DEF TypeOK, ReceiveCommands
  <2>4. Custody(a)'
    BY <1>2, <1>a, <2>2, <2>3 DEF Custody, NoAnswer, ReceiveCommands, serverVars
  <2>5. Connection(a)' /\ Truthful(a)' /\ Epochs(a)'
    BY <1>2, <1>a, <2>2, <2>3, TypeFacts DEF Connection, Truthful, Epochs, NoAnswer,
                                  ReceiveCommands, serverVars
  <2>6. Fresh(a)'
    BY <1>2, <1>a, <2>2, <2>3 DEF Fresh, AgentClock, ReceiveCommands
  <2> QED
    BY <2>1, <2>4, <2>5, <2>6 DEF Inv, AgentInv
<1>3. CASE ReceiveRefusal(a)
  <2>1. \A b \in Agents \ {a} : AgentInv(b)'
    BY <1>3, Untouched, TypeFacts DEF TypeOK, Inv, ReceiveRefusal, serverVars
  <2>2. /\ agent'[a].pc = "idle" /\ agent'[a].batch = agent[a].batch
        /\ agent'[a].skew = agent[a].skew /\ agent'[a].report = agent[a].report
    BY <1>3, TypeFacts DEF TypeOK, AgentType, ReceiveRefusal
  <2>3. answer'[a] = NoAnswer
    BY <1>3 DEF TypeOK, ReceiveRefusal
  <2>4. Connection(a)' /\ Custody(a)' /\ Truthful(a)' /\ Epochs(a)'
    BY <1>3, <1>a, <2>2, <2>3 DEF Connection, Custody, Truthful, Epochs, NoAnswer,
                                  ReceiveRefusal, serverVars
  <2>5. Fresh(a)'
    BY <1>3, <1>a, <2>2, <2>3 DEF Fresh, AgentClock, NoAnswer, ReceiveRefusal
  <2> QED
    BY <2>1, <2>4, <2>5 DEF Inv, AgentInv
<1>4. ASSUME NEW i \in Index, NEW o \in Outcomes, TakeCommand(a, i, o), i \in agent[a].batch,
             trace'[a][i].outcome = o, trace'[a][i].runs \in {0, 1},
             trace'[a][i].epoch = trace[a][i].epoch,
             \A j \in Index \ {i} : trace'[a][j] = trace[a][j],
             \A b \in Agents \ {a} : trace'[b] = trace[b]
      PROVE  Inv'
  <2>1. \A b \in Agents \ {a} : AgentInv(b)'
    BY <1>4, Untouched, TypeFacts DEF TypeOK, Inv, TakeCommand, serverVars, networkVars
  <2>2. /\ agent'[a].pc = "running" /\ agent'[a].batch = agent[a].batch \ {i}
        /\ agent'[a].procKey = agent[a].procKey
        /\ agent'[a].skew = agent[a].skew /\ agent'[a].report = [cmd |-> i, status |-> o]
    BY <1>4, TypeFacts DEF TypeOK, AgentType, TakeCommand
  <2>3. /\ cmds[a][i].status = "delivered" /\ trace[a][i].outcome = "none" /\ o # "none"
        /\ answer[a].batch = {} /\ \A m \in polls[a] : ~m.live
    BY <1>4, <1>a DEF Custody, Connection, TakeCommand, Outcomes
  <2>4. Connection(a)'
    BY <1>4, <1>a, <2>2, <2>3 DEF Connection, TakeCommand, networkVars
  <2>5. Custody(a)'
    BY <1>4, <1>a, <2>2, <2>3 DEF Custody, TakeCommand, serverVars, networkVars
  <2>6. Truthful(a)'
    <3>1. \A m \in posts[a] : m.cmd \in Index /\ m.status # "none"
      BY TypeFacts DEF Outcomes
    <3> QED
      BY <1>4, <1>a, <2>2, <2>3, <3>1 DEF Truthful, TakeCommand, networkVars
  <2>7. Fresh(a)' /\ Epochs(a)'
    BY <1>4, <1>a, <2>2 DEF Fresh, Epochs, AgentClock, TakeCommand, serverVars, networkVars
  <2> QED
    BY <2>1, <2>4, <2>5, <2>6, <2>7 DEF Inv, AgentInv
<1>5. ASSUME NEW i \in Index, SkipExpired(a, i) PROVE Inv'
  <2>1. i \in agent[a].batch
    BY <1>5 DEF SkipExpired, TakeCommand, IsNext
  <2>2. trace'[a][i] = [trace[a][i] EXCEPT !.outcome = "rejected"]
        /\ \A j \in Index \ {i} : trace'[a][j] = trace[a][j]
    BY <1>5 DEF TypeOK, SkipExpired
  <2>3. \A b \in Agents \ {a} : trace'[b] = trace[b]
    BY <1>5 DEF TypeOK, SkipExpired
  <2>4. trace[a][i].runs = 0
    BY <2>1, <1>a DEF Custody
  <2>5. trace'[a][i].outcome = "rejected" /\ trace'[a][i].runs = 0
        /\ trace'[a][i].epoch = trace[a][i].epoch
    BY <2>2, <2>4, TypeFacts DEF TraceType
  <2> QED
    BY <1>4, <1>5, <2>1, <2>2, <2>3, <2>5 DEF SkipExpired, Outcomes
<1>6. ASSUME NEW i \in Index, NEW o \in {"success", "failure"}, RunCommand(a, i, o) PROVE Inv'
  <2>1. i \in agent[a].batch
    BY <1>6 DEF RunCommand, TakeCommand, IsNext
  <2>2. trace'[a][i] = [trace[a][i] EXCEPT !.runs = trace[a][i].runs + 1, !.outcome = o]
        /\ \A j \in Index \ {i} : trace'[a][j] = trace[a][j]
    BY <1>6 DEF TypeOK, RunCommand
  <2>3. \A b \in Agents \ {a} : trace'[b] = trace[b]
    BY <1>6 DEF TypeOK, RunCommand
  <2>4. trace[a][i].runs = 0
    BY <2>1, <1>a DEF Custody
  <2>5. trace'[a][i].outcome = o /\ trace'[a][i].runs = 1
        /\ trace'[a][i].epoch = trace[a][i].epoch
    BY <2>2, <2>4, TypeFacts DEF TraceType
  <2> QED
    BY <1>4, <1>6, <2>1, <2>2, <2>3, <2>5 DEF RunCommand, Outcomes
<1>7. CASE SendResult(a)
  <2>1. \A b \in Agents \ {a} : AgentInv(b)'
    BY <1>7, Untouched, TypeFacts DEF TypeOK, Inv, SendResult, serverVars
  <2>2. /\ agent'[a].pc = "running" /\ agent'[a].batch = agent[a].batch
        /\ agent'[a].procKey = agent[a].procKey
        /\ agent'[a].skew = agent[a].skew /\ agent'[a].report = NoReport
    BY <1>7, TypeFacts DEF TypeOK, AgentType, SendResult
  <2>3. \A m \in posts'[a] : \/ m \in posts[a]
                             \/ m.cmd = agent[a].report.cmd /\ m.status = agent[a].report.status
    <3> SUFFICES ASSUME NEW m \in posts'[a], m \notin posts[a]
                 PROVE  m.cmd = agent[a].report.cmd /\ m.status = agent[a].report.status
      OBVIOUS
    <3>1. posts'[a] = posts[a] \cup {[key |-> agent[a].procKey, ts |-> AgentClock(a),
                       cmd |-> agent[a].report.cmd, status |-> agent[a].report.status]}
      BY <1>7 DEF TypeOK, SendResult
    <3>2. m = [key |-> agent[a].procKey, ts |-> AgentClock(a),
               cmd |-> agent[a].report.cmd, status |-> agent[a].report.status]
      BY <3>1
    <3> QED
      BY <3>2
  <2>4. Truthful(a)'
    BY <1>7, <1>a, <2>2, <2>3 DEF Truthful, SendResult
  <2>5. Connection(a)' /\ Custody(a)' /\ Fresh(a)' /\ Epochs(a)'
    BY <1>7, <1>a, <2>2 DEF Connection, Custody, Fresh, Epochs, AgentClock, SendResult, serverVars
  <2> QED
    BY <2>1, <2>4, <2>5 DEF Inv, AgentInv
<1>8. CASE FinishPoll(a)
  <2>1. \A b \in Agents \ {a} : AgentInv(b)'
    BY <1>8, Untouched, TypeFacts DEF TypeOK, Inv, FinishPoll, serverVars, networkVars
  <2>2. /\ agent'[a].pc = "idle" /\ agent'[a].batch = {}
        /\ agent'[a].skew = agent[a].skew /\ agent'[a].report = NoReport
    BY <1>8, TypeFacts DEF TypeOK, AgentType, FinishPoll
  <2>3. answer[a].kind # "commands" /\ answer[a].batch = {} /\ \A m \in polls[a] : ~m.live
    BY <1>8, <1>a DEF FinishPoll, Connection
  <2>4. Connection(a)' /\ Custody(a)' /\ Truthful(a)' /\ Fresh(a)' /\ Epochs(a)'
    BY <1>8, <1>a, <2>2, <2>3 DEF Connection, Custody, Truthful, Fresh, Epochs, AgentClock,
                                  FinishPoll, serverVars, networkVars
  <2> QED
    BY <2>1, <2>4 DEF Inv, AgentInv
<1> QED
  BY <1>1, <1>2, <1>3, <1>5, <1>6, <1>7, <1>8 DEF Endpoint

(* The passing of time keeps the invariant.                                *)
LEMMA InvTick == TypeOK /\ Inv /\ (Tick \/ UNCHANGED vars) => Inv'
<1> SUFFICES ASSUME TypeOK, Inv, Tick \/ UNCHANGED vars, NEW a \in Agents PROVE AgentInv(a)'
  BY DEF Inv
<1>1. now' \in Nat /\ now <= now'
  BY TypeFacts DEF Tick, vars
<1> QED
  BY <1>1, Untouched DEF Inv, Tick, vars, serverVars, networkVars

(* Every step keeps the invariant.                                         *)
LEMMA InvStep == TypeOK /\ Inv /\ [Next]_vars => Inv'
BY InvOperator, InvServer, InvEndpoint, InvEnvironment, InvTick DEF Next


(* In every reachable state: one open connection at most, commands only in *)
(* the hands of a running process, reports that say what happened, clocks  *)
(* the server accepted, and no command under a secret older than its       *)
(* enrolment.                                                              *)
THEOREM InvCorrect == Spec => [](TypeOK /\ Inv)
<1>1. Init => TypeOK /\ Inv
  BY TypeOKInit, InvInit
<1>2. TypeOK /\ Inv /\ [Next]_vars => TypeOK' /\ Inv'
  BY TypeOKStep, InvStep
<1> QED
  BY <1>1, <1>2, PTL DEF Spec

(* No command is carried out twice: a poll marks what it hands over in the *)
(* step that hands it over, and what was handed over stays in one place.   *)
THEOREM AtMostOnceCorrect == Spec => []AtMostOnce
<1>1. Inv => AtMostOnce
  BY DEF Inv, AgentInv, Custody, AtMostOnce
<1> QED
  BY <1>1, InvCorrect, PTL

(* Only the dispatch of a command raises the number of times it ran.       *)
LEMMA OnlyRunCommandRuns ==
  ASSUME TypeOK, [Next]_vars, NEW a \in Agents, NEW i \in Index,
         trace'[a][i].runs > trace[a][i].runs
  PROVE  \E o \in {"success", "failure"} : RunCommand(a, i, o)
<1>a. trace[a][i] \in TraceType /\ trace[a][i].runs \in Nat
  BY TypeFacts
<1>1. trace' # trace
  BY <1>a
<1>2. ASSUME NEW S \in SUBSET Agents, NEW p, NEW t, Enqueue(S, p, t) PROVE FALSE
  <2>1. trace'[a][i] = trace[a][i] \/ trace'[a][i] = [trace[a][i] EXCEPT !.epoch = row[a].key]
    BY <1>2 DEF Enqueue
  <2>2. trace'[a][i].runs = trace[a][i].runs
    BY <1>a, <2>1 DEF TraceType
  <2> QED
    BY <1>a, <2>2
<1>3. ASSUME NEW b \in Agents, NEW j \in Index, SkipExpired(b, j) PROVE FALSE
  <2>1. trace'[a][i] = trace[a][i] \/ trace'[a][i] = [trace[a][i] EXCEPT !.outcome = "rejected"]
    BY <1>3 DEF TypeOK, SkipExpired
  <2>2. trace'[a][i].runs = trace[a][i].runs
    BY <1>a, <2>1 DEF TraceType
  <2> QED
    BY <1>a, <2>2
<1>4. ASSUME NEW b \in Agents, NEW j \in Index, NEW o \in {"success", "failure"},
             RunCommand(b, j, o), ~(b = a /\ j = i)
      PROVE  FALSE
  <2>1. trace'[a][i] = trace[a][i]
    BY <1>4 DEF TypeOK, RunCommand
  <2> QED
    BY <1>a, <2>1
<1>5. PICK b \in Agents : Endpoint(b)
  <2>1. ~Operator
    BY <1>1, <1>2 DEF Operator, EnrollAgent, RotateSecret, InstallSecret, SendCommand, Broadcast
  <2>2. ~Tick /\ ~UNCHANGED vars
    BY <1>1 DEF Tick, vars
  <2>3. \A b \in Agents : ~Server(b)
    BY <1>1 DEF Server, RefusePoll, ServePoll, RecordResult
  <2>4. \A b \in Agents : ~Environment(b)
    BY <1>1 DEF Environment, StopProcess, SetClock, LosePoll, LosePost
  <2> QED
    BY <2>1, <2>2, <2>3, <2>4 DEF Next
<1>6. ~(StartPoll(b) \/ ReceiveCommands(b) \/ ReceiveRefusal(b) \/ SendResult(b) \/ FinishPoll(b))
  BY <1>1 DEF StartPoll, ReceiveCommands, ReceiveRefusal, SendResult, FinishPoll
<1> QED
  BY <1>3, <1>4, <1>5, <1>6 DEF Endpoint

(* No command runs more than MaxAuthAge after its expiry, whatever the     *)
(* clock of the endpoint: an endpoint that was given commands was inside   *)
(* the authentication window, and its clock is not set while it runs.      *)
THEOREM StalenessCorrect == Spec => StalenessBounded
<1>1. TypeOK /\ Inv /\ [Next]_vars =>
        \A a \in Agents, i \in Index :
           trace'[a][i].runs > trace[a][i].runs => now <= cmds[a][i].expires + MaxAuthAge
  <2> SUFFICES ASSUME TypeOK, Inv, [Next]_vars, NEW a \in Agents, NEW i \in Index,
                      trace'[a][i].runs > trace[a][i].runs
               PROVE  now <= cmds[a][i].expires + MaxAuthAge
    OBVIOUS
  <2>1. PICK o \in {"success", "failure"} : RunCommand(a, i, o)
    BY OnlyRunCommandRuns
  <2>2. agent[a].skew >= -MaxAuthAge
    BY <2>1 DEF Inv, AgentInv, Fresh, RunCommand, TakeCommand
  <2> QED
    BY <2>1, <2>2, TypeFacts, BoundsAssumption DEF RunCommand, AgentClock
<1> QED
  BY <1>1, InvCorrect, PTL DEF Spec, StalenessBounded

(* A process that holds a retired secret runs no command issued after the  *)
(* secret was retired: the answer it accepts was signed with its own       *)
(* secret.                                                                 *)
THEOREM RetiredSecretCorrect == Spec => RetiredSecretPowerless
<1>1. TypeOK /\ Inv /\ [Next]_vars =>
        \A a \in Agents, i \in Index :
           trace'[a][i].runs > trace[a][i].runs => agent[a].procKey >= trace[a][i].epoch
  <2> SUFFICES ASSUME TypeOK, Inv, [Next]_vars, NEW a \in Agents, NEW i \in Index,
                      trace'[a][i].runs > trace[a][i].runs
               PROVE  agent[a].procKey >= trace[a][i].epoch
    OBVIOUS
  <2>1. PICK o \in {"success", "failure"} : RunCommand(a, i, o)
    BY OnlyRunCommandRuns
  <2>2. i \in agent[a].batch
    BY <2>1 DEF RunCommand, TakeCommand, IsNext
  <2> QED
    BY <2>2, TypeFacts DEF Inv, AgentInv, Epochs
<1> QED
  BY <1>1, InvCorrect, PTL DEF Spec, RetiredSecretPowerless

(* A command id is the pair of its coordinates.                            *)
LEMMA PairEq ==
  ASSUME NEW c \in Agents \X Index, NEW a, NEW i
  PROVE  c = <<a, i>> <=> c[1] = a /\ c[2] = i
<1>1. c = <<c[1], c[2]>>
  OBVIOUS
<1> QED
  BY <1>1

(* Every step is a step of the command life cycle or changes nothing of    *)
(* it.                                                                     *)
LEMMA RefinementStep == TypeOK /\ Inv /\ [Next]_vars => [Lifecycle!LNext]_(Lifecycle!lvars)
<1> SUFFICES ASSUME TypeOK, Inv, [Next]_vars
             PROVE  Lifecycle!LNext \/ UNCHANGED Lifecycle!lvars
  OBVIOUS
<1>1. ASSUME UNCHANGED <<cmds, result, trace>> PROVE UNCHANGED Lifecycle!lvars
  BY <1>1 DEF Lifecycle!lvars, StatusOf, OutcomeOf, RecordedOf
<1>2. ASSUME NEW S \in SUBSET Agents, NEW p, NEW t, Enqueue(S, p, t) PROVE Lifecycle!LNext
  <2> DEFINE T == {c \in Agents \X Index : c[1] \in S /\ c[2] = issued[c[1]] + 1}
  <2>1. \A c \in T : StatusOf[c] = "none"
    BY TypeFacts DEF Inv, AgentInv, Custody, StatusOf, Index
  <2>2. StatusOf' = [c \in Agents \X Index |-> IF c \in T THEN "pending" ELSE StatusOf[c]]
    BY <1>2 DEF StatusOf, Enqueue
  <2>3. OutcomeOf' = OutcomeOf
    <3>1. \A a \in Agents, i \in Index : trace'[a][i].outcome = trace[a][i].outcome
      <4> SUFFICES ASSUME NEW a \in Agents, NEW i \in Index
                   PROVE  trace'[a][i].outcome = trace[a][i].outcome
        OBVIOUS
      <4>1. trace'[a][i] = trace[a][i] \/ trace'[a][i] = [trace[a][i] EXCEPT !.epoch = row[a].key]
        BY <1>2 DEF Enqueue
      <4> QED
        BY <4>1, TypeFacts DEF TraceType
    <3> QED
      BY <3>1 DEF OutcomeOf
  <2>4. RecordedOf' = RecordedOf
    BY <1>2 DEF RecordedOf, Enqueue
  <2>5. Lifecycle!Issue(T)
    BY <2>1, <2>2, <2>3, <2>4 DEF Lifecycle!Issue
  <2> QED
    BY <2>5 DEF Lifecycle!LNext
<1>3. ASSUME NEW a \in Agents, NEW m, NEW B \in SUBSET Index, ServePoll(a, m, B)
      PROVE  Lifecycle!LNext
  <2> DEFINE T == {c \in Agents \X Index : c[1] = a /\ c[2] \in B}
  <2>1. \A c \in T : StatusOf[c] = "pending"
    BY <1>3 DEF StatusOf, ServePoll, PendingBatch, Deliverable
  <2>2. \A b \in Agents, i \in Index :
           cmds'[b][i].status = IF b = a /\ i \in B THEN "delivered" ELSE cmds[b][i].status
    <3> SUFFICES ASSUME NEW b \in Agents, NEW i \in Index
                 PROVE  cmds'[b][i].status = IF b = a /\ i \in B THEN "delivered"
                                                                ELSE cmds[b][i].status
      OBVIOUS
    <3>1. cmds'[b][i] = IF b = a /\ i \in B THEN [cmds[b][i] EXCEPT !.status = "delivered"]
                                            ELSE cmds[b][i]
      BY <1>3 DEF TypeOK, ServePoll, MarkDelivered
    <3> QED
      BY <3>1, TypeFacts DEF CmdType
  <2>3. StatusOf' = [c \in Agents \X Index |-> IF c \in T THEN "delivered" ELSE StatusOf[c]]
    BY <2>2 DEF StatusOf
  <2>4. Lifecycle!Deliver(T)
    BY <1>3, <2>1, <2>3 DEF Lifecycle!Deliver, ServePoll, OutcomeOf, RecordedOf
  <2> QED
    BY <2>4 DEF Lifecycle!LNext
<1>4. ASSUME NEW a \in Agents, NEW i \in Index, NEW o \in Outcomes, TakeCommand(a, i, o),
             trace'[a][i].outcome = o,
             \A b \in Agents, j \in Index : b # a \/ j # i => trace'[b][j] = trace[b][j]
      PROVE  Lifecycle!LNext
  <2>1. i \in agent[a].batch /\ UNCHANGED <<cmds, result>>
    BY <1>4 DEF TakeCommand, IsNext, serverVars
  <2>2. cmds[a][i].status = "delivered" /\ trace[a][i].outcome = "none"
    BY <2>1 DEF Inv, AgentInv, Custody
  <2>3. OutcomeOf' = [OutcomeOf EXCEPT ![<<a, i>>] = o]
    <3>1. \A c \in Agents \X Index : trace'[c[1]][c[2]].outcome = IF c = <<a, i>> THEN o ELSE OutcomeOf[c]
      BY <1>4, PairEq DEF OutcomeOf
    <3> QED
      BY <3>1 DEF OutcomeOf
  <2>4. Lifecycle!Handle(<<a, i>>, o)
    BY <2>1, <2>2, <2>3 DEF Lifecycle!Handle, StatusOf, OutcomeOf, RecordedOf
  <2> QED
    BY <2>4 DEF Lifecycle!LNext, Outcomes, Lifecycle!Outcomes
<1>5. ASSUME NEW a \in Agents, NEW i \in Index, SkipExpired(a, i) PROVE Lifecycle!LNext
  <2>1. trace'[a][i] = [trace[a][i] EXCEPT !.outcome = "rejected"]
        /\ \A b \in Agents, j \in Index : b # a \/ j # i => trace'[b][j] = trace[b][j]
    BY <1>5 DEF TypeOK, SkipExpired
  <2>2. trace'[a][i].outcome = "rejected"
    BY <2>1, TypeFacts DEF TraceType
  <2> QED
    BY <1>4, <1>5, <2>1, <2>2 DEF SkipExpired, Outcomes
<1>6. ASSUME NEW a \in Agents, NEW i \in Index, NEW o \in {"success", "failure"},
             RunCommand(a, i, o)
      PROVE  Lifecycle!LNext
  <2>1. trace'[a][i] = [trace[a][i] EXCEPT !.runs = trace[a][i].runs + 1, !.outcome = o]
        /\ \A b \in Agents, j \in Index : b # a \/ j # i => trace'[b][j] = trace[b][j]
    BY <1>6 DEF TypeOK, RunCommand
  <2>2. trace'[a][i].outcome = o
    BY <2>1, TypeFacts DEF TraceType
  <2> QED
    BY <1>4, <1>6, <2>1, <2>2 DEF RunCommand, Outcomes
<1>7. ASSUME NEW a \in Agents, NEW m \in posts[a], RecordResult(a, m) PROVE Lifecycle!LNext
  <2>1. m.cmd \in Index /\ trace[a][m.cmd].outcome = m.status /\ m.status # "none"
    BY TypeFacts DEF Inv, AgentInv, Truthful, Outcomes
  <2>2. RecordedOf' = [RecordedOf EXCEPT ![<<a, m.cmd>>] = OutcomeOf[<<a, m.cmd>>]]
    <3>1. \A c \in Agents \X Index : result'[c[1]][c[2]] = IF c = <<a, m.cmd>> THEN OutcomeOf[<<a, m.cmd>>] ELSE RecordedOf[c]
      BY <1>7, <2>1, PairEq DEF TypeOK, RecordResult, RecordedOf, OutcomeOf
    <3> QED
      BY <3>1 DEF RecordedOf
  <2>3. \A b \in Agents, i \in Index :
           cmds'[b][i].status = IF b = a /\ i = m.cmd THEN "completed" ELSE cmds[b][i].status
    <3> SUFFICES ASSUME NEW b \in Agents, NEW i \in Index
                 PROVE  cmds'[b][i].status = IF b = a /\ i = m.cmd THEN "completed"
                                                                  ELSE cmds[b][i].status
      OBVIOUS
    <3>1. cmds'[b][i] = IF b = a /\ i = m.cmd THEN [cmds[b][i] EXCEPT !.status = "completed"]
                                              ELSE cmds[b][i]
      BY <1>7, <2>1 DEF TypeOK, RecordResult
    <3> QED
      BY <3>1, TypeFacts DEF CmdType
  <2>4. StatusOf' = [StatusOf EXCEPT ![<<a, m.cmd>>] = "completed"]
    <3>1. \A c \in Agents \X Index : cmds'[c[1]][c[2]].status = IF c = <<a, m.cmd>> THEN "completed" ELSE StatusOf[c]
      BY <2>3, PairEq DEF StatusOf
    <3> QED
      BY <3>1 DEF StatusOf
  <2>5. Lifecycle!Record(<<a, m.cmd>>)
    BY <1>7, <2>1, <2>2, <2>4 DEF Lifecycle!Record, RecordResult, OutcomeOf
  <2> QED
    BY <2>1, <2>5 DEF Lifecycle!LNext
<1>8. CASE Operator
  BY <1>1, <1>2, <1>8 DEF Operator, EnrollAgent, RotateSecret, InstallSecret, SendCommand,
                          Broadcast, serverVars
<1>9. CASE Tick \/ UNCHANGED vars
  BY <1>1, <1>9 DEF Tick, vars, serverVars
<1>10. ASSUME NEW a \in Agents, Server(a)
       PROVE  Lifecycle!LNext \/ UNCHANGED Lifecycle!lvars
  BY <1>1, <1>3, <1>7, <1>10 DEF Server, RefusePoll, serverVars
<1>11. ASSUME NEW a \in Agents, Endpoint(a)
       PROVE  Lifecycle!LNext \/ UNCHANGED Lifecycle!lvars
  BY <1>1, <1>5, <1>6, <1>11 DEF Endpoint, StartPoll, ReceiveCommands, ReceiveRefusal,
                                 SendResult, FinishPoll, serverVars
<1>12. ASSUME NEW a \in Agents, Environment(a)
       PROVE  Lifecycle!LNext \/ UNCHANGED Lifecycle!lvars
  BY <1>1, <1>12 DEF Environment, StopProcess, SetClock, LosePoll, LosePost, serverVars
<1> QED
  BY <1>8, <1>9, <1>10, <1>11, <1>12 DEF Next

(* The channel implements CommandLifecycle: issued once, handed over once, *)
(* handled once, recorded as it went.                                      *)
THEOREM LifecycleRefined == Spec => ImplementsLifecycle
<1>1. Init => Lifecycle!LInit
  BY DEF Init, Lifecycle!LInit, StatusOf, OutcomeOf, RecordedOf
<1>2. TypeOK /\ Inv /\ [Next]_vars => [Lifecycle!LNext]_(Lifecycle!lvars)
  BY RefinementStep
<1> QED
  BY <1>1, <1>2, InvCorrect, PTL DEF Spec, ImplementsLifecycle, Lifecycle!LSpec

(* The profile shown for an endpoint changes, enrolment aside, only to the *)
(* profile of a set_profile that succeeded there.                          *)
THEOREM ProfileCorrect == Spec => ProfileEarned
<1>1. TypeOK /\ Inv /\ [Next]_vars =>
        \A a \in Agents :
          row'[a].key = row[a].key /\ row'[a].profile # row[a].profile =>
             \E i \in Index : /\ cmds[a][i].profile = row'[a].profile
                              /\ trace[a][i].outcome = "success"
  <2> SUFFICES ASSUME TypeOK, Inv, [Next]_vars, NEW a \in Agents,
                      row'[a].key = row[a].key, row'[a].profile # row[a].profile
               PROVE  \E i \in Index : /\ cmds[a][i].profile = row'[a].profile
                                       /\ trace[a][i].outcome = "success"
    OBVIOUS
  <2>1. ASSUME NEW b \in Agents, NEW p, EnrollAgent(b, p) PROVE FALSE
    BY <2>1, TypeFacts DEF TypeOK, EnrollAgent
  <2>2. ASSUME NEW S \in SUBSET Agents, NEW p, NEW t, Enqueue(S, p, t) PROVE FALSE
    BY <2>2, TypeFacts DEF RowType, Enqueue
  <2>3. ~Operator
    BY <2>1, <2>2 DEF Operator, RotateSecret, InstallSecret, SendCommand, Broadcast, serverVars
  <2>4. ~Tick /\ ~UNCHANGED vars
    BY DEF Tick, vars, serverVars
  <2>5. \A b \in Agents : ~Environment(b)
    BY DEF Environment, StopProcess, SetClock, LosePoll, LosePost, serverVars
  <2>6. \A b \in Agents : ~Endpoint(b)
    BY DEF Endpoint, StartPoll, ReceiveCommands, ReceiveRefusal, SkipExpired, RunCommand,
           TakeCommand, SendResult, FinishPoll, serverVars
  <2>7. PICK b \in Agents : \E m \in posts[b] : RecordResult(b, m)
    BY <2>3, <2>4, <2>5, <2>6 DEF Next, Server, RefusePoll, ServePoll, serverVars
  <2>7b. PICK m \in posts[b] : RecordResult(b, m)
    BY <2>7
  <2>8. /\ b = a /\ m.status = "success"
        /\ row'[a] = [row[a] EXCEPT !.profile = cmds[a][m.cmd].profile]
    BY <2>7b DEF TypeOK, RecordResult
  <2>9. m.cmd \in Index /\ trace[a][m.cmd].outcome = "success"
    BY <2>8, TypeFacts DEF Inv, AgentInv, Truthful
  <2>10. row'[a].profile = cmds[a][m.cmd].profile
    BY <2>8, TypeFacts DEF RowType
  <2> QED
    BY <2>9, <2>10
<1> QED
  BY <1>1, InvCorrect, PTL DEF Spec, ProfileEarned

-----------------------------------------------------------------------------
(* The order of the commands.                                              *)

(* The counter of an enrolment is at least what its commands were given.    *)
Sequenced(a) == \A i \in Index :
    i <= issued[a] /\ trace[a][i].epoch = row[a].key => cmds[a][i].seq <= row[a].seq

(* Of two commands of one enrolment the later has the greater number; it is  *)
(* only handed over with or after the earlier one, unless that has expired;  *)
(* and once it was taken the earlier one is on its way no more.             *)
InOrder(a, i, j) ==
    i < j /\ trace[a][i].epoch = trace[a][j].epoch =>
        /\ j <= issued[a] => cmds[a][i].seq < cmds[a][j].seq
        /\ cmds[a][j].status \in {"delivered", "completed"} /\ cmds[a][i].status = "pending"
              => cmds[a][i].expires <= now
        /\ trace[a][j].outcome # "none" => i \notin answer[a].batch \cup agent[a].batch

Ordered(a) == Sequenced(a) /\ \A i, j \in Index : InOrder(a, i, j)

(* A step that issues, hands over and takes nothing of an endpoint.         *)
Passes(a) ==
    /\ row'[a].key = row[a].key /\ row'[a].seq = row[a].seq /\ issued'[a] = issued[a]
    /\ \A i \in Index :
          /\ cmds'[a][i].seq = cmds[a][i].seq /\ cmds'[a][i].expires = cmds[a][i].expires
          /\ cmds'[a][i].status = "pending" => cmds[a][i].status = "pending"
          /\ cmds'[a][i].status \in {"delivered", "completed"} => cmds[a][i].status \in {"delivered", "completed"}
          /\ trace'[a][i].epoch = trace[a][i].epoch
          /\ trace'[a][i].outcome # "none" => trace[a][i].outcome # "none"
    /\ answer'[a].batch \cup agent'[a].batch \subseteq answer[a].batch \cup agent[a].batch

LEMMA NumberFacts ==
  ASSUME TypeOK, NEW a \in Agents
  PROVE  /\ now \in Nat /\ row[a].seq \in Nat /\ row[a].key \in Int /\ issued[a] \in Nat
         /\ Index \subseteq Nat
         /\ \A i \in Index : /\ cmds[a][i].seq \in Nat /\ cmds[a][i].expires \in Nat
                             /\ trace[a][i].epoch \in Int /\ trace[a][i].runs \in Nat
BY TypeFacts DEF RowType, CmdType, Index

LEMMA TimePasses == TypeOK /\ [Next]_vars => now' >= now
<1> SUFFICES ASSUME TypeOK, [Next]_vars, now' # now PROVE now' >= now
  BY NumberFacts DEF TypeOK
<1>1. ~Operator
  BY DEF Operator, EnrollAgent, RotateSecret, InstallSecret, SendCommand, Broadcast, Enqueue
<1>2. ASSUME NEW a \in Agents PROVE ~Server(a) /\ ~Endpoint(a) /\ ~Environment(a)
  <2>1. ~Server(a)
    BY DEF Server, RefusePoll, ServePoll, RecordResult
  <2>2. ~Endpoint(a)
    BY DEF Endpoint, StartPoll, ReceiveCommands, ReceiveRefusal, SkipExpired, RunCommand, TakeCommand,
           SendResult, FinishPoll
  <2>3. ~Environment(a)
    BY DEF Environment, StopProcess, SetClock, LosePoll, LosePost
  <2> QED
    BY <2>1, <2>2, <2>3
<1>3. Tick
  BY <1>1, <1>2 DEF Next, vars
<1> QED
  BY <1>3 DEF Tick, TypeOK

LEMMA PassesStep ==
  ASSUME TypeOK, NEW a \in Agents, Ordered(a), Passes(a), now' >= now, now' \in Nat
  PROVE  Ordered(a)'
<1>1. Sequenced(a)'
  BY NumberFacts DEF Ordered, Sequenced, Passes
<1>2. ASSUME NEW i \in Index, NEW j \in Index PROVE InOrder(a, i, j)'
  <2> SUFFICES ASSUME i < j, trace'[a][i].epoch = trace'[a][j].epoch
               PROVE  /\ j <= issued'[a] => cmds'[a][i].seq < cmds'[a][j].seq
                      /\ cmds'[a][j].status \in {"delivered", "completed"} /\ cmds'[a][i].status = "pending"
                            => cmds'[a][i].expires <= now'
                      /\ trace'[a][j].outcome # "none" => i \notin answer'[a].batch \cup agent'[a].batch
    BY DEF InOrder
  <2>1. InOrder(a, i, j) /\ trace[a][i].epoch = trace[a][j].epoch
    BY DEF Ordered, Passes
  <2>2. j <= issued'[a] => cmds'[a][i].seq < cmds'[a][j].seq
    BY <2>1 DEF InOrder, Passes
  <2>3. ASSUME cmds'[a][j].status \in {"delivered", "completed"}, cmds'[a][i].status = "pending"
        PROVE  cmds'[a][i].expires <= now'
    <3>1. cmds[a][i].expires <= now /\ cmds'[a][i].expires = cmds[a][i].expires
      BY <2>1, <2>3 DEF InOrder, Passes
    <3>2. cmds[a][i].expires \in Nat /\ now \in Nat
      BY NumberFacts
    <3> QED
      BY <3>1, <3>2
  <2>4. trace'[a][j].outcome # "none" => i \notin answer'[a].batch \cup agent'[a].batch
    BY <2>1 DEF InOrder, Passes
  <2> QED
    BY <2>2, <2>3, <2>4
<1> QED
  BY <1>1, <1>2 DEF Ordered

(* Every step passes an endpoint by, or is one of four that do not.         *)
Takes(a, i) ==
    /\ agent[a].pc = "running" /\ IsNext(a, i)
    /\ UNCHANGED <<row, issued, cmds, answer>>
    /\ agent'[a].batch = agent[a].batch \ {i}
    /\ \A j \in Index : /\ trace'[a][j].epoch = trace[a][j].epoch
                        /\ j # i => trace'[a][j].outcome = trace[a][j].outcome

LEMMA OrderForms ==
  ASSUME TypeOK, Inv, [Next]_vars, NEW a \in Agents
  PROVE  \/ Passes(a)
         \/ \E p : EnrollAgent(a, p)
         \/ \E S \in SUBSET Agents : \E p, t : a \in S /\ Enqueue(S, p, t)
         \/ \E m \in polls[a], B \in SUBSET Index : ServePoll(a, m, B)
         \/ \E i \in Index : Takes(a, i)
<1>a. Connection(a) /\ Custody(a) /\ Truthful(a)
  BY DEF Inv, AgentInv
<1>1. ASSUME row'[a] = row[a], issued'[a] = issued[a], cmds'[a] = cmds[a], answer'[a] = answer[a],
             agent'[a] = agent[a], trace'[a] = trace[a]
      PROVE  Passes(a)
  BY <1>1 DEF Passes
<1>2. ASSUME NEW b \in Agents, NEW p, EnrollAgent(b, p), b # a PROVE Passes(a)
  BY <1>1, <1>2 DEF TypeOK, EnrollAgent, networkVars
<1>3. ASSUME NEW b \in Agents, NEW k, InstallSecret(b, k) PROVE Passes(a)
  <2>1. CASE b = a
    <3>1. agent'[a].batch = agent[a].batch
      BY <1>3, <2>1, TypeFacts DEF TypeOK, AgentType, InstallSecret
    <3> QED
      BY <1>3, <3>1 DEF Passes, InstallSecret, serverVars, networkVars
  <2>2. CASE b # a
    BY <1>1, <1>3, <2>2 DEF TypeOK, InstallSecret, serverVars, networkVars
  <2> QED
    BY <2>1, <2>2
<1>4. ASSUME NEW S \in SUBSET Agents, NEW p, NEW t, Enqueue(S, p, t), a \notin S PROVE Passes(a)
  <2>1. cmds'[a] = cmds[a] /\ trace'[a] = trace[a]
    BY <1>4 DEF TypeOK, Enqueue
  <2>2. row'[a] = row[a] /\ issued'[a] = issued[a] /\ UNCHANGED <<answer, agent>>
    BY <1>4 DEF Enqueue, networkVars
  <2> QED
    BY <1>1, <2>1, <2>2
<1>5. CASE Operator
  <2>1. CASE \E b \in Agents : \E p : EnrollAgent(b, p)
    BY <1>2, <2>1
  <2>2. CASE \E b \in Agents, k \in 1 .. MaxKeys : InstallSecret(b, k)
    BY <1>3, <2>2
  <2>3. CASE \E S \in SUBSET Agents : \E p, t : Enqueue(S, p, t)
    BY <1>4, <2>3
  <2>4. CASE \E b \in Agents, p \in Profiles \cup {NoProfile}, t \in Ttls : SendCommand(b, p, t)
    BY <2>3, <2>4 DEF SendCommand
  <2>5. CASE \E f \in SUBSET Profiles, p \in Profiles \cup {NoProfile}, t \in Ttls : Broadcast(f, p, t)
    BY <2>3, <2>5 DEF Broadcast
  <2> QED
    BY <1>5, <2>1, <2>2, <2>4, <2>5 DEF Operator, RotateSecret
<1>6. CASE Tick \/ UNCHANGED vars
  BY <1>1, <1>6 DEF Tick, vars, serverVars, networkVars
<1>7. ASSUME NEW b \in Agents, b # a, Server(b) \/ Endpoint(b) \/ Environment(b) PROVE Passes(a)
  <2>1. issued'[a] = issued[a] /\ answer'[a] = answer[a] /\ agent'[a] = agent[a] /\ row'[a] = row[a]
    BY <1>7 DEF TypeOK, Server, RefusePoll, ServePoll, RecordResult, Endpoint, StartPoll, ReceiveCommands,
                ReceiveRefusal, SkipExpired, RunCommand, TakeCommand, SendResult, FinishPoll, Environment,
                StopProcess, SetClock, LosePoll, LosePost, serverVars, networkVars
  <2>2. cmds'[a] = cmds[a]
    BY <1>7 DEF TypeOK, Server, RefusePoll, ServePoll, MarkDelivered, RecordResult, Endpoint, StartPoll, ReceiveCommands,
                ReceiveRefusal, SkipExpired, RunCommand, TakeCommand, SendResult, FinishPoll, Environment,
                StopProcess, SetClock, LosePoll, LosePost, serverVars, networkVars
  <2>3. trace'[a] = trace[a]
    BY <1>7 DEF TypeOK, Server, RefusePoll, ServePoll, RecordResult, Endpoint, StartPoll, ReceiveCommands,
                ReceiveRefusal, SkipExpired, RunCommand, TakeCommand, SendResult, FinishPoll, Environment,
                StopProcess, SetClock, LosePoll, LosePost, serverVars, networkVars
  <2> QED
    BY <1>1, <2>1, <2>2, <2>3
<1>8. ASSUME UNCHANGED <<row, issued, cmds, trace>>,
             answer'[a].batch \cup agent'[a].batch \subseteq answer[a].batch \cup agent[a].batch
      PROVE  Passes(a)
  BY <1>8 DEF Passes
<1>9. ASSUME NEW m \in polls[a], RefusePoll(a, m) PROVE Passes(a)
  <2>1. answer'[a].batch \subseteq answer[a].batch /\ agent' = agent
    BY <1>9 DEF TypeOK, RefusePoll, Refusal
  <2> QED
    BY <1>8, <1>9, <2>1 DEF RefusePoll, serverVars
<1>10. ASSUME NEW m \in posts[a], RecordResult(a, m) PROVE Passes(a)
  <2>1. m.cmd \in Index /\ trace[a][m.cmd].outcome = m.status /\ m.status # "none"
    BY <1>a, TypeFacts DEF Truthful, Outcomes
  <2>2. cmds[a][m.cmd].status \in {"delivered", "completed"}
    BY <1>a, <2>1 DEF Custody
  <2>3. /\ cmds'[a][m.cmd] = [cmds[a][m.cmd] EXCEPT !.status = "completed"]
        /\ \A i \in Index \ {m.cmd} : cmds'[a][i] = cmds[a][i]
    BY <1>10, <2>1 DEF TypeOK, RecordResult
  <2>4. /\ cmds'[a][m.cmd].seq = cmds[a][m.cmd].seq /\ cmds'[a][m.cmd].expires = cmds[a][m.cmd].expires
        /\ cmds'[a][m.cmd].status = "completed"
    BY <2>1, <2>3, TypeFacts DEF CmdType
  <2>5. row'[a].key = row[a].key /\ row'[a].seq = row[a].seq
    BY <1>10, TypeFacts DEF TypeOK, RowType, RecordResult
  <2>6. UNCHANGED <<issued, answer, agent, trace>>
    BY <1>10 DEF RecordResult
  <2> QED
    BY <2>2, <2>3, <2>4, <2>5, <2>6 DEF Passes
<1>11. CASE Server(a)
  BY <1>9, <1>10, <1>11 DEF Server
<1>12. ASSUME StartPoll(a) \/ ReceiveRefusal(a) \/ SendResult(a) \/ FinishPoll(a) \/ StopProcess(a)
              \/ \E s \in Skews : SetClock(a, s)
       PROVE  Passes(a)
  <2>1. agent'[a].batch \subseteq agent[a].batch
    <3>1. agent[a] \in AgentType
      BY TypeFacts
    <3>2. agent'[a].batch = agent[a].batch \/ agent'[a].batch = {}
      <4>1. CASE StartPoll(a)
        BY <3>1, <4>1 DEF TypeOK, AgentType, StartPoll
      <4>2. CASE ReceiveRefusal(a)
        BY <3>1, <4>2 DEF TypeOK, AgentType, ReceiveRefusal
      <4>3. CASE SendResult(a)
        BY <3>1, <4>3 DEF TypeOK, AgentType, SendResult
      <4>4. CASE FinishPoll(a)
        BY <3>1, <4>4 DEF TypeOK, AgentType, FinishPoll
      <4>5. CASE StopProcess(a)
        BY <3>1, <4>5 DEF TypeOK, AgentType, StopProcess
      <4>6. ASSUME NEW s \in Skews, SetClock(a, s) PROVE agent'[a].batch = agent[a].batch
        BY <3>1, <4>6 DEF TypeOK, AgentType, SetClock
      <4> QED
        BY <1>12, <4>1, <4>2, <4>3, <4>4, <4>5, <4>6
    <3> QED
      BY <3>2
  <2>2. answer'[a].batch \subseteq answer[a].batch
    BY <1>12 DEF TypeOK, StartPoll, ReceiveRefusal, SendResult, FinishPoll, StopProcess, SetClock, NoAnswer, networkVars
  <2>3. UNCHANGED <<row, issued, cmds, trace>>
    BY <1>12 DEF StartPoll, ReceiveRefusal, SendResult, FinishPoll, StopProcess, SetClock, serverVars
  <2> QED
    BY <1>8, <2>1, <2>2, <2>3
<1>13. CASE ReceiveCommands(a)
  <2>1. agent'[a].batch \subseteq answer[a].batch
    BY <1>13, TypeFacts DEF TypeOK, AgentType, ReceiveCommands
  <2>2. answer'[a].batch = {} /\ UNCHANGED <<row, issued, cmds, trace>>
    BY <1>13 DEF TypeOK, ReceiveCommands, NoAnswer, serverVars
  <2> QED
    BY <1>8, <2>1, <2>2
<1>14. ASSUME NEW i \in Index, NEW o \in Outcomes, TakeCommand(a, i, o), NEW r, trace' = [trace EXCEPT ![a][i] = r],
              r.epoch = trace[a][i].epoch
       PROVE  Takes(a, i)
  <2>1. agent'[a].batch = agent[a].batch \ {i}
    BY <1>14, TypeFacts DEF TypeOK, AgentType, TakeCommand
  <2>2. trace'[a][i] = r /\ \A j \in Index \ {i} : trace'[a][j] = trace[a][j]
    BY <1>14 DEF TypeOK
  <2> QED
    BY <1>14, <2>1, <2>2 DEF Takes, TakeCommand, serverVars, networkVars
<1>15. ASSUME NEW i \in Index, SkipExpired(a, i) \/ \E o \in {"success", "failure"} : RunCommand(a, i, o)
       PROVE  Takes(a, i)
  <2>1. trace[a][i] \in TraceType
    BY TypeFacts
  <2>2. CASE SkipExpired(a, i)
    <3> DEFINE r == [trace[a][i] EXCEPT !.outcome = "rejected"]
    <3>1. r.epoch = trace[a][i].epoch
      BY <2>1 DEF TraceType
    <3>2. TakeCommand(a, i, "rejected") /\ trace' = [trace EXCEPT ![a][i] = r] /\ "rejected" \in Outcomes
      BY <2>2 DEF SkipExpired, Outcomes
    <3> QED
      BY <1>14, <3>1, <3>2
  <2>3. ASSUME NEW o \in {"success", "failure"}, RunCommand(a, i, o) PROVE Takes(a, i)
    <3> DEFINE r == [trace[a][i] EXCEPT !.runs = trace[a][i].runs + 1, !.outcome = o]
    <3>1. r.epoch = trace[a][i].epoch
      BY <2>1 DEF TraceType
    <3>2. TakeCommand(a, i, o) /\ trace' = [trace EXCEPT ![a][i] = r] /\ o \in Outcomes
      BY <2>3 DEF RunCommand, Outcomes
    <3> QED
      BY <1>14, <3>1, <3>2
  <2> QED
    BY <1>15, <2>2, <2>3
<1>16. CASE Endpoint(a)
  BY <1>12, <1>13, <1>15, <1>16 DEF Endpoint
<1>17. CASE Environment(a)
  <2>1. (\E m \in polls[a] : LosePoll(a, m)) \/ (\E m \in posts[a] : LosePost(a, m)) => Passes(a)
    BY <1>1 DEF LosePoll, LosePost, serverVars
  <2> QED
    BY <1>12, <1>17, <2>1 DEF Environment
<1> QED
  BY <1>5, <1>6, <1>7, <1>11, <1>16, <1>17 DEF Next

(* The four steps that do not.                                             *)
LEMMA EnrollOrdered ==
  ASSUME TypeOK, Inv, NEW a \in Agents, Ordered(a), NEW p, EnrollAgent(a, p)
  PROVE  Ordered(a)'
<1>1. /\ row'[a].key = row[a].key + 1 /\ UNCHANGED <<now, issued, cmds, trace, answer, agent>>
  BY DEF TypeOK, EnrollAgent, networkVars
<1>2. Sequenced(a)'
  BY <1>1, NumberFacts DEF Inv, AgentInv, Epochs, Sequenced
<1>3. \A i, j \in Index : InOrder(a, i, j)'
  BY <1>1 DEF Ordered, InOrder
<1> QED
  BY <1>2, <1>3 DEF Ordered

LEMMA EnqueueOrdered ==
  ASSUME TypeOK, Inv, NEW a \in Agents, Ordered(a), NEW S \in SUBSET Agents, NEW p, NEW t, a \in S, Enqueue(S, p, t)
  PROVE  Ordered(a)'
<1> DEFINE n == issued[a] + 1
<1>1. row[a] \in RowType
  BY TypeFacts
<1>2. /\ row'[a].key = row[a].key /\ row'[a].seq = row[a].seq + 1 /\ issued'[a] = n
      /\ UNCHANGED <<now, answer, agent>>
  BY <1>1 DEF RowType, Enqueue, networkVars
<1>3. \A i \in Index \ {n} : cmds'[a][i] = cmds[a][i] /\ trace'[a][i] = trace[a][i]
  BY DEF Enqueue
<1>4. \A i \in Index : i = n =>
         /\ cmds'[a][i].status = "pending" /\ cmds'[a][i].seq = row[a].seq + 1
         /\ trace'[a][i].epoch = row[a].key /\ trace'[a][i].outcome = "none"
  <2>1. \A i \in Index : i = n => trace[a][i] \in TraceType /\ trace[a][i].outcome = "none"
    <3>1. \A i \in Index : i = n => cmds[a][i].status = "none"
      BY NumberFacts DEF Inv, AgentInv, Custody
    <3> QED
      BY <3>1, TypeFacts DEF Inv, AgentInv, Custody
  <2>2. \A i \in Index : i = n =>
          /\ cmds'[a][i] = [status |-> "pending", seq |-> row[a].seq + 1, expires |-> now + t, profile |-> p]
          /\ trace'[a][i] = [trace[a][i] EXCEPT !.epoch = row[a].key]
    BY DEF Enqueue
  <2>3. ASSUME NEW i \in Index, i = n PROVE trace'[a][i].epoch = row[a].key /\ trace'[a][i].outcome = "none"
    <3>1. trace[a][i] \in TraceType /\ trace[a][i].outcome = "none" /\ trace'[a][i] = [trace[a][i] EXCEPT !.epoch = row[a].key]
      BY <2>1, <2>2, <2>3
    <3> QED
      BY <3>1 DEF TraceType
  <2>4. ASSUME NEW i \in Index, i = n PROVE cmds'[a][i].status = "pending" /\ cmds'[a][i].seq = row[a].seq + 1
    <3>1. cmds'[a][i] = [status |-> "pending", seq |-> row[a].seq + 1, expires |-> now + t, profile |-> p]
      BY <2>2, <2>4
    <3> QED
      BY <3>1
  <2> HIDE DEF n
  <2> QED
    BY <2>3, <2>4
<1>5. \A i \in Index : i > issued[a] => cmds[a][i].status = "none" /\ trace[a][i].outcome = "none"
  BY DEF Inv, AgentInv, Custody
<1>6. n \in Nat /\ issued[a] \in Nat /\ Index \subseteq Nat
  BY NumberFacts
<1> HIDE DEF n
<1>7. n = issued[a] + 1
  BY DEF n
<1>8. Sequenced(a)'
  <2> SUFFICES ASSUME NEW i \in Index, i <= n, trace'[a][i].epoch = row[a].key PROVE cmds'[a][i].seq <= row[a].seq + 1
    BY <1>2 DEF Sequenced
  <2>1. CASE i = n
    BY <1>4, <2>1, NumberFacts
  <2>2. CASE i # n
    <3>1. i <= issued[a]
      BY <1>6, <1>7, <2>2
    <3>2. cmds[a][i].seq <= row[a].seq
      BY <1>3, <2>2, <3>1 DEF Ordered, Sequenced
    <3> QED
      BY <1>3, <2>2, <3>2, NumberFacts
  <2> QED
    BY <2>1, <2>2
<1>9. ASSUME NEW i \in Index, NEW j \in Index PROVE InOrder(a, i, j)'
  <2> SUFFICES ASSUME i < j, trace'[a][i].epoch = trace'[a][j].epoch
               PROVE  /\ j <= n => cmds'[a][i].seq < cmds'[a][j].seq
                      /\ cmds'[a][j].status \in {"delivered", "completed"} /\ cmds'[a][i].status = "pending"
                            => cmds'[a][i].expires <= now
                      /\ trace'[a][j].outcome # "none" => i \notin answer[a].batch \cup agent[a].batch
    BY <1>2 DEF InOrder
  <2>1. CASE j = n
    <3>1. i # n /\ i <= issued[a]
      BY <1>6, <1>7, <2>1
    <3>2. trace[a][i].epoch = row[a].key
      BY <1>3, <1>4, <2>1, <3>1
    <3>3. cmds[a][i].seq <= row[a].seq
      BY <3>1, <3>2 DEF Ordered, Sequenced
    <3> QED
      BY <1>3, <1>4, <2>1, <3>1, <3>3, NumberFacts
  <2>2. CASE i = n
    <3>1. j # n /\ j > issued[a] /\ ~(j <= n)
      BY <1>6, <1>7, <2>2
    <3>2. cmds'[a][j].status = "none" /\ trace'[a][j].outcome = "none"
      BY <1>3, <1>5, <3>1
    <3> QED
      BY <3>1, <3>2
  <2>3. CASE i # n /\ j # n
    <3>1. j <= n => j <= issued[a]
      BY <1>6, <1>7, <2>3
    <3>2. InOrder(a, i, j) /\ trace[a][i].epoch = trace[a][j].epoch
      BY <1>3, <2>3 DEF Ordered
    <3> QED
      BY <1>3, <2>3, <3>1, <3>2 DEF InOrder
  <2> QED
    BY <2>1, <2>2, <2>3
<1> QED
  BY <1>8, <1>9 DEF Ordered

LEMMA ServeOrdered ==
  ASSUME TypeOK, Inv, NEW a \in Agents, Ordered(a), NEW m \in polls[a], NEW B \in SUBSET Index, ServePoll(a, m, B)
  PROVE  Ordered(a)'
<1>1. UNCHANGED <<now, row, issued, trace, agent>>
  BY DEF ServePoll
<1>2. \A i \in Index : cmds'[a][i] = IF i \in B THEN [cmds[a][i] EXCEPT !.status = "delivered"] ELSE cmds[a][i]
  BY DEF TypeOK, ServePoll, MarkDelivered
<1>3. \A i \in Index : /\ cmds'[a][i].seq = cmds[a][i].seq /\ cmds'[a][i].expires = cmds[a][i].expires
                       /\ i \in B => cmds'[a][i].status = "delivered"
                       /\ i \notin B => cmds'[a][i].status = cmds[a][i].status
  <2> SUFFICES ASSUME NEW i \in Index
               PROVE  /\ cmds'[a][i].seq = cmds[a][i].seq /\ cmds'[a][i].expires = cmds[a][i].expires
                      /\ i \in B => cmds'[a][i].status = "delivered"
                      /\ i \notin B => cmds'[a][i].status = cmds[a][i].status
    OBVIOUS
  <2>1. cmds[a][i] \in CmdType
    BY TypeFacts
  <2>2. CASE i \in B
    BY <1>2, <2>1, <2>2 DEF CmdType
  <2>3. CASE i \notin B
    BY <1>2, <2>3
  <2> QED
    BY <2>2, <2>3
<1>4. answer'[a].batch = B \/ answer'[a] = answer[a]
  BY DEF TypeOK, ServePoll
<1>5. /\ \A i \in B : cmds[a][i].status = "pending" /\ cmds[a][i].expires > now
      /\ \A i \in B, j \in Index : j \notin B /\ cmds[a][j].status = "pending" /\ cmds[a][j].expires > now
            => cmds[a][i].seq <= cmds[a][j].seq
  BY DEF ServePoll, PendingBatch, Deliverable
<1>6. Sequenced(a)'
  BY <1>1, <1>3 DEF Ordered, Sequenced
<1>7. ASSUME NEW i \in Index, NEW j \in Index PROVE InOrder(a, i, j)'
  <2> SUFFICES ASSUME i < j, trace[a][i].epoch = trace[a][j].epoch
               PROVE  /\ j <= issued[a] => cmds'[a][i].seq < cmds'[a][j].seq
                      /\ cmds'[a][j].status \in {"delivered", "completed"} /\ cmds'[a][i].status = "pending"
                            => cmds'[a][i].expires <= now
                      /\ trace[a][j].outcome # "none" => i \notin answer'[a].batch \cup agent[a].batch
    BY <1>1 DEF InOrder
  <2>1. InOrder(a, i, j)
    BY DEF Ordered
  <2>2. j <= issued[a] => cmds'[a][i].seq < cmds'[a][j].seq
    BY <1>3, <2>1 DEF InOrder
  (* The later one is handed over now: the earlier one waits no more.      *)
  <2>3. ASSUME cmds'[a][j].status \in {"delivered", "completed"}, cmds'[a][i].status = "pending"
        PROVE  cmds'[a][i].expires <= now
    <3>1. i \notin B /\ cmds[a][i].status = "pending"
      BY <1>3, <2>3
    <3>2. CASE j \notin B
      BY <1>3, <2>1, <2>3, <3>1, <3>2 DEF InOrder
    <3>3. CASE j \in B
      <4>1. j <= issued[a]
        BY <1>5, <3>3, NumberFacts DEF Inv, AgentInv, Custody
      <4>2. cmds[a][i].seq < cmds[a][j].seq
        BY <2>1, <4>1 DEF InOrder
      <4>3. ~(cmds[a][j].seq <= cmds[a][i].seq)
        BY <4>2, NumberFacts
      <4>4. ~(cmds[a][i].expires > now)
        BY <1>5, <3>1, <3>3, <4>3
      <4> QED
        BY <1>3, <4>4, NumberFacts
    <3> QED
      BY <3>2, <3>3
  (* The later one was taken before: the earlier one had expired.          *)
  <2>4. ASSUME trace[a][j].outcome # "none", i \in B PROVE FALSE
    <3>1. cmds[a][j].status \in {"delivered", "completed"}
      BY <2>4 DEF Inv, AgentInv, Custody
    <3>2. cmds[a][i].expires <= now
      BY <1>5, <2>1, <2>4, <3>1 DEF InOrder
    <3> QED
      BY <1>5, <2>4, <3>2, NumberFacts
  <2>5. trace[a][j].outcome # "none" => i \notin answer'[a].batch \cup agent[a].batch
    BY <1>4, <2>1, <2>4 DEF InOrder
  <2> QED
    BY <2>2, <2>3, <2>5
<1> QED
  BY <1>6, <1>7 DEF Ordered

LEMMA TakeOrdered ==
  ASSUME TypeOK, Inv, NEW a \in Agents, Ordered(a), NEW k \in Index, Takes(a, k), now' >= now, now' \in Nat
  PROVE  Ordered(a)'
<1>1. /\ answer[a].batch = {} /\ cmds[a][k].status = "delivered" /\ k <= issued[a]
  BY NumberFacts DEF Inv, AgentInv, Connection, Custody, Takes, IsNext
<1>2. Sequenced(a)'
  BY DEF Ordered, Sequenced, Takes
<1>3. ASSUME NEW i \in Index, NEW j \in Index PROVE InOrder(a, i, j)'
  <2> SUFFICES ASSUME i < j, trace[a][i].epoch = trace[a][j].epoch
               PROVE  /\ j <= issued[a] => cmds[a][i].seq < cmds[a][j].seq
                      /\ cmds[a][j].status \in {"delivered", "completed"} /\ cmds[a][i].status = "pending"
                            => cmds[a][i].expires <= now'
                      /\ trace'[a][j].outcome # "none" => i \notin answer[a].batch \cup agent'[a].batch
    BY DEF InOrder, Takes
  <2>1. InOrder(a, i, j)
    BY DEF Ordered
  <2>2. cmds[a][j].status \in {"delivered", "completed"} /\ cmds[a][i].status = "pending" => cmds[a][i].expires <= now'
    BY <2>1, NumberFacts DEF InOrder
  <2>3. ASSUME trace'[a][j].outcome # "none", i \in agent'[a].batch PROVE FALSE
    <3>1. i \in agent[a].batch /\ i # k
      BY <2>3 DEF Takes
    <3>2. CASE j # k
      BY <2>1, <2>3, <3>1, <3>2 DEF InOrder, Takes
    (* The earlier one would have been taken first.                        *)
    <3>3. CASE j = k
      <4>1. cmds[a][i].seq < cmds[a][j].seq
        BY <1>1, <2>1, <3>3 DEF InOrder
      <4>2. cmds[a][j].seq <= cmds[a][i].seq
        BY <3>1, <3>3 DEF Takes, IsNext
      <4> QED
        BY <4>1, <4>2, NumberFacts
    <3> QED
      BY <3>2, <3>3
  <2> QED
    BY <1>1, <2>1, <2>2, <2>3 DEF InOrder
<1> QED
  BY <1>2, <1>3 DEF Ordered

AllOrdered == \A a \in Agents : Ordered(a)

LEMMA OrderedInit == Init => AllOrdered
<1> SUFFICES ASSUME Init, NEW a \in Agents PROVE Ordered(a)
  BY DEF AllOrdered
<1>1. issued[a] = 0 /\ \A i \in Index : i \in Nat /\ i > 0
  BY DEF Init, Index
<1>2. \A i \in Index : trace[a][i].outcome = "none" /\ cmds[a][i].status = "none"
  BY DEF Init
<1> QED
  BY <1>1, <1>2 DEF Ordered, Sequenced, InOrder

LEMMA OrderedStep ==
  TypeOK /\ Inv /\ AllOrdered /\ [Next]_vars => AllOrdered'
<1> SUFFICES ASSUME TypeOK, Inv, [Next]_vars, NEW a \in Agents, Ordered(a) PROVE Ordered(a)'
  BY DEF AllOrdered
<1>1. now' >= now /\ now' \in Nat
  BY TimePasses, TypeOKStep DEF TypeOK
<1> QED
  BY <1>1, OrderForms, PassesStep, EnrollOrdered, EnqueueOrdered, ServeOrdered, TakeOrdered

(* Commands of one enrolment run in the order they were issued, for any     *)
(* number of them, any lives and any batch limit: a poll hands over the     *)
(* lowest numbers, the endpoint takes the lowest first, and what a later    *)
(* command overtook had expired and is never handed over.                   *)
THEOREM IssueOrderKept == Spec => IssueOrder
<1>1. TypeOK /\ TypeOK' /\ Inv /\ AllOrdered /\ [Next]_vars =>
        \A a \in Agents, i, j \in Index :
          /\ i < j /\ trace[a][i].epoch = trace[a][j].epoch
          /\ trace[a][j].runs > 0 /\ trace[a][i].runs = 0
          => trace'[a][i].runs = 0
  <2> SUFFICES ASSUME TypeOK, TypeOK', Inv, AllOrdered, [Next]_vars,
                      NEW a \in Agents, NEW i \in Index, NEW j \in Index,
                      i < j, trace[a][i].epoch = trace[a][j].epoch, trace[a][j].runs > 0, trace[a][i].runs = 0,
                      trace'[a][i].runs # 0
               PROVE  FALSE
    OBVIOUS
  <2>1. trace'[a][i].runs \in Nat
    BY DEF TypeOK, TraceType
  <2>2. trace'[a][i].runs > trace[a][i].runs
    BY <2>1
  <2>3. i \in agent[a].batch
    BY <2>2, OnlyRunCommandRuns DEF RunCommand, TakeCommand, IsNext
  <2>4. trace[a][j].outcome # "none"
    BY DEF Inv, AgentInv, Custody
  <2> QED
    BY <2>3, <2>4 DEF AllOrdered, Ordered, InOrder
<1>2. TypeOK /\ Inv /\ [Next]_vars => TypeOK' /\ Inv'
  BY TypeOKStep, InvStep
<1>3. Init => TypeOK /\ Inv
  BY TypeOKInit, InvInit
<1> QED
  BY <1>1, <1>2, <1>3, OrderedInit, OrderedStep, PTL DEF Spec, IssueOrder
=============================================================================
