---------------------------- MODULE FleetCommands ----------------------------
(***************************************************************************)
(* Fleet remote control: the command queue of the server                   *)
(* (api/command_queue.py, api/routes/fleet.py, api/routes/agent.py), the   *)
(* HMAC authentication it uses (shared/commands.py), and the endpoint's    *)
(* polling script (scripts/agent_command_handler.ps1, main poll loop).     *)
(*                                                                         *)
(* Every route handler runs to completion on the event loop (no await), so *)
(* each is one action.  The endpoint script is a process started every 60  *)
(* seconds: its HTTP calls, each command it carries out and each result it *)
(* posts are separate steps, and it may be killed between any two of them. *)
(*                                                                         *)
(* The i-th command issued to agent a is <<a, i>>; uuid, parameters and    *)
(* signatures are abstracted (a signature is the number of the secret that *)
(* made it).  Secrets of an agent are numbered in the order of enrolment,  *)
(* 0 standing for "never enrolled".                                        *)
(***************************************************************************)
EXTENDS Integers, FiniteSets

CONSTANTS Agents,      \* agent ids
          Profiles,    \* deployment profiles an agent can have
          NoProfile,   \* a command that is not set_profile
          Ttls,        \* ttl_sec values an operator may ask for
          BatchLimit,  \* max_count of get_pending_commands
          MaxAuthAge,  \* MAX_AUTH_AGE_SEC
          Skews,       \* values the agent's clock error can take
          MaxCommands, \* bound: commands issued to one agent
          MaxKeys,     \* bound: enrolments of one agent
          MaxTime,     \* bound: the server's clock
          MaxInFlight  \* bound: poll requests of one agent in the network

ASSUME BoundsAssumption ==
    /\ NoProfile \notin Profiles
    /\ Ttls \subseteq Nat
    /\ BatchLimit \in Nat \ {0}
    /\ MaxAuthAge \in Nat
    /\ Skews \subseteq Int
    /\ MaxCommands \in Nat /\ MaxKeys \in Nat /\ MaxTime \in Nat /\ MaxInFlight \in Nat

VARIABLES
    \* the server
    now,     \* time.time()
    row,     \* agents table: secret, sequence counter, profile
    issued,  \* number of commands of each agent
    cmds,    \* commands table
    result,  \* command_results table
    \* the network
    polls,   \* poll requests on their way to the server
    posts,   \* result posts on their way to the server
    answer,  \* the answer on its way to an agent's open poll connection
    \* the endpoints
    agent,   \* registry, clock error and running process of each endpoint
    \* history
    trace    \* what really happened to each command

vars == <<now, row, issued, cmds, result, polls, posts, answer, agent, trace>>

Index == 1 .. MaxCommands

Outcomes == {"success", "failure", "rejected"}

NoAnswer  == [kind |-> "none",     key |-> 0, batch |-> {}]
Refusal   == [kind |-> "refused",  key |-> 0, batch |-> {}]
NoReport  == [cmd |-> 0, status |-> "none"]

Abs(x) == IF x < 0 THEN -x ELSE x

-----------------------------------------------------------------------------
(* Types *)

RowType    == [key: 0 .. MaxKeys, seq: Nat, profile: Profiles \cup {NoProfile}]
CmdType    == [status: {"none", "pending", "delivered", "completed"},
               seq: Nat, expires: Nat, profile: Profiles \cup {NoProfile}]
PollType   == [key: 0 .. MaxKeys, ts: Int, live: BOOLEAN]
PostType   == [key: 0 .. MaxKeys, ts: Int, cmd: Index, status: Outcomes]
AnswerType == [kind: {"none", "refused", "commands"}, key: 0 .. MaxKeys, batch: SUBSET Index]
ReportType == [cmd: Index, status: Outcomes] \cup {NoReport}
AgentType  == [key: 0 .. MaxKeys, skew: Skews, pc: {"idle", "waiting", "running"},
               procKey: 0 .. MaxKeys, batch: SUBSET Index, report: ReportType]
TraceType  == [epoch: 0 .. MaxKeys, runs: Nat, outcome: Outcomes \cup {"none"}]

TypeOK ==
    /\ now \in 0 .. MaxTime
    /\ row \in [Agents -> RowType]
    /\ issued \in [Agents -> 0 .. MaxCommands]
    /\ cmds \in [Agents -> [Index -> CmdType]]
    /\ result \in [Agents -> [Index -> Outcomes \cup {"none"}]]
    /\ polls \in [Agents -> SUBSET PollType]
    /\ posts \in [Agents -> SUBSET PostType]
    /\ answer \in [Agents -> AnswerType]
    /\ agent \in [Agents -> AgentType]
    /\ trace \in [Agents -> [Index -> TraceType]]

-----------------------------------------------------------------------------
(* Initially nothing is enrolled.                                          *)

Init ==
    /\ now = 0
    /\ row = [a \in Agents |-> [key |-> 0, seq |-> 0, profile |-> NoProfile]]
    /\ issued = [a \in Agents |-> 0]
    /\ cmds = [a \in Agents |-> [i \in Index |->
                 [status |-> "none", seq |-> 0, expires |-> 0, profile |-> NoProfile]]]
    /\ result = [a \in Agents |-> [i \in Index |-> "none"]]
    /\ polls = [a \in Agents |-> {}]
    /\ posts = [a \in Agents |-> {}]
    /\ answer = [a \in Agents |-> NoAnswer]
    /\ agent \in [Agents -> {[key |-> 0, skew |-> s, pc |-> "idle", procKey |-> 0,
                               batch |-> {}, report |-> NoReport] : s \in Skews}]
    /\ trace = [a \in Agents |-> [i \in Index |->
                 [epoch |-> 0, runs |-> 0, outcome |-> "none"]]]

serverVars  == <<row, issued, cmds, result>>
networkVars == <<polls, posts, answer>>

-----------------------------------------------------------------------------
(* The operator's requests *)

(* A new secret replaces the old one, the counter restarts, the queue      *)
(* stays.                                                                  *)
EnrollAgent(a, p) ==
    /\ row[a].key < MaxKeys
    /\ row' = [row EXCEPT ![a] = [key |-> @.key + 1, seq |-> 0, profile |-> p]]
    /\ UNCHANGED <<now, issued, cmds, result, networkVars, agent, trace>>

RotateSecret(a) == row[a].key > 0 /\ EnrollAgent(a, row[a].profile)

(* deploy_endpoint.ps1 stores a secret it was given at some enrolment.     *)
InstallSecret(a, k) ==
    /\ agent[a].key < k /\ k <= row[a].key
    /\ agent' = [agent EXCEPT ![a] = [agent[a] EXCEPT !.key = k]]
    /\ UNCHANGED <<now, serverVars, networkVars, trace>>

(* enqueue_command, for each agent of a set: the next sequence number and  *)
(* a pending row.                                                          *)
Enqueue(S, p, ttl) ==
    /\ \A a \in S : row[a].key > 0 /\ issued[a] < MaxCommands
    /\ issued' = [a \in Agents |-> IF a \in S THEN issued[a] + 1 ELSE issued[a]]
    /\ row' = [a \in Agents |-> IF a \in S THEN [row[a] EXCEPT !.seq = row[a].seq + 1] ELSE row[a]]
    /\ cmds' = [a \in Agents |-> [i \in Index |->
                  IF a \in S /\ i = issued[a] + 1
                  THEN [status |-> "pending", seq |-> row[a].seq + 1,
                        expires |-> now + ttl, profile |-> p]
                  ELSE cmds[a][i]]]
    /\ trace' = [a \in Agents |-> [i \in Index |->
                   IF a \in S /\ i = issued[a] + 1
                   THEN [trace[a][i] EXCEPT !.epoch = row[a].key]
                   ELSE trace[a][i]]]
    /\ UNCHANGED <<now, result, networkVars, agent>>

SendCommand(a, p, ttl) == Enqueue({a}, p, ttl)

Broadcast(filter, p, ttl) ==
    LET S == {a \in Agents : row[a].key > 0 /\ row[a].profile \in filter}
    IN  S # {} /\ Enqueue(S, p, ttl)

-----------------------------------------------------------------------------
(* The server's agent-facing routes *)

(* Mutant: a timestamp is only refused when it lies in the future.          *)
AuthenticAnyAge(a, m) == m.key = row[a].key /\ m.ts - now <= MaxAuthAge

(* The Authorization header is signed with the current secret and its      *)
(* timestamp is within the window.                                         *)
Authentic(a, m) == m.key = row[a].key /\ Abs(now - m.ts) <= MaxAuthAge

(* Mutant: the query does not look at the status.                           *)
DeliverableAnyStatus(a) == {i \in Index : cmds[a][i].expires > now}

Deliverable(a) == {i \in Index : cmds[a][i].status = "pending" /\ cmds[a][i].expires > now}

(* Mutants: no ORDER BY; a LIMIT one short.                                 *)
PendingBatchUnordered(a, B) ==
    /\ B \subseteq Deliverable(a)
    /\ Cardinality(B) <= BatchLimit
    /\ B # Deliverable(a) => Cardinality(B) = BatchLimit

PendingBatchOneShort(a, B) ==
    /\ B \subseteq Deliverable(a)
    /\ \A i \in B, j \in Deliverable(a) \ B : cmds[a][i].seq <= cmds[a][j].seq
    /\ Cardinality(B) < BatchLimit

(* ORDER BY sequence LIMIT BatchLimit: ties may be cut either way.         *)
PendingBatch(a, B) ==
    /\ B \subseteq Deliverable(a)
    /\ \A i \in B, j \in Deliverable(a) \ B : cmds[a][i].seq <= cmds[a][j].seq
    /\ Cardinality(B) <= BatchLimit
    /\ B # Deliverable(a) => Cardinality(B) = BatchLimit

MarkDelivered(a, B) ==
    cmds' = [cmds EXCEPT ![a] = [i \in Index |->
               IF i \in B THEN [cmds[a][i] EXCEPT !.status = "delivered"] ELSE cmds[a][i]]]

(* Mutant: the secret before the last one is honoured for a while.          *)
ServePollWithGrace(a, m, B) ==
    /\ m \in polls[a]
    /\ m.key \in {row[a].key - 1, row[a].key} /\ Abs(now - m.ts) <= MaxAuthAge
    /\ PendingBatch(a, B)
    /\ MarkDelivered(a, B)
    /\ polls' = [polls EXCEPT ![a] = @ \ {m}]
    /\ answer' = IF m.live
                 THEN [answer EXCEPT ![a] = [kind |-> "commands", key |-> m.key, batch |-> B]]
                 ELSE answer
    /\ UNCHANGED <<now, row, issued, result, posts, agent, trace>>

(* An orphan request (its process has given up) is served like any other;  *)
(* only its answer goes nowhere.                                           *)
ServePoll(a, m, B) ==
    /\ m \in polls[a]
    /\ Authentic(a, m)
    /\ PendingBatch(a, B)
    /\ MarkDelivered(a, B)
    /\ polls' = [polls EXCEPT ![a] = @ \ {m}]
    /\ answer' = IF m.live
                 THEN [answer EXCEPT ![a] = [kind |-> "commands", key |-> row[a].key, batch |-> B]]
                 ELSE answer
    /\ UNCHANGED <<now, row, issued, result, posts, agent, trace>>

RefusePoll(a, m) ==
    /\ m \in polls[a]
    /\ ~Authentic(a, m)
    /\ polls' = [polls EXCEPT ![a] = @ \ {m}]
    /\ answer' = IF m.live THEN [answer EXCEPT ![a] = Refusal] ELSE answer
    /\ UNCHANGED <<now, serverVars, posts, agent, trace>>

(* Mutant: the profile is updated whatever the status.                      *)
RecordResultAnyStatus(a, m) ==
    /\ m \in posts[a]
    /\ Authentic(a, m)
    /\ posts' = [posts EXCEPT ![a] = @ \ {m}]
    /\ result' = [result EXCEPT ![a][m.cmd] = m.status]
    /\ cmds' = [cmds EXCEPT ![a][m.cmd] = [cmds[a][m.cmd] EXCEPT !.status = "completed"]]
    /\ row' = IF cmds[a][m.cmd].profile # NoProfile
              THEN [row EXCEPT ![a] = [row[a] EXCEPT !.profile = cmds[a][m.cmd].profile]]
              ELSE row
    /\ UNCHANGED <<now, issued, polls, answer, agent, trace>>

(* submit_result: the row is upserted, the command completed whatever its  *)
(* status, and a successful set_profile updates the agent row.             *)
RecordResult(a, m) ==
    /\ m \in posts[a]
    /\ Authentic(a, m)
    /\ posts' = [posts EXCEPT ![a] = @ \ {m}]
    /\ result' = [result EXCEPT ![a][m.cmd] = m.status]
    /\ cmds' = [cmds EXCEPT ![a][m.cmd] = [cmds[a][m.cmd] EXCEPT !.status = "completed"]]
    /\ row' = IF m.status = "success" /\ cmds[a][m.cmd].profile # NoProfile
              THEN [row EXCEPT ![a] = [row[a] EXCEPT !.profile = cmds[a][m.cmd].profile]]
              ELSE row
    /\ UNCHANGED <<now, issued, polls, answer, agent, trace>>

(* A post that does not authenticate, or that the network drops.           *)
LosePost(a, m) ==
    /\ m \in posts[a]
    /\ posts' = [posts EXCEPT ![a] = @ \ {m}]
    /\ UNCHANGED <<now, serverVars, polls, answer, agent, trace>>

LosePoll(a, m) ==
    /\ m \in polls[a]
    /\ polls' = [polls EXCEPT ![a] = @ \ {m}]
    /\ UNCHANGED <<now, serverVars, posts, answer, agent, trace>>

-----------------------------------------------------------------------------
(* The endpoint's poll iteration *)

AgentClock(a) == now + agent[a].skew

(* A scheduled run loads the secret from the registry and polls.           *)
StartPoll(a) ==
    /\ agent[a].pc = "idle" /\ agent[a].key > 0
    /\ Cardinality(polls[a]) < MaxInFlight
    /\ agent' = [agent EXCEPT ![a] = [agent[a] EXCEPT !.pc = "waiting", !.procKey = agent[a].key]]
    /\ polls' = [polls EXCEPT ![a] = @ \cup
                   {[key |-> agent[a].key, ts |-> AgentClock(a), live |-> TRUE]}]
    /\ UNCHANGED <<now, serverVars, posts, answer, trace>>

(* The answer arrives: commands whose signature verifies are kept.         *)
ReceiveCommands(a) ==
    /\ agent[a].pc = "waiting" /\ answer[a].kind = "commands"
    /\ agent' = [agent EXCEPT ![a] = [agent[a] EXCEPT !.pc = "running",
                   !.batch = IF answer[a].key = agent[a].procKey THEN answer[a].batch ELSE {}]]
    /\ answer' = [answer EXCEPT ![a] = NoAnswer]
    /\ UNCHANGED <<now, serverVars, polls, posts, trace>>

ReceiveRefusal(a) ==
    /\ agent[a].pc = "waiting" /\ answer[a].kind = "refused"
    /\ agent' = [agent EXCEPT ![a] = [agent[a] EXCEPT !.pc = "idle", !.procKey = 0]]
    /\ answer' = [answer EXCEPT ![a] = NoAnswer]
    /\ UNCHANGED <<now, serverVars, polls, posts, trace>>

(* The commands are taken in the order the server sent them.               *)
IsNext(a, i) == /\ i \in agent[a].batch
                /\ \A j \in agent[a].batch : cmds[a][i].seq <= cmds[a][j].seq

TakeCommand(a, i, o) ==
    /\ agent[a].pc = "running" /\ agent[a].report = NoReport
    /\ IsNext(a, i)
    /\ agent' = [agent EXCEPT ![a] = [agent[a] EXCEPT
                   !.batch = agent[a].batch \ {i}, !.report = [cmd |-> i, status |-> o]]]
    /\ UNCHANGED <<now, serverVars, networkVars>>

(* Mutant: the rejection is reported, then the command is run all the same. *)
SkipExpiredAndRun(a, i) ==
    /\ cmds[a][i].expires < AgentClock(a)
    /\ TakeCommand(a, i, "rejected")
    /\ trace' = [trace EXCEPT ![a][i] = [trace[a][i] EXCEPT
                   !.runs = trace[a][i].runs + 1, !.outcome = "success"]]

SkipExpired(a, i) ==
    /\ cmds[a][i].expires < AgentClock(a)
    /\ TakeCommand(a, i, "rejected")
    /\ trace' = [trace EXCEPT ![a][i] = [trace[a][i] EXCEPT !.outcome = "rejected"]]

(* Dispatch to a handler of the whitelist.  The server tells only success  *)
(* from the rest, so a handler that rejects its parameters is a failure.   *)
RunCommand(a, i, o) ==
    /\ cmds[a][i].expires >= AgentClock(a)
    /\ TakeCommand(a, i, o)
    /\ trace' = [trace EXCEPT ![a][i] = [trace[a][i] EXCEPT
                   !.runs = trace[a][i].runs + 1, !.outcome = o]]

(* Mutant: a result is posted before there is one.                          *)
SendResultEarly(a) ==
    /\ agent[a].pc = "running"
    /\ posts' = [posts EXCEPT ![a] = @ \cup
                   {[key |-> agent[a].procKey, ts |-> AgentClock(a),
                     cmd |-> agent[a].report.cmd, status |-> agent[a].report.status]}]
    /\ agent' = [agent EXCEPT ![a] = [agent[a] EXCEPT !.report = NoReport]]
    /\ UNCHANGED <<now, serverVars, polls, answer, trace>>

(* Send-Result: one attempt, whose failure is only logged.                 *)
SendResult(a) ==
    /\ agent[a].pc = "running" /\ agent[a].report # NoReport
    /\ posts' = [posts EXCEPT ![a] = @ \cup
                   {[key |-> agent[a].procKey, ts |-> AgentClock(a),
                     cmd |-> agent[a].report.cmd, status |-> agent[a].report.status]}]
    /\ agent' = [agent EXCEPT ![a] = [agent[a] EXCEPT !.report = NoReport]]
    /\ UNCHANGED <<now, serverVars, polls, answer, trace>>

FinishPoll(a) ==
    /\ agent[a].pc = "running" /\ agent[a].report = NoReport /\ agent[a].batch = {}
    /\ agent' = [agent EXCEPT ![a] = [agent[a] EXCEPT !.pc = "idle", !.procKey = 0]]
    /\ UNCHANGED <<now, serverVars, networkVars, trace>>

(* The poll times out, the machine reboots or the task scheduler kills the *)
(* process at its execution time limit: batch and unsent report are gone,  *)
(* the request stays in the network without anyone waiting.                *)
StopProcess(a) ==
    /\ agent[a].pc # "idle"
    /\ agent' = [agent EXCEPT ![a] = [agent[a] EXCEPT !.pc = "idle", !.procKey = 0,
                                              !.batch = {}, !.report = NoReport]]
    /\ polls' = [polls EXCEPT ![a] = {[m EXCEPT !.live = FALSE] : m \in @}]
    /\ answer' = [answer EXCEPT ![a] = NoAnswer]
    /\ UNCHANGED <<now, serverVars, posts, trace>>

(* Between two runs the clock may drift, or be stepped by w32tm.           *)
SetClock(a, s) ==
    /\ agent[a].pc = "idle" /\ s # agent[a].skew
    /\ agent' = [agent EXCEPT ![a] = [agent[a] EXCEPT !.skew = s]]
    /\ UNCHANGED <<now, serverVars, networkVars, trace>>

Tick ==
    /\ now < MaxTime
    /\ now' = now + 1
    /\ UNCHANGED <<serverVars, networkVars, agent, trace>>

-----------------------------------------------------------------------------
Operator ==
    \/ \E a \in Agents, p \in Profiles : EnrollAgent(a, p)
    \/ \E a \in Agents : RotateSecret(a)
    \/ \E a \in Agents, k \in 1 .. MaxKeys : InstallSecret(a, k)
    \/ \E a \in Agents, p \in Profiles \cup {NoProfile}, t \in Ttls : SendCommand(a, p, t)
    \/ \E f \in SUBSET Profiles, p \in Profiles \cup {NoProfile}, t \in Ttls : Broadcast(f, p, t)

Server(a) ==
    \/ \E m \in polls[a] : RefusePoll(a, m) \/ \E B \in SUBSET Index : ServePoll(a, m, B)
    \/ \E m \in posts[a] : RecordResult(a, m)

Endpoint(a) ==
    \/ StartPoll(a) \/ ReceiveCommands(a) \/ ReceiveRefusal(a)
    \/ \E i \in Index : SkipExpired(a, i) \/ \E o \in {"success", "failure"} : RunCommand(a, i, o)
    \/ SendResult(a) \/ FinishPoll(a)

Environment(a) ==
    \/ StopProcess(a)
    \/ \E s \in Skews : SetClock(a, s)
    \/ \E m \in polls[a] : LosePoll(a, m)
    \/ \E m \in posts[a] : LosePost(a, m)

Next == \/ Operator \/ Tick
        \/ \E a \in Agents : Server(a) \/ Endpoint(a) \/ Environment(a)

Spec == Init /\ [][Next]_vars
(***************************************************************************)
(* Fairness: the scheduler starts the script again and again, a running    *)
(* script goes on or is stopped by a timeout, the server answers; a poll   *)
(* sent again and again is not lost every time.                            *)
(***************************************************************************)
EndpointStep(a) ==
    \/ ReceiveCommands(a) \/ ReceiveRefusal(a)
    \/ \E i \in Index : SkipExpired(a, i) \/ \E o \in {"success", "failure"} : RunCommand(a, i, o)
    \/ SendResult(a) \/ FinishPoll(a) \/ StopProcess(a)

AnswerPoll(a) == \E m \in polls[a] : RefusePoll(a, m) \/ \E B \in SUBSET Index : ServePoll(a, m, B)

AnswerLivePoll(a) == \E m \in polls[a] : m.live /\ \E B \in SUBSET Index : ServePoll(a, m, B)

Fairness == \A a \in Agents :
    /\ WF_vars(StartPoll(a))
    /\ WF_vars(EndpointStep(a))
    /\ WF_vars(AnswerPoll(a))
    /\ SF_vars(AnswerLivePoll(a))

FairSpec == Spec /\ Fairness

-----------------------------------------------------------------------------
(* The inductive invariant: what keeps AtMostOnce, StalenessBounded,       *)
(* RetiredSecretPowerless and the refinement true in every step.           *)

(* Only a waiting process has an open connection, one, or an answer under  *)
(* way on it, and only a running one holds commands.                       *)
Connection(a) ==
    /\ \A m \in polls[a] : m.live => /\ agent[a].pc = "waiting" /\ answer[a].kind = "none"
                                     /\ \A n \in polls[a] : n.live => n = m
    /\ answer[a].kind # "none" => agent[a].pc = "waiting"
    /\ answer[a].kind # "commands" => answer[a].batch = {}
    /\ agent[a].pc # "running" => agent[a].batch = {} /\ agent[a].report = NoReport

(* A command on its way to the endpoint or in its hands has been delivered *)
(* and not been touched; one that was touched is never pending again.      *)
Custody(a) == \A i \in Index :
    /\ i \in answer[a].batch \cup agent[a].batch =>
          cmds[a][i].status = "delivered" /\ trace[a][i].outcome = "none"
    /\ trace[a][i].outcome # "none" => cmds[a][i].status \in {"delivered", "completed"}
    /\ trace[a][i].outcome = "none" => trace[a][i].runs = 0
    /\ trace[a][i].runs <= 1
    /\ i > issued[a] => cmds[a][i].status = "none"

(* What is reported is what happened.                                      *)
Truthful(a) ==
    /\ agent[a].report # NoReport =>
          trace[a][agent[a].report.cmd].outcome = agent[a].report.status
    /\ \A m \in posts[a] : trace[a][m.cmd].outcome = m.status

(* An endpoint that was given commands has a clock the server accepted.    *)
Fresh(a) ==
    /\ \A m \in polls[a] : m.live => m.ts <= AgentClock(a)
    /\ answer[a].kind = "commands" \/ agent[a].pc = "running" => agent[a].skew >= -MaxAuthAge

(* No process is given commands of a later enrolment than its secret.      *)
Epochs(a) == \A i \in Index :
    /\ trace[a][i].epoch <= row[a].key
    /\ i \in answer[a].batch => trace[a][i].epoch <= answer[a].key
    /\ i \in agent[a].batch => trace[a][i].epoch <= agent[a].procKey

AgentInv(a) == Connection(a) /\ Custody(a) /\ Truthful(a) /\ Fresh(a) /\ Epochs(a)

Inv == \A a \in Agents : AgentInv(a)

-----------------------------------------------------------------------------
(* Properties *)

(* A command is carried out at most once, whatever is lost, delayed or     *)
(* answered twice: get_pending_commands and mark_delivered are one step.   *)
AtMostOnce == \A a \in Agents, i \in Index : trace[a][i].runs <= 1

(* No command runs later than its expiry plus the width of the             *)
(* authentication window: an endpoint whose clock is slower than that      *)
(* cannot fetch commands, so the expiry it checks against its own clock    *)
(* still bounds the delay seen by the server.                              *)
StalenessBounded ==
    [][\A a \in Agents, i \in Index :
          trace'[a][i].runs > trace[a][i].runs => now <= cmds[a][i].expires + MaxAuthAge]_vars

(* Commands issued under one enrolment run in the order they were issued:  *)
(* once a later one has run, an earlier one never starts.                  *)
IssueOrder ==
    [][\A a \in Agents, i, j \in Index :
          /\ i < j /\ trace[a][i].epoch = trace[a][j].epoch
          /\ trace[a][j].runs > 0 /\ trace[a][i].runs = 0
          => trace'[a][i].runs = 0]_vars

(* Enrolling again or rotating the secret cuts the old installation off:   *)
(* a process that holds a retired secret never runs a command issued after *)
(* the secret was retired.                                                 *)
RetiredSecretPowerless ==
    [][\A a \in Agents, i \in Index :
          trace'[a][i].runs > trace[a][i].runs => agent[a].procKey >= trace[a][i].epoch]_vars

(* The profile shown for an agent changes, other than by enrolment, only   *)
(* to the profile of a set_profile command that did succeed on it.         *)
ProfileEarned ==
    [][\A a \in Agents :
          row'[a].key = row[a].key /\ row'[a].profile # row[a].profile =>
             \E i \in Index : /\ cmds[a][i].profile = row'[a].profile
                              /\ trace[a][i].outcome = "success"]_vars

(* The channel implements the life of a command: issued, handed over,      *)
(* carried out once, recorded as it went.                                  *)
StatusOf   == [c \in Agents \X Index |-> cmds[c[1]][c[2]].status]
OutcomeOf  == [c \in Agents \X Index |-> trace[c[1]][c[2]].outcome]
RecordedOf == [c \in Agents \X Index |-> result[c[1]][c[2]]]

Lifecycle == INSTANCE CommandLifecycle WITH
    Ids <- Agents \X Index, status <- StatusOf, outcome <- OutcomeOf, recorded <- RecordedOf

ImplementsLifecycle == Lifecycle!LSpec

(* A pending command leaves the queue, unless it expires first or the      *)
(* endpoint cannot authenticate: its secret is stale or its clock is off.  *)
PendingDelivered ==
    \A a \in Agents, i \in Index :
        cmds[a][i].status = "pending" ~>
            \/ cmds[a][i].status # "pending"
            \/ cmds[a][i].expires <= now
            \/ agent[a].key # row[a].key
            \/ Abs(agent[a].skew) > MaxAuthAge
=============================================================================
