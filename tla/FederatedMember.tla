--------------------------- MODULE FederatedMember ---------------------------
(***************************************************************************)
(* An organisation's half of the federation: its key pair, its membership, *)
(* its consent and its contributions (federated/local_state.py and         *)
(* participation.py, api/routes/fl_local.py, the poller in api/main.py).   *)
(*                                                                         *)
(* Every route and every tick of the poller runs in the one event loop     *)
(* without giving it up, so "job" is at most one of them: at a place       *)
(* between two of its commits or around a request.  The process may die    *)
(* at any of those places; the database keeps what was committed.  The     *)
(* coordinator is a program of its own: it is modelled from what this side *)
(* sends it and expects of its answers.                                    *)
(*                                                                         *)
(* The table of contributions grows for ever: Ids are the rows in view,     *)
(* and a row that is not being worked on may leave the view for a new one. *)
(***************************************************************************)
EXTENDS Naturals, FiniteSets

CONSTANTS Ids,      \* contributions in view
          Rounds,
          MaxKeys,  \* key pairs ever generated
          MaxDeaths \* times the process dies

ASSUME MemberAssumption == MaxKeys \in Nat /\ MaxDeaths \in Nat

VARIABLES
    key,      \* the keypair row; 0: none
    keys,     \* key pairs generated so far
    config,   \* the coordinator_config row: the key its certificate is for; 0: none
    optedIn, mode, removal,
    history,  \* status of the contributions in view
    job,      \* the route or tick that is running
    org,      \* external: the coordinator's record of this organisation
    open,     \* external: rounds open to it
    wire,     \* external: uploads on their way
    taken,    \* external: contributions in view the coordinator has
    have,     \* external: open rounds in which the coordinator has a model of this one
    sent,     \* history: rounds a model was sent to since the last opt-out or end of the round
    deaths

membership  == <<key, keys, config, optedIn, mode, removal>>
coordinator == <<org, open, wire, taken, have>>
vars == <<membership, history, job, coordinator, sent, deaths>>

Keys     == 0 .. MaxKeys
Statuses == {"none", "pending", "accepted", "rejected", "failed"}
Uploads  == [id: Ids, round: Rounds, key: Keys]
Places   == {"idle", "rotate", "redeem", "send", "answer", "accepted", "failed", "requested", "purge", "purged"}
Job      == [at: Places, id: Ids, round: Rounds] \cup [at: Places]
Idle     == [at |-> "idle"]

Init ==
    /\ key = 0 /\ keys = 0 /\ config = 0
    /\ optedIn = FALSE /\ mode = "manual" /\ removal = "none"
    /\ history = [i \in Ids |-> "none"]
    /\ job = Idle
    /\ org = [status |-> "unknown", key |-> 0]
    /\ open = {} /\ wire = {} /\ taken = {} /\ have = {}
    /\ sent = {} /\ deaths = 0

At(place) == job.at = place
GoTo(place) == job' = [at |-> place]
Configured == config # 0

-----------------------------------------------------------------------------
(* Key pairs.                                                              *)

Generate ==
    /\ keys < MaxKeys
    /\ keys' = keys + 1
    /\ key' = keys + 1

InitKeypair ==
    /\ At("idle") /\ key = 0
    /\ Generate
    /\ UNCHANGED <<config, optedIn, mode, removal, history, job, coordinator, sent, deaths>>

(* Rotation commits the deletion before it generates.                       *)
RotateDelete ==
    /\ At("idle") /\ keys < MaxKeys
    /\ key' = 0
    /\ GoTo("rotate")
    /\ UNCHANGED <<keys, config, optedIn, mode, removal, history, coordinator, sent, deaths>>

RotateStore ==
    /\ At("rotate")
    /\ Generate
    /\ job' = Idle
    /\ UNCHANGED <<config, optedIn, mode, removal, history, coordinator, sent, deaths>>

-----------------------------------------------------------------------------
(* Membership.                                                             *)

(* The configuration and the end of an earlier removal are one transaction. *)
Configure(k) ==
    /\ config' = k
    /\ removal' = "none"
    /\ UNCHANGED <<optedIn, mode>>

(* By hand: the certificate pasted in may be for any key this organisation  *)
(* ever showed.                                                            *)
ConfigureByHand ==
    /\ At("idle") /\ key # 0
    /\ \E k \in 1 .. keys : Configure(k)
    /\ UNCHANGED <<key, keys, history, job, coordinator, sent, deaths>>

(* Self-enrolment makes a key pair if there is none, and redeems the token. *)
EnrollStart ==
    /\ At("idle")
    /\ IF key = 0 THEN Generate ELSE UNCHANGED <<key, keys>>
    /\ GoTo("redeem")
    /\ UNCHANGED <<config, optedIn, mode, removal, history, coordinator, sent, deaths>>

(* The coordinator may refuse, and its package may be lost or not be what   *)
(* the operator's fingerprint says: nothing is configured then.            *)
Redeem ==
    /\ At("redeem")
    /\ \/ UNCHANGED <<config, optedIn, mode, removal, org>>
       \/ /\ org' = [status |-> "enrolled", key |-> key]
          /\ Configure(key) \/ UNCHANGED <<config, optedIn, mode, removal>>
    /\ job' = Idle
    /\ UNCHANGED <<key, keys, history, open, wire, taken, have, sent, deaths>>

OptIn(yes) ==
    /\ At("idle") /\ Configured
    /\ optedIn' = yes
    /\ sent' = IF yes THEN sent ELSE {}
    /\ UNCHANGED <<key, keys, config, mode, removal, history, job, coordinator, deaths>>

SetMode(m) ==
    /\ At("idle")
    /\ mode' = m
    /\ UNCHANGED <<key, keys, config, optedIn, removal, history, job, coordinator, sent, deaths>>

-----------------------------------------------------------------------------
(* Contributions.                                                          *)

(* The row is committed as pending before anything is sent.  The row in     *)
(* view that makes room for it takes its upload out of view too.           *)
Start(r) ==
    \E i \in Ids :
        /\ history' = [history EXCEPT ![i] = "pending"]
        /\ job' = [at |-> "send", id |-> i, round |-> r]
        /\ wire' = {u \in wire : u.id # i}
        /\ taken' = taken \ {i}
        /\ UNCHANGED <<membership, org, open, have, sent, deaths>>

(* The operator names a round or takes one the coordinator lists.           *)
Participate == At("idle") /\ Configured /\ optedIn /\ \E r \in Rounds : Start(r)

\* Mutant: a failure ends automatic participation.
AutoTickOnce == /\ At("idle") /\ Configured /\ mode = "auto" /\ optedIn
                /\ \A i \in Ids : history[i] # "failed"
                /\ \E r \in open : Start(r)

(* The poller takes part by itself when it was told to.                     *)
AutoTick == At("idle") /\ Configured /\ mode = "auto" /\ optedIn /\ \E r \in open : Start(r)

(* The attestation is signed with the present key and sent over a channel   *)
(* that needs the certificate for it; otherwise the attempt fails here.     *)
Send ==
    /\ At("send")
    /\ \/ /\ key # 0 /\ config = key
          /\ wire' = wire \cup {[id |-> job.id, round |-> job.round, key |-> key]}
          /\ sent' = sent \cup {job.round}
          /\ job' = [job EXCEPT !.at = "answer"]
       \/ /\ job' = [job EXCEPT !.at = "failed"]
          /\ UNCHANGED <<wire, sent>>
    /\ UNCHANGED <<membership, history, org, open, taken, have, deaths>>

\* Mutant: an answer that does not come counts as success.
AnswerAssumed ==
    /\ At("answer")
    /\ job' = [job EXCEPT !.at = "accepted"]
    /\ UNCHANGED <<membership, history, coordinator, sent, deaths>>

(* The answer says the coordinator has it; any other outcome, a timeout     *)
(* among them, is a failure.                                               *)
Answer ==
    /\ At("answer")
    /\ \/ job.id \in taken /\ job' = [job EXCEPT !.at = "accepted"]
       \/ job' = [job EXCEPT !.at = "failed"]
    /\ UNCHANGED <<membership, history, coordinator, sent, deaths>>

Record ==
    /\ At("accepted") \/ At("failed")
    /\ history' = [history EXCEPT ![job.id] = job.at]
    /\ job' = Idle
    /\ UNCHANGED <<membership, coordinator, sent, deaths>>

-----------------------------------------------------------------------------
(* Leaving.                                                                *)

(* The signed request; when its answer is lost the organisation does not    *)
(* know that it is leaving.                                                *)
RequestLeave ==
    /\ At("idle") /\ Configured /\ key # 0
    /\ IF org.status \in {"enrolled", "leaving"} /\ org.key = key /\ config = key
       THEN /\ org' = [org EXCEPT !.status = "leaving"]
            /\ GoTo("requested") \/ UNCHANGED job
       ELSE UNCHANGED <<org, job>>
    /\ UNCHANGED <<membership, history, open, wire, taken, have, sent, deaths>>

NoteRequest ==
    /\ At("requested")
    /\ removal' = "requested"
    /\ job' = Idle
    /\ UNCHANGED <<key, keys, config, optedIn, mode, history, coordinator, sent, deaths>>

FinalizeLeave ==
    /\ At("idle") /\ Configured /\ org.status = "revoked"
    /\ GoTo("purge")
    /\ UNCHANGED <<membership, history, coordinator, sent, deaths>>

\* Mutant: the consent survives the membership.
WipeKeepsConsent ==
    /\ key' = 0 /\ config' = 0 /\ mode' = "manual"
    /\ UNCHANGED <<keys, optedIn, removal, sent>>

(* Credentials, consent and settings go in one transaction.                 *)
Wipe ==
    /\ key' = 0 /\ config' = 0 /\ optedIn' = FALSE /\ mode' = "manual"
    /\ sent' = {}
    /\ UNCHANGED <<keys, removal>>

(* With the history kept, as finalize_leave does.                           *)
Purge ==
    /\ At("purge")
    /\ Wipe
    /\ GoTo("purged")
    /\ UNCHANGED <<history, coordinator, deaths>>

(* Without the coordinator, and with the history or not; what the history   *)
(* does not name any more is out of view.                                  *)
ForcePurge ==
    /\ At("idle") /\ Configured
    /\ Wipe
    /\ GoTo("purged")
    /\ \/ UNCHANGED <<history, wire, taken>>
       \/ history' = [i \in Ids |-> "none"] /\ wire' = {} /\ taken' = {}
    /\ UNCHANGED <<org, open, have, deaths>>

NoteCompleted ==
    /\ At("purged")
    /\ removal' = "completed"
    /\ job' = Idle
    /\ UNCHANGED <<key, keys, config, optedIn, mode, history, coordinator, sent, deaths>>

-----------------------------------------------------------------------------
(* The coordinator, the network and the end of the process.                *)

Take(u) ==
    /\ u \in wire
    /\ wire' = wire \ {u}
    /\ IF org = [status |-> "enrolled", key |-> u.key] /\ u.round \in open
       THEN taken' = taken \cup {u.id} /\ have' = have \cup {u.round}
       ELSE UNCHANGED <<taken, have>>
    /\ UNCHANGED <<membership, history, job, org, open, sent, deaths>>

Lose(u) ==
    /\ u \in wire
    /\ wire' = wire \ {u}
    /\ UNCHANGED <<membership, history, job, org, open, taken, have, sent, deaths>>

OpenRound(r) ==
    /\ r \notin open
    /\ open' = open \cup {r}
    /\ UNCHANGED <<membership, history, job, org, wire, taken, have, sent, deaths>>

CloseRound(r) ==
    /\ r \in open
    /\ open' = open \ {r} /\ have' = have \ {r} /\ sent' = sent \ {r}
    /\ UNCHANGED <<membership, history, job, org, wire, taken, deaths>>

(* The operator of the coordinator enrols a key by hand, and approves a     *)
(* removal or revokes an organisation.                                     *)
Admit ==
    /\ \E k \in 1 .. keys : org' = [status |-> "enrolled", key |-> k]
    /\ UNCHANGED <<membership, history, job, open, wire, taken, have, sent, deaths>>

Expel ==
    /\ org.status \in {"enrolled", "leaving"}
    /\ org' = [org EXCEPT !.status = "revoked"]
    /\ UNCHANGED <<membership, history, job, open, wire, taken, have, sent, deaths>>

Death ==
    /\ deaths < MaxDeaths /\ ~At("idle")
    /\ deaths' = deaths + 1
    /\ job' = Idle
    /\ UNCHANGED <<membership, history, coordinator, sent>>

-----------------------------------------------------------------------------
Route == \/ InitKeypair \/ RotateDelete \/ ConfigureByHand \/ EnrollStart
         \/ \E yes \in BOOLEAN : OptIn(yes)
         \/ \E m \in {"manual", "auto"} : SetMode(m)
         \/ Participate \/ RequestLeave \/ FinalizeLeave \/ ForcePurge

(* What is running goes on.                                                *)
Advance == RotateStore \/ Redeem \/ Send \/ Answer \/ Record \/ NoteRequest \/ Purge \/ NoteCompleted

Outside == \/ \E u \in wire : Take(u) \/ Lose(u)
           \/ \E r \in Rounds : OpenRound(r) \/ CloseRound(r)
           \/ Admit \/ Expel \/ Death

Next == Route \/ AutoTick \/ Advance \/ Outside

Spec == Init /\ [][Next]_vars

(* The event loop serves the poller among the routes, and an upload of any   *)
(* round gets out, and through, if it is tried again and again.             *)
Sends(r) == Send /\ job.round = r /\ wire' # wire
Takes(r) == \E u \in wire : u.round = r /\ Take(u)
FairSpec == /\ Spec /\ WF_vars(Advance) /\ SF_vars(AutoTick)
            /\ \A r \in Rounds : SF_vars(Sends(r)) /\ SF_vars(Takes(r))
-----------------------------------------------------------------------------
(* Types; a job at work on a contribution knows which.                      *)
OnContribution == {"send", "answer", "accepted", "failed"}

TypeOK ==
    /\ key \in Keys /\ keys \in Keys /\ config \in Keys
    /\ optedIn \in BOOLEAN /\ mode \in {"manual", "auto"}
    /\ removal \in {"none", "requested", "completed"}
    /\ history \in [Ids -> Statuses]
    /\ job \in Job /\ (job.at \in OnContribution => job \in [at: OnContribution, id: Ids, round: Rounds])
    /\ org \in [status: {"unknown", "enrolled", "leaving", "revoked"}, key: Keys]
    /\ open \subseteq Rounds /\ have \subseteq Rounds /\ sent \subseteq Rounds
    /\ wire \subseteq Uploads /\ taken \subseteq Ids
    /\ deaths \in Nat

(* What the organisation is told about itself is true, whatever was lost     *)
(* and wherever the process died: an accepted contribution is one the       *)
(* coordinator has, the coordinator has none (and none is on its way) that  *)
(* the history does not list, a completed removal has left no credentials   *)
(* and no consent, and only the death of a process leaves a contribution    *)
(* pending or a removal requested by an organisation that is out.           *)
ToldTrue ==
    /\ \A i \in Ids : history[i] = "accepted" => i \in taken
    /\ \A i \in taken \cup {u.id : u \in wire} : history[i] # "none"
    /\ removal = "completed" => ~Configured /\ ~optedIn
    /\ deaths = 0 => /\ \A i \in Ids : history[i] = "pending" =>
                          job.at \in OnContribution /\ job.id = i
                     /\ removal = "requested" => Configured \/ At("purged")

(* Nothing is sent without the consent given in the present membership.     *)
Consents == INSTANCE FederationConsent WITH
    standing <- IF ~Configured THEN "outside" ELSE IF optedIn THEN "consenting" ELSE "member"
ImplementsConsent == Consents!CSpec

(* An organisation that takes part automatically, is admitted with the key   *)
(* it has and stays so, gets a model to the coordinator in a round that     *)
(* stays open, however often an upload fails or its answer is lost.         *)
Ready(r) ==
    /\ Configured /\ optedIn /\ mode = "auto"
    /\ config = key /\ org = [status |-> "enrolled", key |-> key]
    /\ open = {r}

Participates == \A r \in Rounds : <>[]Ready(r) => <>(r \in have)
=============================================================================
