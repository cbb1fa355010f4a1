-------------------------- MODULE CommandLifecycle --------------------------
(***************************************************************************)
(* What the fleet remote-control channel promises for one command, with no *)
(* queue, no secrets, no clock and no network: it is issued once, handed   *)
(* to its agent at most once, carried out at most once, and the outcome    *)
(* the server records is the one the agent had.                            *)
(*                                                                         *)
(* FleetCommands implements this module (its Lifecycle instance).          *)
(***************************************************************************)
CONSTANT Ids        \* every command that can ever be issued

VARIABLES status,   \* the status column of the commands table
          outcome,  \* what the agent did with the command ("none": nothing)
          recorded  \* the status column of command_results ("none": no row)

lvars == <<status, outcome, recorded>>

Statuses == {"none", "pending", "delivered", "completed"}
Outcomes == {"success", "failure", "rejected"}

LTypeOK == /\ status   \in [Ids -> Statuses]
           /\ outcome  \in [Ids -> Outcomes \cup {"none"}]
           /\ recorded \in [Ids -> Outcomes \cup {"none"}]

LInit == /\ status   = [c \in Ids |-> "none"]
         /\ outcome  = [c \in Ids |-> "none"]
         /\ recorded = [c \in Ids |-> "none"]

(* An operator issues commands: one, or one per agent in a broadcast.      *)
Issue(S) == /\ \A c \in S : status[c] = "none"
            /\ status' = [c \in Ids |-> IF c \in S THEN "pending" ELSE status[c]]
            /\ UNCHANGED <<outcome, recorded>>

(* A poll hands a batch over; a lost answer still counts as handed over.   *)
Deliver(S) == /\ \A c \in S : status[c] = "pending"
              /\ status' = [c \in Ids |-> IF c \in S THEN "delivered" ELSE status[c]]
              /\ UNCHANGED <<outcome, recorded>>

(* The agent carries the command out, or refuses it, once.                 *)
Handle(c, o) == /\ status[c] = "delivered"
                /\ outcome[c] = "none"
                /\ outcome' = [outcome EXCEPT ![c] = o]
                /\ UNCHANGED <<status, recorded>>

(* The server stores the outcome the agent reported.                       *)
Record(c) == /\ outcome[c] # "none"
             /\ recorded' = [recorded EXCEPT ![c] = outcome[c]]
             /\ status' = [status EXCEPT ![c] = "completed"]
             /\ UNCHANGED outcome

LNext == \/ \E S \in SUBSET Ids : Issue(S) \/ Deliver(S)
         \/ \E c \in Ids : Record(c) \/ \E o \in Outcomes : Handle(c, o)

LSpec == LInit /\ [][LNext]_lvars
=============================================================================
