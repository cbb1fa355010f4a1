---------------------------- MODULE ModelRelease ----------------------------
(***************************************************************************)
(* What the model store promises to a detector, with no files, links,      *)
(* threads or restarts: a version goes through its stages one way, an      *)
(* active version is retired before it can be removed, a removed version   *)
(* never comes back, and only a version somebody approved is pointed at    *)
(* or served.                                                              *)
(*                                                                         *)
(* ModelLifecycle implements this module (its Release instance).           *)
(***************************************************************************)
CONSTANT Versions

VARIABLES stage,    \* the status of every version
          approved, \* versions an operator, or the end of a soak, approved
          current,  \* what the "latest" link names ({}: no link)
          serving   \* what the detector scores with ({}: no model)

rvars == <<stage, approved, current, serving>>

Stages == {"none", "staged", "active", "archived", "discarded", "gone"}

(* Where a version may go from each stage.                                 *)
After(s) == CASE s = "none"      -> {"staged", "active"}
              [] s = "staged"    -> {"active", "discarded"}
              [] s = "active"    -> {"archived"}
              [] s = "archived"  -> {"active", "gone"}
              [] s = "discarded" -> {"active", "gone"}
              [] s = "gone"      -> {}

RTypeOK == /\ stage \in [Versions -> Stages]
           /\ approved \in SUBSET Versions
           /\ current \in SUBSET Versions
           /\ serving \in SUBSET Versions

RInit == /\ stage \in [Versions -> {"none", "active"}]
         /\ approved = {v \in Versions : stage[v] = "active"}
         /\ current = approved
         /\ serving = approved

Approve(v) == /\ stage[v] \notin {"none", "gone"}
              /\ approved' = approved \cup {v}
              /\ UNCHANGED <<stage, current, serving>>

(* Any number of versions move at once: one request may delete several.    *)
Move == /\ stage' \in [Versions -> Stages]
        /\ \A v \in Versions : stage'[v] = stage[v] \/ stage'[v] \in After(stage[v])
        /\ approved' \in SUBSET Versions
        /\ approved \subseteq approved'
        /\ \A v \in approved' \ approved : stage[v] = "none"
        /\ \A v \in Versions : stage[v] # "active" /\ stage'[v] = "active" => v \in approved'
        /\ UNCHANGED <<current, serving>>

Point == /\ current' \in {{}} \cup {{v} : v \in approved}
         /\ UNCHANGED <<stage, approved, serving>>

Serve == /\ serving' \in {{}, current}
         /\ serving' \subseteq approved
         /\ UNCHANGED <<stage, approved, current>>

RNext == Move \/ Point \/ Serve \/ \E v \in Versions : Approve(v)

RSpec == RInit /\ [][RNext]_rvars
=============================================================================
