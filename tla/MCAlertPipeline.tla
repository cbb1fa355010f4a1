--------------------------- MODULE MCAlertPipeline ---------------------------
(* Two chains, two detectors on one entity, one user to notify.                     *)
EXTENDS AlertPipeline, TLC

(* Chains and detectors are only compared with each other.                 *)
MCSymmetry == Permutations(Chains) \cup Permutations(Detectors)
=============================================================================
