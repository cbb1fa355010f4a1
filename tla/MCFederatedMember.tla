-------------------------- MODULE MCFederatedMember --------------------------
(* Two contributions in view, a round that opens and closes, two key pairs. *)
EXTENDS FederatedMember
=============================================================================
