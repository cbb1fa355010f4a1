-------------------------- MODULE MCHandlerUpdate --------------------------
(* One label an operator chooses and one the scan generates; the installed  *)
(* script, another good one and one that fails its self-test.              *)
EXTENDS HandlerUpdate
=============================================================================
