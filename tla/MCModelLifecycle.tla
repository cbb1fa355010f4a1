-------------------------- MODULE MCModelLifecycle --------------------------
(* Three versions of one detector, one or two global models, one restart.  *)
EXTENDS ModelLifecycle
=============================================================================
