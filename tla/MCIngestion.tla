----------------------------- MODULE MCIngestion -----------------------------
(* Ages and intervals in units; the shipped configuration counts 30 s each. *)
EXTENDS Ingestion
=============================================================================
