----------------------------- MODULE MCIsolation -----------------------------
(* The misfortunes of each run.                                            *)
EXTENDS Isolation

MCOutside     == {"net", "tamper", "apply", "arm"}
MCInterrupted == {}
MCRace        == {"overlap", "tamper"}
=============================================================================
