--------------------------- MODULE MCOrchestrator ---------------------------
(***************************************************************************)
(* Small instances of Orchestrator; the numbers are in the cfg.            *)
(***************************************************************************)
EXTENDS Orchestrator
=============================================================================
