-------------------------- MODULE MCRegistryClient --------------------------
(***************************************************************************)
(* Small instances of RegistryClient; the values are in the cfgs.          *)
(***************************************************************************)
EXTENDS RegistryClient
=============================================================================
