---------------------------- MODULE MCPackageJob ----------------------------
(***************************************************************************)
(* Small instances of PackageJob; the numbers are in the cfg.              *)
(***************************************************************************)
EXTENDS PackageJob
=============================================================================
