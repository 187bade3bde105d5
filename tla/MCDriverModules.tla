-------------------------- MODULE MCDriverModules --------------------------
(* An instance of DriverModules for TLC. *)
EXTENDS DriverModules

CONSTANTS f1, f2, f3
=============================================================================
