---------------------------- MODULE MCProcEntry ----------------------------
(* An instance of ProcEntry for TLC. *)
EXTENDS ProcEntry

CONSTANTS t1, t2, f1, f2
=============================================================================
