---------------------------- MODULE MCWaitQueue ----------------------------
(* An instance of WaitQueue for TLC. *)
EXTENDS WaitQueue
=============================================================================
