------------------------- MODULE MCPlatformDevices -------------------------
(* An instance of PlatformDevices for TLC. *)
EXTENDS PlatformDevices

CONSTANTS f1
=============================================================================
