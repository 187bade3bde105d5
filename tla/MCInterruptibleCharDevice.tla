--------------------- MODULE MCInterruptibleCharDevice ---------------------
(* An instance of InterruptibleCharDevice for TLC. *)
EXTENDS InterruptibleCharDevice

CONSTANTS t1, t2, f1, f2, rw

MCSize == [d \in Dev |-> 2]
MCPerm == [d \in Dev |-> "RDWW"]
MCReadWrite == {{"FMODE_LSEEK", "FMODE_READ", "FMODE_WRITE"}}
MCSeekForward == {0, 1}

ASSUME InstanceAssumption == SingleDevice
=============================================================================
