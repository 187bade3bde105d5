----------------------- MODULE MCMutexRefinesAtomic -----------------------
(* An instance of MutexRefinesAtomic for TLC. *)
EXTENDS MutexRefinesAtomic

CONSTANTS t1, t2, f1, f2, rw

MCSize == [d \in Dev |-> 2]
MCPerm == [d \in Dev |-> "RDWW"]
MCReadWrite == {{"FMODE_LSEEK", "FMODE_READ", "FMODE_WRITE"}}
MCSeekArg == {0, 1}
=============================================================================
