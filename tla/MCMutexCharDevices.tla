------------------------ MODULE MCMutexCharDevices ------------------------
(* Instances of MutexCharDevices for TLC. *)
EXTENDS MutexCharDevices, TLC

CONSTANTS t1, t2, f1, f2, ro, wo, rw

\* Two bytes per device; one device of each permission.
MCSize == [d \in Dev |-> 2]
MCPerm == [d \in Dev |-> CASE d = ro -> "RDONLY"
                           [] d = wo -> "WRONLY"
                           [] OTHER -> "RDWW"]

\* Open flags O_RDONLY, O_WRONLY and O_RDWR.
MCOpenMode == {{"FMODE_LSEEK", "FMODE_READ"}, {"FMODE_LSEEK", "FMODE_WRITE"},
               {"FMODE_LSEEK", "FMODE_READ", "FMODE_WRITE"}}

\* O_RDWR alone, for the runs where permissions play no part.
MCReadWrite == {{"FMODE_LSEEK", "FMODE_READ", "FMODE_WRITE"}}

MCSeekArg == {-1, 0, 1, 3}
MCSeekForward == {0, 2}

MCSymmetry == Permutations(Task) \cup Permutations(File)
=============================================================================
