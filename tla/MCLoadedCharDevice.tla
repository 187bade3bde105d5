------------------------ MODULE MCLoadedCharDevice ------------------------
(* An instance of LoadedCharDevice for TLC. *)
EXTENDS LoadedCharDevice, TLC

CONSTANTS t1, t2, f1, f2

MCSeekArg == {1}

MCSymmetry == Permutations(Task) \cup Permutations(File)
=============================================================================
