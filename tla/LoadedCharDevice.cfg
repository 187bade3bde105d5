SPECIFICATION Spec
CONSTANTS
  t1 = t1  t2 = t2  f1 = f1  f2 = f2
  Task = {t1, t2}
  File = {f1, f2}
  DEV_MEM_SIZE = 2
  Value = {0, 1}
  Zero = 0
  Count = {2}
  SeekArg <- MCSeekArg
  MaxPos = 3
  IntMax = 2
  CountMod = 16
  NoTask = NoTask  NoFile = NoFile  NoDev = NoDev
SYMMETRY MCSymmetry
INVARIANTS TransferInBounds TornOnlyWhereDisturbed ExitRunsAlone
