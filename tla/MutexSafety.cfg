SPECIFICATION Spec
CONSTANTS
  t1 = t1  t2 = t2  f1 = f1  f2 = f2  ro = ro  wo = wo  rw = rw
  Task = {t1, t2}
  File = {f1, f2}
  Dev = {ro, wo, rw}
  Size <- MCSize
  Perm <- MCPerm
  OpenMode <- MCReadWrite
  Value = {0, 1}
  Zero = 0
  Count = {0, 1, 2}
  SeekArg <- MCSeekArg
  MaxPos = 4
  IntMax = 3
  CountMod = 16
  NoTask = NoTask  NoFile = NoFile  NoDev = NoDev
SYMMETRY MCSymmetry
CHECK_DEADLOCK FALSE
INVARIANTS MutualExclusion CopyAgrees TransferInBounds IndInv PermissionRespected
PROPERTIES LeakOnlyOnWriteFault OnlySeekCurPassesEnd
