SPECIFICATION Spec
CONSTANTS
  t1 = t1  t2 = t2  f1 = f1  f2 = f2  ro = ro  wo = wo  rw = rw
  Task = {t1, t2}
  File = {f1}
  Dev = {ro, wo, rw}
  Size <- MCSize
  Perm <- MCPerm
  OpenMode <- MCOpenMode
  Value = {0}
  Zero = 0
  Count = {0, 1}
  SeekArg <- MCSeekForward
  MaxPos = 4
  IntMax = 3
  CountMod = 16
  NoTask = NoTask  NoFile = NoFile  NoDev = NoDev
CHECK_DEADLOCK FALSE
INVARIANTS ReadOnlyMeansReadable
