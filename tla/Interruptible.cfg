SPECIFICATION IFairSpec
CONSTANTS
  t1 = t1  t2 = t2  f1 = f1  f2 = f2  rw = rw
  Task = {t1, t2}
  File = {f1}
  Dev = {rw}
  Size <- MCSize
  Perm <- MCPerm
  OpenMode <- MCReadWrite
  Value = {0, 1}
  Zero = 0
  Count = {0, 2}
  SeekArg <- MCSeekForward
  MaxPos = 3
  IntMax = 3
  CountMod = 16
  NoTask = NoTask  NoFile = NoFile  NoDev = NoDev
INVARIANTS CopyAgrees
PROPERTIES LeakOnlyOnEmptyWrite LeakIsFinal SignalEndsWait
