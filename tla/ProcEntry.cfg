SPECIFICATION FairSpec
CONSTANTS
  t1 = t1  t2 = t2  f1 = f1  f2 = f2
  Task = {t1, t2}
  File = {f1, f2}
  NoFile = NoFile
  MsgLen = 6
INVARIANTS OneMessagePerOpen RunsOnlyLoadedCode
PROPERTIES UnloadEnds
