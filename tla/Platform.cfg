SPECIFICATION FairSpec
CONSTANTS
  NDev = 2
  Overridable = {1}
  f1 = f1
  File = {f1}
CHECK_DEADLOCK FALSE
INVARIANTS AstrayOnlyByOverride MemoryAccounted BoundIsWhole UnboundIsGone
PROPERTIES UnloadFreesNothingOpen UnloadEnds
