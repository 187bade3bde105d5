SPECIFICATION FairSpec
CONSTANTS
  Loads = 2
CHECK_DEADLOCK FALSE
INVARIANTS CutOffOnlyByInterrupt
PROPERTIES InitEnds
