SPECIFICATION FairSpec
CONSTANTS
  s1 = s1  s2 = s2  s3 = s3
  Slot = {s1, s2, s3}
  Head = Head  Wild = Wild
INVARIANTS ListIsWhole NothingLeaks StraysOnlyWhenRecycled
PROPERTIES UnloadEnds
