SPECIFICATION FairSpecAll
CONSTANTS
  N = 3
  f1 = f1  f2 = f2  f3 = f3
  File = {f1}
  File002 = {f2}
  File003 = {f3}
INVARIANTS Layered CleanUnload LiveIsWhole OneDriverWhole OnlyClassLeft
PROPERTIES ImplementsLifeCycle OthersImplementLifeCycle LeakBlocksEveryDriver AllLoadsEnd
