CONSTANTS
  Node <- MCNode
  Breaking <- MCBreaking
  Free <- MCFree
  Fun <- MCFun
  Main = "main"
  Var <- MCVar
  Programs <- AllPrograms
  Careless <- CarelessPrograms
  MaxFrames = 3
SPECIFICATION FairSpec
INVARIANTS
  TypeOK
  ScopesAsLeft
  BreakStaysInLoop
  JumpsFinishFirst
  DirectoriesMatchCalls
  NeverCrashes
  NothingAfterFatal
PROPERTIES
  FatalStops
  ImplementsStructuredControl
