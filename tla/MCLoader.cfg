CONSTANTS
  Path <- MCPath
  Entry <- MCEntry
  Fun <- MCFun
  Var <- MCVar
  FileSystems <- AllProjects
  Mistaken <- FaultyAndOdd
  MaxDepth = 12
SPECIFICATION FairSpec
INVARIANTS
  TypeOK
  DirectoriesOfScript
  ImportsReady
  OneInstancePerModule
  NothingDangles
PROPERTIES
  KeepsValues
  Finishes
