CONSTANTS
  Path <- MCPath
  Entry <- MCEntry
  Fun <- MCFun
  Var <- MCVar
  FileSystems <- SubdirectoryVariable
  Mistaken <- SubdirectoryVariable
  MaxDepth = 12
SPECIFICATION Spec
INVARIANTS
  NeverCrashes
