CONSTANTS
  Node <- MCNode
  Breaking <- MCBreaking
  Free <- MCFree
  Fun <- MCFun
  Main = "main"
  Var <- MCVar
  Programs <- CrashPrograms
  Careless = {}
  MaxFrames = 3
SPECIFICATION Spec
INVARIANT NeverCrashes
