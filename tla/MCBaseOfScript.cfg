SPECIFICATION Spec
CONSTANTS
  Scripts = 2
  a = a
  b = b
  Names <- MCNames
  BuiltinNames = {"static_library", "test_executable"}
  Accesses <- MCAccesses
  CMakeVariables <- MCVariables
  Reads <- MCReads
  Texts <- MCTexts
  MaxBodies = 3
  MaxImports = 1
  InRoot = TRUE
  Avoided <- WithBases
CHECK_DEADLOCK FALSE
INVARIANT DeclarationsMatchTypes
