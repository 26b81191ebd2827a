SPECIFICATION Spec
CONSTANTS
  a = a
  b = b
  Files <- TwoFiles
  Names <- SomeNames
  GlobalName = ""
  BuiltinNodes <- Builtins
  MaxDecls <- Decls
  MaxScopes <- Scopes
SYMMETRY Symmetry
INVARIANT LookupStaysInContainer
