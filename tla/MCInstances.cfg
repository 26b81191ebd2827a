SPECIFICATION Spec
CONSTANTS
  x = x
  l = l
  m = m
  r = r
  y = y
  Variables = {x, l, m, r, y}
  TypeOf <- Types
  Outer = {x, l}
  Numbers = {0, 1}
  MaxSize = 3
  Cells = {1, 2, 3}
  Forms = {"literal", "variable", "copy", "braces"}
INVARIANTS TypeOK OwnedOnce OwnValues AsDocumented
PROPERTIES ImplementsVariableValues

CHECK_DEADLOCK FALSE
