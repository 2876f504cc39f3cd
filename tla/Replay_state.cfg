SPECIFICATION Spec
CONSTANTS
  Namespaces = {n1}
  Names = {a, b}
  Values = {one, text}
  TypeOf <- MCTypeOf
  None = None
  Kinds = {"write", "delete", "batch", "seal", "compact", "error"}
  Ops <- OwnOps
  Ticks = {1}
  Times = {1}
  Forging = FALSE
  MaxBatch = 2
  MaxLen = 3
  n1 = n1
  n2 = n2
  a = a
  b = b
  one = one
  text = text
INVARIANTS MapIsLastWrite TypesHeld SealsCommit
CHECK_DEADLOCK FALSE
