SPECIFICATION Spec
CONSTANTS
  Namespaces = {n1, n2}
  Names = {a}
  Values = {one}
  TypeOf <- MCTypeOf
  None = None
  Kinds = {"write", "seal"}
  Ops <- OneOp
  Ticks = {0, 1, 2}
  Times = {1, 2, None}
  Forging = TRUE
  MaxBatch = 2
  MaxLen = 4
  n1 = n1
  n2 = n2
  a = a
  b = b
  one = one
  text = text
INVARIANTS TypeOK ClocksForward CheckpointComplete CheckpointSound NeverDuplicate
CHECK_DEADLOCK FALSE
