SPECIFICATION Spec
CONSTANTS
  Namespaces = {n1}
  Names = {a}
  Values = {one}
  TypeOf <- MCTypeOf
  None = None
  Writers = {w1, w2}
  Verifiers = {v1}
  Shapes <- MCShapes
  Ops <- MCOps
  Roots <- MCRoots
  MaxLen = 3
  MaxFaults = 1
  n1 = n1
  a = a
  one = one
SYMMETRY WriterSymmetry
INVARIANTS CacheTransparent DamageNoticed OneSnapshotPerRoot AckedServed RefusedIsAppended
CHECK_DEADLOCK FALSE
