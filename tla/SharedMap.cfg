SPECIFICATION Spec
CONSTANTS
  Namespaces = {n1, n2}
  Names = {a, b}
  Values = {one, text}
  TypeOf <- MCTypeOf
  Threads = {t1, t2, t3}
  NoThread = NoThread
  Ops <- MCOps
  MaxOps = 2
  MaxCalls = 3
  n1 = n1
  n2 = n2
  a = a
  b = b
  one = one
  text = text
SYMMETRY ThreadSymmetry
INVARIANTS BatchesSerial ReadsLinear
CHECK_DEADLOCK FALSE
