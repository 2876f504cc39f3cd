SPECIFICATION Spec
CONSTANTS
  Namespaces = {n1}
  NoNamespace = NoNamespace
  Payloads = {small, large}
  Size <- MCSize
  MaxEvents = 2
  MaxBytes = 3
  Writers = {w1, w2}
  Readers = {r1}
  NoOne = NoOne
  MaxLegacy = 2
  MaxSeq = 3
  MaxCrashes = 2
  n1 = n1
  n2 = n2
  small = small
  large = large
SYMMETRY ProcessSymmetry
INVARIANTS CatalogTells LoadAllOrNothing
PROPERTY KeepsLog
