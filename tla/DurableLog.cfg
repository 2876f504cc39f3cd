SPECIFICATION FairSpec
CONSTANTS
  Namespaces = {n1, n2}
  NoNamespace = NoNamespace
  Payloads = {small}
  Size <- MCSize
  MaxEvents = 2
  MaxBytes = 3
  Writers = {w1, w2}
  NoOne = NoOne
  Large = {small}
  MaxBatch = 2
  MaxSeq = 3
  MaxCrashes = 1
  n1 = n1
  n2 = n2
  small = small
  large = large
  huge = huge
PROPERTIES ImplementsAbstractLog LockReleased
