SPECIFICATION Spec
CONSTANTS
  Namespaces = {n1}
  NoNamespace = NoNamespace
  Payloads = {small, large}
  Size <- MCSize
  MaxEvents = 2
  MaxBytes = 3
  Writers = {w1, w2}
  NoOne = NoOne
  Large = {large}
  MaxBatch = 2
  MaxSeq = 3
  MaxCrashes = 1
  n1 = n1
  n2 = n2
  small = small
  large = large
  huge = huge
SYMMETRY WriterSymmetry
INVARIANTS TypeOK SegmentsContiguous LogChain SealedEntriesExact SegmentLinks TailRecovered AckedDurable
PROPERTY AppendOnly
