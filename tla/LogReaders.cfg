SPECIFICATION RSpec
CONSTANTS
  Namespaces = {n1}
  NoNamespace = NoNamespace
  Payloads = {small, huge}
  Size <- MCSize
  MaxEvents = 2
  MaxBytes = 3
  Writers = {w1, w2}
  NoOne = NoOne
  Large = {huge}
  MaxBatch = 2
  MaxSeq = 2
  MaxCrashes = 1
  Readers = {r1}
  n1 = n1
  n2 = n2
  small = small
  large = large
  huge = huge
SYMMETRY WriterSymmetry
INVARIANTS LoadIsPrefix LoadIsFresh LoadSucceeds
