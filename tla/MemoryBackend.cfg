SPECIFICATION MemSpec
CONSTANTS
  Namespaces = {n1, n2}
  NoNamespace = NoNamespace
  Payloads = {small}
  Size <- MCSize
  MaxEvents = 2
  MaxBytes = 3
  Threads = {t1, t2}
  MaxBatch = 2
  MaxLength = 4
SYMMETRY ThreadSymmetry
INVARIANTS BackendsAgree SoundBatchesWhole
PROPERTY MemoryImplementsLog
CHECK_DEADLOCK FALSE
