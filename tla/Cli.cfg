SPECIFICATION Spec
CONSTANTS
  None = None
  Missing = Missing
  Blank = Blank
  TooLarge = TooLarge
  Procs = {p1, p2}
  Nobody = Nobody
  Namespaces = {"n1", "n2", "none"}
  Commands <- MCCommands
  Inlines <- MCInlines
  Stored <- MCStored
  EarlierFiles <- MCEarlierFiles
  EarlierLogs <- MCEarlierLogs
  MaxTime = 2
  MaxEdits = 1
SYMMETRY ProcSymmetry
INVARIANTS LicensedEffects FirstSourceWins ExitTellsTruth
CHECK_DEADLOCK FALSE
