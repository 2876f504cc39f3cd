SPECIFICATION TextSpec
CONSTANTS
  MaxDigits = 4
  MaxExponent = 20
  Letters = {"a", "b"}
  Reserved <- MCReserved
  MinNamespace = 3
  MaxNamespace = 5
  MaxKey = 7
  CharOf <- MCCharOf
  NotUtf8 = {5}
  NoValue = NoValue
  Alphabet <- MCAlphabet
  MaxText <- MCMaxText
  Snapshots <- MCSnapshots
  MaxDamage = 2
INVARIANT EventReadsBack
CHECK_DEADLOCK FALSE
