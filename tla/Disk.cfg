SPECIFICATION HSpec
CONSTANTS
  c1 = c1
  c2 = c2
  Missing = Missing
  Torn = Torn
  Contents <- TwoContents
  MaxTemps = 2
INVARIANTS
  NeverTorn
  ReplaceDurable
  TreeStaysEmpty
  DurableUnlessReported
CHECK_DEADLOCK TRUE
