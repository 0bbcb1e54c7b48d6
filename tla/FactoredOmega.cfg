CONSTANTS
  NTerminals = 1
  NOpen = 0
  Frequencies = {50, 60}
  Addresses = {1, 2}
  MaxSequence = 1
SPECIFICATION OpSpec
INVARIANT FactoredOmegaRecordsFactors
CHECK_DEADLOCK FALSE
