CONSTANTS
  NTerminals = 2
  NOpen = 1
  Frequencies = {50, 60}
  Addresses = {1, 2}
  MaxSequence = 2
SPECIFICATION OpSpec
INVARIANTS
  SolvesCurrentSystem
  PortsMatchTerminals
  EnergyNormIsCurrent
  PreconditionerReferencesLive
\* A failed run is over.
CHECK_DEADLOCK FALSE
