CONSTANTS
  NTerminals = 3
  ScenarioLists <- ScenarioListsDef
  StaticWeights = {1, 4, 20}
  Conductivities = {1, 5}
  Ratio = 3
  MaxRuns = 2
SPECIFICATION Spec
INVARIANTS
  SolvesActiveFrequency
  ReadingsAreOwn
  RegularizationIsWeak
PROPERTIES
  ImplementsContract
\* The program stops after SaveAnalysis or a failure.
CHECK_DEADLOCK FALSE
