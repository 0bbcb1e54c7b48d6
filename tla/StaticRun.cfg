CONSTANTS
  NTerminals = 2
  ScenarioLists <- ScenarioListsDef
  MaxIterations = 3
  MaxRuns = 2
SPECIFICATION Spec
INVARIANTS
  MatrixIsOfTerminals
PROPERTIES
  ImplementsContract
\* The program stops after SaveAnalysis or a failure.
CHECK_DEADLOCK FALSE
