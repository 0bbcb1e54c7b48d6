CONSTANTS
  NTerminals = 2
  NOpen = 1
  Frequencies = {50, 60}
  Addresses = {1, 2}
  MaxSequence = 2
  ScenarioLists <- ScenarioListsDef
  OutputSets <- OutputSetsDef
  MaxIterations = 2
  DofLimits = {0, 1}
  MaxRuns = 2
  Names <- NamesDef
  Label <- LabelDef
SPECIFICATION Spec
INVARIANTS
  CouplingPassIsWhole
  PassesAreRecorded
  PublishedIsFinal
PROPERTIES
  ImplementsContract
  Termination
\* The program stops after SaveAnalysis or a failure.
CHECK_DEADLOCK FALSE
