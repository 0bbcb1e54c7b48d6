CONSTANTS
  NamelessPaths <- NamelessPathsDef
  IllFormedNames <- IllFormedNamesDef
  AbsolutePaths <- AbsolutePathsDef
  ExpLogErrors <- ExpLogErrorsDef
  Parallel = FALSE
  Documents <- DocumentsDef
  Edits <- EditsDef
  MaxEdits = 2
  Values <- ValuesDef
  Meshes <- MeshesDef
  Overrides <- OverridesDef
SPECIFICATION CSpec
\* A configuration ends ready or failed.
CHECK_DEADLOCK FALSE
INVARIANTS
  AcceptedAsWritten
  ValidationSuffices
  AcceptedModelIsWhole
  ValidatorIsConsistent
