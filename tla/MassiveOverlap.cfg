SPECIFICATION CSpec
CONSTANTS
  NamelessPaths <- NamelessPathsDef
  IllFormedNames <- IllFormedNamesDef
  AbsolutePaths <- AbsolutePathsDef
  ExpLogErrors <- ExpLogErrorsDef
  Parallel = FALSE
  Documents <- OverlappingDef
  Edits <- NoEdits
  MaxEdits = 2
  Values <- ValuesDef
  Meshes <- MeshesDef
  Overrides <- OverridesDef
INVARIANT MassiveConducts
\* A run ends ready or failed.
CHECK_DEADLOCK FALSE
