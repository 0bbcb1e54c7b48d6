CONSTANTS
  Subjects = {"essential_dofs", "gauge", "path"}
  Edges <- EdgesDef
  Models <- ModelsDef
  Tolerance = 1
  Drives = {0, 3}
  NDof = 6
  Meshes <- MeshesDef
  EssBdrs <- EssBdrsDef
  Conductors <- ConductorsDef
  PathMeshes <- PathMeshesDef
  Cases <- CasesDef
SPECIFICATION SetupSpec
INVARIANTS
  OneOwner
  PinnedAsConfigured
  ColumnsDriveRows
  AxisVerticesVanish
  SpacesAreExact
  JumpsOnlyAtCut
  ConductorEndsFit
  ExtentIsArc
\* A rejected model or conductor is not solved with, and the projector's calls return.
CHECK_DEADLOCK FALSE
