CONSTANTS
  Subjects = {"essential_dofs"}
  Edges <- EdgesDef
  Models <- ModelsDef
  Tolerance = 1
  Drives = {0, 3}
  NDof = 6
  Meshes <- MeshesDef
  EssBdrs <- EssBdrsDef
  Conductors <- ConductorsDef
  PathMeshes <- PathMeshesDef
  Cases <- CasesDef
SPECIFICATION SetupSpec
INVARIANTS
  AxisVanishes
\* A rejected model is not solved.
CHECK_DEADLOCK FALSE
