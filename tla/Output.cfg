CONSTANTS
  ArgLists <- ArgListsDef
  Ranks = {1, 2}
  Inner <- InnerDef
  MaxDepth = 3
  MaxPrints = 2
  n1 = n1
  n2 = n2
  l1 = l1
  Names = {n1, n2}
  Label <- LabelDef
  MaxScenarios = 2
  MaxMesh = 1
  SchemeRequests <- SchemeRequestsDef
  SolveOrder <- SolveOrderDef
  Modulus <- ModulusDef
  Meshes <- MeshesDef
  Requests <- RequestsDef
  Fields <- FieldsDef
SPECIFICATION OutputSpec
INVARIANTS
  StatusIsTrue
  ArchiveHolds
  FilesMatchTheirMesh
  ArtifactsAreKept
  SchemeIsLagrange
  MeshRoundTrips
  FieldsRoundTrip
\* The program ends, a failed run is over, and a scheme is built once.
CHECK_DEADLOCK FALSE
