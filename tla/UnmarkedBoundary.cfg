CONSTANTS
  Subjects = {"reference"}
  SolverMaxIter = 6
  Target = 1
  StallLimit = 4
  MaxResidual = 17
  ErrorVectors <- ErrorVectorsDef
  Fractions <- FractionsDef
  Prime = 3
  kBlock = 2
  Problems <- ProblemsDef
  Frequencies = {1, 2}
  NE = 4
  FaceLists <- FaceListsDef
  BoundaryLists <- UnmarkedBoundaryListsDef
  EssBdr = {1}
  RobinCoeff <- RobinCoeffDef
SPECIFICATION AlgorithmsSpec
INVARIANTS
  AcceptedIsHeld
\* The check is over with its verdict.
CHECK_DEADLOCK FALSE
