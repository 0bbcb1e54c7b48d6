CONSTANTS
  Subjects = {"restart", "marking", "packed", "reference"}
  SolverMaxIter = 6
  Target = 1
  StallLimit = 4
  MaxResidual = 17
  ErrorVectors <- ErrorVectorsDef
  Fractions <- FractionsDef
  Prime = 3
  kBlock = 2
  Problems <- ProblemsDef
  Frequencies = {1, 2}
  NE = 4
  FaceLists <- FaceListsDef
  BoundaryLists <- UnmarkedBoundaryListsDef
  EssBdr = {1}
  RobinCoeff <- RobinCoeffDef
SPECIFICATION AlgorithmsSpec
INVARIANTS
  VerdictIsSound
  PiecesAreHeld
  RestartsHalve
  MarksLeastSet
  OperatorIsAssembled
  SolutionIsExact
\* An algorithm returns; a direct solver may stop after any solve, and after a failure.
CHECK_DEADLOCK FALSE
