------------------------- MODULE MCReferencePotential -------------------------
(* TLC instance of ReferencePotential: up to three faces over four elements,     *)
(* the least that link roots three deep, and up to two boundary elements.        *)
EXTENDS ReferencePotential, Functions

Faces == {f \in [e1 : Elements, e2 : Elements] : f.e1 # f.e2}
Ascending == {f \in Faces : f.e1 < f.e2}
FaceListsDef ==
  UNION {{s \in [1..n -> Faces] : IsInjective(s)} : n \in 0..2}
  \cup {s \in [1..3 -> Ascending] : IsInjective(s)}
  \cup {<<[e1 |-> 1, e2 |-> NoElement], f>> : f \in Faces}
BoundaryListsDef ==
  {<<>>} \cup {<<b>> : b \in [attribute : {1, 2, 3}, element : Elements]}
  \cup {<<[attribute |-> 1, element |-> f.e1], [attribute |-> a, element |-> f.e2]>> :
           a \in {2, 3}, f \in Ascending}
\* With boundary elements whose attribute no marker can select.
UnmarkedBoundaryListsDef ==
  BoundaryListsDef \cup {<<[attribute |-> NonPositive, element |-> e]>> : e \in Elements}
RobinCoeffDef == [a \in {2, 3} |-> IF a = 2 THEN 1 ELSE 0]
===============================================================================
