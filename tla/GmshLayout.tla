----------------------------- MODULE GmshLayout -----------------------------
(***************************************************************************)
(* Node layouts of Gmsh's Lagrange elements (gmsh_results_writer.hpp):      *)
(* corners, then the nodes inside each edge, each face and the cell, the    *)
(* last two laid out as an element of lower order.  A reference point is a  *)
(* lattice point: its coordinates are integers in units of 1 / order, so    *)
(* the inset by 1 / p and the centroid of coinciding corners are exact.     *)
(***************************************************************************)
EXTENDS Integers, Sequences, SequencesExt, FiniteSetsExt

Axes == 1 .. 3

EdgeNode(a, b, i, p) == [c \in Axes |-> a[c] + ((b[c] - a[c]) * i) \div p]

\* Nodes strictly inside the edge a -> b, in that direction.
EdgeNodes(p, a, b) == [i \in 1 .. p - 1 |-> EdgeNode(a, b, i, p)]

\* One lattice step from corner i toward each of its neighbours.
Inset(v, i, near, p) ==
  [c \in Axes |-> v[i][c] + MapThenSumSet(LAMBDA j : (v[j][c] - v[i][c]) \div p, near)]

Shrink(v, near, p) == [i \in DOMAIN v |-> Inset(v, i, near[i], p)]

Centroid(v) ==
  [c \in Axes |-> MapThenSumSet(LAMBDA i : v[i][c], DOMAIN v) \div Len(v)]

Cycle(n) == [i \in 1 .. n |-> {1 + (i % n), 1 + ((i + n - 2) % n)}]

(***************************************************************************)
(* A shape's edges and faces in Gmsh's order, the neighbours of each corner, *)
(* and the orders its faces and its interior lose with every level.          *)
(***************************************************************************)
Shapes == {"triangle", "square", "tetrahedron", "cube"}

Edges == [triangle |-> << <<1, 2>>, <<2, 3>>, <<3, 1>> >>,
          square |-> << <<1, 2>>, <<2, 3>>, <<3, 4>>, <<4, 1>> >>,
          tetrahedron |-> << <<1, 2>>, <<2, 3>>, <<3, 1>>, <<4, 1>>, <<4, 3>>, <<4, 2>> >>,
          cube |-> << <<1, 2>>, <<1, 4>>, <<1, 5>>, <<2, 3>>, <<2, 6>>, <<3, 4>>,
                      <<3, 7>>, <<4, 8>>, <<5, 6>>, <<5, 8>>, <<6, 7>>, <<7, 8>> >>]

Faces == [triangle |-> <<>>, square |-> <<>>,
          tetrahedron |-> << <<1, 3, 2>>, <<1, 2, 4>>, <<1, 4, 3>>, <<4, 2, 3>> >>,
          cube |-> << <<1, 4, 3, 2>>, <<1, 2, 6, 5>>, <<1, 5, 8, 4>>,
                      <<2, 3, 7, 6>>, <<3, 4, 8, 7>>, <<5, 6, 7, 8>> >>]

HexNeighbors == <<{2, 4, 5}, {1, 3, 6}, {2, 4, 7}, {1, 3, 8},
                  {1, 6, 8}, {2, 5, 7}, {3, 6, 8}, {4, 5, 7}>>
Neighbors == [triangle |-> Cycle(3), square |-> Cycle(4),
              tetrahedron |-> [i \in 1 .. 4 |-> (1 .. 4) \ {i}],
              cube |-> HexNeighbors]

FaceDrop == [tetrahedron |-> 3, cube |-> 2]
CellDrop == [triangle |-> 3, square |-> 2, tetrahedron |-> 4, cube |-> 2]
FaceShape == [tetrahedron |-> "triangle", cube |-> "square"]

RECURSIVE AppendNodes(_, _, _)
AppendNodes(shape, p, v) ==
  IF p = 0 THEN <<Centroid(v)>>
  ELSE v
    \o FlattenSeq([i \in DOMAIN Edges[shape] |->
                     EdgeNodes(p, v[Edges[shape][i][1]], v[Edges[shape][i][2]])])
    \o FlattenSeq([i \in DOMAIN Faces[shape] |->
         IF p < FaceDrop[shape] THEN <<>>
         ELSE LET corners == [j \in DOMAIN Faces[shape][i] |-> v[Faces[shape][i][j]]]
                  face == FaceShape[shape]
              IN  AppendNodes(face, p - FaceDrop[shape], Shrink(corners, Neighbors[face], p))])
    \o (IF p < CellDrop[shape] THEN <<>>
        ELSE AppendNodes(shape, p - CellDrop[shape], Shrink(v, Neighbors[shape], p)))

\* GetHoLayout: the corners of MFEM's reference element, and the type codes.
Corners == [triangle |-> << <<0, 0, 0>>, <<1, 0, 0>>, <<0, 1, 0>> >>,
            square |-> << <<0, 0, 0>>, <<1, 0, 0>>, <<1, 1, 0>>, <<0, 1, 0>> >>,
            tetrahedron |-> << <<0, 0, 0>>, <<1, 0, 0>>, <<0, 1, 0>>, <<0, 0, 1>> >>,
            cube |-> << <<0, 0, 0>>, <<1, 0, 0>>, <<1, 1, 0>>, <<0, 1, 0>>,
                        <<0, 0, 1>>, <<1, 0, 1>>, <<1, 1, 1>>, <<0, 1, 1>> >>]

GmshTypes == [triangle |-> <<2, 9, 21, 23, 25, 42, 43, 44, 45, 46>>,
              square |-> <<3, 10, 36, 37, 38, 47, 48, 49, 50, 51>>,
              tetrahedron |-> <<4, 11, 29, 30, 31, 71, 72, 73, 74, 75>>,
              cube |-> <<5, 12, 92, 93, 94, 95, 96, 97, 98>>]

Supported(shape, order) == shape \in Shapes /\ order \in DOMAIN GmshTypes[shape]

Layout(shape, order) ==
  AppendNodes(shape, order,
    [i \in DOMAIN Corners[shape] |-> [c \in Axes |-> order * Corners[shape][i][c]]])

Simplex == {"triangle", "tetrahedron"}
Dimension == [triangle |-> 2, square |-> 2, tetrahedron |-> 3, cube |-> 3]

(***************************************************************************)
(* What a layout promises, stated without the recursion.                    *)
(***************************************************************************)
Lattice(shape, order) ==
  {x \in [Axes -> 0 .. order] :
     /\ Dimension[shape] = 2 => x[3] = 0
     /\ shape \in Simplex => x[1] + x[2] + x[3] <= order}

\* The vertex, edge, face or cell whose interior holds a lattice point: the
\* sides of the reference element it lies on.
Entity(shape, order, x) ==
  <<{c \in 1 .. Dimension[shape] : x[c] = 0},
    IF shape \in Simplex THEN {c \in {0} : x[1] + x[2] + x[3] = order}
    ELSE {c \in 1 .. Dimension[shape] : x[c] = order}>>

Codimension(entity) == Cardinality(entity[1]) + Cardinality(entity[2])

IsLattice(shape, order, nodes) ==
  /\ Len(nodes) = Cardinality(Lattice(shape, order))
  /\ ToSet(nodes) = Lattice(shape, order)

\* Corners before edges before faces before the cell, the nodes of one of them
\* together.
IsHierarchical(shape, order, nodes) ==
  \E at \in {[k \in DOMAIN nodes |-> Entity(shape, order, nodes[k])]} :
    \A k \in 1 .. Len(nodes) - 1 :
      \/ at[k] = at[k + 1]
      \/ /\ Codimension(at[k]) >= Codimension(at[k + 1])
         /\ \A j \in 1 .. k : at[j] # at[k + 1]
=============================================================================
