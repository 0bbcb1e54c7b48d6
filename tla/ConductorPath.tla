---------------------------- MODULE ConductorPath ----------------------------
(***************************************************************************)
(* Where the current of a 3D terminal flows: MakeConductorPath and the      *)
(* checks before it (src/src/solvers/vector_potential_solver_3d.hpp), the    *)
(* electrodes and the cut of ConductionPath                                *)
(* (src/src/coefficients/conductor_path.hpp).                              *)
(*                                                                         *)
(* A face of a mesh lists the one or two elements it has, its degrees of      *)
(* freedom (the vertices: order 1) and its edges, and three numbers of        *)
(* its geometry for its unit area, in tenths: `along`, its normal out of the *)
(* first element times the cut's direction; `turn`, the same times phi-hat;  *)
(* and the quarter turn its center is at.  Potentials are not solved: w is   *)
(* nonzero exactly if the potential's jumps are not those of a function.     *)
(***************************************************************************)
EXTENDS Integers, Sequences, SequencesExt, FiniteSetsExt, Counting

CONSTANTS
  PathMeshes, \* name -> elements, faces and boundary elements of a mesh
  Cases       \* a mesh's name, a terminal on it and the n x A = 0 attributes

ASSUME MeshesAssumption ==
  \A m \in DOMAIN PathMeshes :
    /\ DOMAIN PathMeshes[m].elements = 1 .. Len(PathMeshes[m].elements)
    /\ Len(PathMeshes[m].elements) \in Nat
    /\ \A f \in DOMAIN PathMeshes[m].faces :
         LET face == PathMeshes[m].faces[f]
         IN  /\ face.elements \in Seq(DOMAIN PathMeshes[m].elements)
             /\ Len(face.elements) \in {1, 2}
             /\ Len(face.elements) = 2 => face.elements[1] # face.elements[2]
             /\ face.dofs # {}
             /\ \A e \in ToSet(face.elements) :
                  face.dofs \subseteq PathMeshes[m].elements[e].dofs
    /\ \A e \in DOMAIN PathMeshes[m].elements : PathMeshes[m].elements[e].dofs \in SUBSET Nat
    /\ DOMAIN PathMeshes[m].boundary = 1 .. Len(PathMeshes[m].boundary)
    /\ Len(PathMeshes[m].boundary) \in Nat
    /\ \A b \in DOMAIN PathMeshes[m].boundary :
         PathMeshes[m].boundary[b].face \in DOMAIN PathMeshes[m].faces
ASSUME CasesAssumption ==
  \A c \in Cases : c.mesh \in DOMAIN PathMeshes /\ c.kind \in {"azimuthal", "electrodes", "cut"}

VARIABLES
  case,       \* the terminal being built
  inside,     \* the elements the conductor's marker selects
  cut,        \* faces of the cut group with the conductor on both sides
  near,       \* elements with degrees of freedom of the cut
  step,       \* the part of the construction at hand, "accepted" or "rejected"
  side,       \* near element -> 1 downstream, -1 upstream, 0 not yet known
  queue,
  held,       \* degree of freedom -> its value in v, for those held there
  lifted,     \* the elements H is not 0 on
  extent      \* of an azimuthal conductor, in eighths of a turn

pvars == <<case, inside, cut, near, step, side, queue, held, lifted, extent>>

\* F(n, ... F(1, S)): a set grown in n steps.
Iterated(F(_, _), S, n) ==
  LET at[k \in 0 .. n] == IF k = 0 THEN S ELSE UNION {F(k, R) : R \in {at[k - 1]}}
  IN  at[n]

NoSides == [e \in {} |-> 0]
FullTurn == 8

-----------------------------------------------------------------------------
(* The mesh.                                                               *)

grid == PathMeshes[case.mesh]
MeshElements == DOMAIN grid.elements
MeshFaces == DOMAIN grid.faces
Boundary == DOMAIN grid.boundary

ElementsOf(f) == ToSet(grid.faces[f].elements)
DofsOf(e) == grid.elements[e].dofs

Inside(c) ==
  {e \in DOMAIN PathMeshes[c.mesh].elements :
     PathMeshes[c.mesh].elements[e].attribute \in c.conductor}
conductor_dofs == UNION {DofsOf(e) : e \in inside}

\* Boundary elements of the attributes.
MarkedFaces(attributes) == {b \in Boundary : grid.boundary[b].attribute \in attributes}

\* Those that border the conductor.
Bordering(attributes) ==
  {b \in MarkedFaces(attributes) : ElementsOf(grid.boundary[b].face) \cap inside # {}}
FaceDofs(boundary) == UNION {grid.faces[grid.boundary[b].face].dofs : b \in boundary}

Reject == step' = "rejected"
Accept(integral) == step' = IF integral THEN "accepted" ELSE "rejected"

-----------------------------------------------------------------------------
(* Azimuthal conductors.                                                   *)

\* The conductor's element at a wall face: the first if both are.
InnerElement(f) ==
  LET first == grid.faces[f].elements[1]
  IN  IF first \in inside THEN first ELSE grid.faces[f].elements[2]

\* n . phi-hat with n out of the conductor.
Crossing(b) ==
  LET f == grid.boundary[b].face
  IN  IF InnerElement(f) = grid.faces[f].elements[1]
      THEN grid.faces[f].turn ELSE -grid.faces[f].turn

Entries == {b \in Bordering(case.ess) : Crossing(b) <= -5}
Exits   == {b \in Bordering(case.ess) : Crossing(b) >= 5}

\* cos and sin of a quarter turn.
Cos(q) == <<1, 0, -1, 0>>[q + 1]
Sin(q) == <<0, 1, 0, -1>>[q + 1]

SumOf(boundary, Value(_)) ==
  MapThenFoldSet(+, 0, LAMBDA b : Value(grid.faces[grid.boundary[b].face].angle),
                 LAMBDA S : CHOOSE b \in S : TRUE, boundary)

\* atan2 in eighths of a turn of (-4, 4], by the signs of sine (rows) and cosine.
Atan2 == << <<-3, -2, -1>>, <<4, 0, 0>>, <<3, 2, 1>> >>
Sign(n) == IF n > 0 THEN 1 ELSE IF n < 0 THEN -1 ELSE 0

\* That of the summed directions.
Direction(boundary) == Atan2[2 + Sign(SumOf(boundary, Sin))][2 + Sign(SumOf(boundary, Cos))]

\* Faulty: angles of two half turns are not brought into one turn.
AzimuthalExtent_Unwrapped ==
  IF Entries = {} /\ Exits = {} THEN FullTurn ELSE Direction(Exits) - Direction(Entries)

\* The arc from the entry to the exit along phi-hat; a whole turn without ends.
\* A difference that is not positive gets a whole turn added.
AzimuthalExtent ==
  IF Entries = {} /\ Exits = {} THEN FullTurn
  ELSE 1 + ((Direction(Exits) - Direction(Entries) - 1) % FullTurn)

MakeAzimuthal ==
  /\ step = "start" /\ case.kind = "azimuthal"
  /\ IF (Entries = {} <=> Exits = {}) /\ conductor_dofs \cap grid.axis = {}
     THEN extent' = AzimuthalExtent /\ step' = "accepted"
     ELSE Reject /\ UNCHANGED extent
  /\ UNCHANGED <<case, inside, cut, near, side, queue, held, lifted>>

-----------------------------------------------------------------------------
(* Electrodes.                                                             *)

\* root[find(v)] = find(vertices[0]) for each vertex of a wall's face: the
\* pieces with a vertex of it become one.
Join(pieces, dofs) ==
  LET met == {p \in pieces : p \cap dofs # {}} IN (pieces \ met) \cup {dofs \cup UNION met}

WallDofs(b) == grid.faces[grid.boundary[b].face].dofs

\* The connected pieces of the n x A = 0 boundary, as sets of vertices.
WallPieces ==
  LET walls == InOrder(MarkedFaces(case.ess), Len(grid.boundary))
  IN  Iterated(LAMBDA n, pieces : Join(pieces, WallDofs(walls[n])), {}, Len(walls))

Electrodes == case.input \cup case.output

\* Faulty: electrodes on walls that are apart go unnoticed.
ElectrodesFit_Apart ==
  {grid.boundary[b].attribute : b \in MarkedFaces(Electrodes)} \subseteq case.ess

\* Every electrode attribute of the mesh is n x A = 0, and the faces the
\* conductor touches are on one piece of it.
ElectrodesFit ==
  /\ {grid.boundary[b].attribute : b \in MarkedFaces(Electrodes)} \subseteq case.ess
  /\ LET pieces == WallPieces
     IN  Cardinality({p \in pieces : \E b \in Bordering(Electrodes) :
                        WallDofs(b) \cap p # {}}) <= 1

\* Elements of the conductor reachable from e by shared degrees of freedom.
Component(e) ==
  Iterated(LAMBDA n, S : {x \in inside : \E y \in S : DofsOf(x) \cap DofsOf(y) # {}},
           {e}, Cardinality(inside))

\* The path integral: some part of the conductor is held at both values.
FallsBetween(in, out) ==
  \E e \in inside : LET dofs == UNION {DofsOf(x) : x \in Component(e)}
                    IN  dofs \cap in # {} /\ dofs \cap (out \ in) # {}

\* The potential is 1 on the input, 0 on the rest of the output.
MakeElectrodes ==
  /\ step = "start" /\ case.kind = "electrodes"
  /\ LET in == FaceDofs(Bordering(case.input))
         out == FaceDofs(Bordering(case.output))
     IN  IF ~ElectrodesFit \/ in = {} \/ out = {}
         THEN Reject /\ UNCHANGED held
         ELSE /\ held' = [d \in in \cup out |-> IF d \in in THEN 1 ELSE 0]
              /\ Accept(FallsBetween(in, out))
  /\ UNCHANGED <<case, inside, cut, near, side, queue, lifted, extent>>

-----------------------------------------------------------------------------
(* The cut: its faces, the elements near it, and which side they are on.   *)

cut_dofs == UNION {grid.faces[f].dofs : f \in cut}

\* The conductor's elements with degrees of freedom of the faces.
Near(faces) == {e \in inside : \E f \in faces : DofsOf(e) \cap grid.faces[f].dofs # {}}

CollectCut ==
  /\ step = "start" /\ case.kind = "cut"
  /\ cut' = {f \in {grid.boundary[b].face : b \in MarkedFaces(case.cut)} :
               Len(grid.faces[f].elements) = 2 /\ ElementsOf(f) \subseteq inside}
  /\ near' = Near(cut')
  /\ step' = "seed"
  /\ UNCHANGED <<case, inside, side, queue, held, lifted, extent>>

\* Edges of faces with the conductor on one side only.
SurfaceEdges ==
  UNION {grid.faces[f].edges : f \in {g \in MeshFaces : Cardinality(ElementsOf(g) \cap inside) = 1}}

\* An edge of one cut face only lies on the conductor's surface.
SpansConductor ==
  \A x \in UNION {grid.faces[f].edges : f \in cut} :
    Cardinality({f \in cut : x \in grid.faces[f].edges}) = 1 => x \in SurfaceEdges

Alignment(f) == LET a == grid.faces[f].along IN IF a < 0 THEN -a ELSE a

\* The faces the normal crosses most squarely; rounding decides among several.
Squarest == {f \in cut : \A g \in cut : Alignment(g) <= Alignment(f)}

Seed ==
  /\ step = "seed"
  /\ IF cut = {} \/ ~SpansConductor \/ \A f \in cut : Alignment(f) < 5
     THEN Reject /\ UNCHANGED <<side, queue>>
     ELSE \E f \in Squarest :
            LET e1 == grid.faces[f].elements[1] IN
            /\ side' = [e \in near |-> IF e # e1 THEN 0
                                       ELSE IF grid.faces[f].along > 0 THEN -1 ELSE 1]
            /\ queue' = <<e1>>
            /\ step' = "propagate"
  /\ UNCHANGED <<case, inside, cut, near, held, lifted, extent>>

\* A cut face flips the side, any other keeps it.
Expected(f, e) == IF f \in cut THEN -side[e] ELSE side[e]

\* Faulty: a conflict goes unnoticed.
Conflict_Never(e) == FALSE

\* The faces of e with another near element behind them, and that element.
NearFaces(e) ==
  {f \in MeshFaces : /\ Len(grid.faces[f].elements) = 2 /\ e \in ElementsOf(f)
                     /\ ElementsOf(f) \subseteq near}
Other(f, e) == CHOOSE x \in ElementsOf(f) : x # e

\* Across two faces, an element would have to be on different sides.
Conflict(e) ==
  \E f \in NearFaces(e) :
    \/ side[Other(f, e)] \notin {0, Expected(f, e)}
    \/ \E g \in NearFaces(e) : Other(g, e) = Other(f, e) /\ Expected(g, e) # Expected(f, e)

SideFound(e) == {x \in {Other(f, e) : f \in NearFaces(e)} : side[x] = 0}

Propagate ==
  /\ step = "propagate" /\ queue # <<>>
  /\ LET e == Last(queue)
         found == SideFound(e) IN
       IF Conflict(e)
       THEN Reject /\ UNCHANGED <<side, queue>>
       ELSE /\ side' = [x \in near |->
                          IF x \in found
                          THEN Expected(CHOOSE f \in NearFaces(e) : Other(f, e) = x, e)
                          ELSE side[x]]
            /\ queue' = Front(queue) \o InOrder(found, Len(grid.elements))
            /\ UNCHANGED step
  /\ UNCHANGED <<case, inside, cut, near, held, lifted, extent>>

\* n . direction with n from the upstream element to the downstream one.
Agreement(f) ==
  IF side[grid.faces[f].elements[1]] < 0 THEN grid.faces[f].along ELSE -grid.faces[f].along

\* The cut is crossed along the normal on balance.
Agrees == MapThenFoldSet(+, 0, Agreement, LAMBDA S : CHOOSE f \in S : TRUE, cut) > 0

\* An element no side was found for would count as downstream.
Downstream == {e \in near : side[e] >= 0}

\* Crossing f out of e: 1 into the downstream side, -1 back, 0 off the cut.
Jump(f, e) == IF f \notin cut THEN 0 ELSE IF side[e] < 0 THEN 1 ELSE -1

\* <<from, to, jump>> for each way from one element of the conductor to the next.
Crossings ==
  UNION {{<<e, Other(f, e), Jump(f, e)>> : e \in ElementsOf(f)} :
           f \in {g \in MeshFaces : Len(grid.faces[g].elements) = 2 /\ ElementsOf(g) \subseteq inside}}

\* The path integral: w vanishes if the jumps are those of a function, so that
\* no walk <<at, net>> from an element returns to it with a net crossing.
Circulates ==
  \E links \in {Crossings} :
    LET Onward(w) == {<<l[2], w[2] + l[3]>> : l \in {k \in links : k[1] = w[1]}}
        Walked(n, S) == S \cup UNION {Onward(w) : w \in S}
    IN  \E e \in inside : \E w \in Iterated(Walked, {<<e, 0>>}, Cardinality(inside)) :
          w[1] = e /\ w[2] # 0

Unreached == {e \in near : side[e] = 0}

\* Each near element has a side, and the lifting is on the downstream ones; u
\* is held at the conductor's first degree of freedom.
Lift ==
  /\ step = "propagate" /\ queue = <<>>
  /\ IF Unreached # {} \/ ~Agrees
     THEN Reject /\ UNCHANGED <<held, lifted>>
     ELSE /\ lifted' = Downstream
          /\ held' = [d \in {Min(conductor_dofs)} |-> 0]
          /\ step' = "lifted"
  /\ UNCHANGED <<case, inside, cut, near, side, queue, extent>>

CheckIntegral ==
  /\ step = "lifted"
  /\ Accept(Circulates)
  /\ UNCHANGED <<case, inside, cut, near, side, queue, held, lifted, extent>>

-----------------------------------------------------------------------------
PathInit ==
  /\ case \in Cases
  /\ inside = Inside(case) /\ cut = {} /\ near = {}
  /\ step = "start" /\ side = NoSides /\ queue = <<>>
  /\ held = NoSides /\ lifted = {} /\ extent = 0

PathNext ==
  MakeAzimuthal \/ MakeElectrodes \/ CollectCut \/ Seed \/ Propagate \/ Lift \/ CheckIntegral

PathSpec == PathInit /\ [][PathNext]_pvars

-----------------------------------------------------------------------------
(* Properties.                                                             *)

\* The type of every variable.
PathTypeOK ==
  /\ step \in {"start", "seed", "propagate", "lifted", "accepted", "rejected"}
  /\ \A e \in DOMAIN side : e \in near /\ side[e] \in -1 .. 1
  /\ ToSet(queue) \subseteq DOMAIN side
  /\ DOMAIN held \subseteq conductor_dofs
  /\ lifted \subseteq inside
  /\ extent \in 0 .. FullTurn

\* conductor_path.hpp: "H is continuous everywhere except across the cut, where
\* it jumps by 1".  H of an element is the sum of the basis functions of the cut
\* degrees of freedom if it is lifted; on a face only those of the face count.
JumpsOnlyAtCut ==
  step \in {"lifted", "accepted"} /\ case.kind = "cut" =>
    \A f \in MeshFaces : Len(grid.faces[f].elements) = 2 /\ ElementsOf(f) \subseteq inside =>
      IF f \in cut THEN Cardinality(ElementsOf(f) \cap lifted) = 1
      ELSE grid.faces[f].dofs \cap cut_dofs # {} =>
             Cardinality(ElementsOf(f) \cap lifted) # 1

\* The electrodes' faces on an accepted conductor are joined by a wall: from one
\* to any other there is a way over n x A = 0 faces that share vertices.
WallJoinsElectrodes ==
  step = "accepted" /\ case.kind = "electrodes" =>
    LET walls == MarkedFaces(case.ess)
        Touching(n, S) == {x \in walls : \E y \in S : WallDofs(x) \cap WallDofs(y) # {}}
    IN  \A b \in Bordering(Electrodes) :
          b \in walls /\ Bordering(Electrodes) \subseteq Iterated(Touching, {b}, Cardinality(walls))

\* Current enters and leaves an accepted conductor with electrodes on one wall, and the
\* potential is held on the conductor alone.
ConductorEndsFit == PathTypeOK /\ WallJoinsElectrodes

\* The extent of an accepted azimuthal conductor, a difference of two angles that wrap, is
\* the arc it covers.
ExtentIsArc ==
  step = "accepted" /\ case.kind = "azimuthal" => extent = case.arc
=============================================================================
