------------------------------ MODULE GaugeSpace ------------------------------
(***************************************************************************)
(* DivergenceFreeProjector: which functions psi the projections and the gauge *)
(* are taken over.  Each space is given by a column per degree of freedom of   *)
(* the H1 space, None where psi vanishes; degrees of freedom with one column   *)
(* share one value.                                                        *)
(*                                                                         *)
(* The two union-finds are kept as the map find computes, not as a forest;     *)
(* ReferencePotential has one in detail.                                    *)
(***************************************************************************)
EXTENDS Integers, Sequences, FiniteSets

CONSTANTS
  NDof,           \* h1.GetVSize(); degrees of freedom are numbered from 0
  Meshes,         \* meshes: lists of [attribute, dofs], elements and boundary
  EssBdrs,        \* sets of boundary attributes where A is essential
  Conductors      \* sets of domain attributes

H1Dofs == 0 .. NDof - 1
None == -1
Cells == [attribute : Nat, dofs : Seq(H1Dofs)]

ASSUME SpaceAssumption ==
  /\ NDof \in Nat \ {0}
  /\ \A m \in Meshes :
       /\ m.elements \in Seq(Cells) /\ m.boundary \in Seq(Cells)
       /\ \A i \in DOMAIN m.boundary : m.boundary[i].dofs # <<>>

VARIABLES
  mesh, ess_bdr,
  conductor,          \* the attributes of the call at hand
  call, counter,      \* the loop, and its counter
  joined,             \* WallPieces' find
  wall_piece, wall_pieces, root_piece,
  column, columns,    \* P
  part, grounded,     \* ConnectedParts; part numbers count from 0
  stack,              \* as a set: its order plays no role in what is reached
  group,              \* GaugeConstraint's find
  part_piece, part_column, group_column,
  gauge, multipliers, \* P_gauge
  free, pinned        \* ProjectWithin

wall  == <<joined, wall_piece, wall_pieces, root_piece>>
space == <<column, columns>>
parts == <<part, grounded, stack>>
joint == <<group, part_piece>>
multi == <<part_column, group_column, gauge, multipliers>>
pins  == <<free, pinned>>
input == <<mesh, ess_bdr, conductor>>
gvars == <<input, call, counter, wall, space, parts, joint, multi, pins>>

Vertices(cell) == {cell.dofs[i] : i \in DOMAIN cell.dofs}

\* The cells whose attribute is at least 1, within the marker, and set in it.
Marked(cells, attributes) == {i \in DOMAIN cells : cells[i].attribute \in attributes}

Walls == Marked(mesh.boundary, ess_bdr)
Conducting == Marked(mesh.elements, conductor)

\* h1.GetEssentialTrueDofs
essential == UNION {Vertices(mesh.boundary[i]) : i \in Walls}

Least(S) == CHOOSE d \in S : \A e \in S : d <= e

-----------------------------------------------------------------------------
(* The constructor.                                                        *)

\* parent[find(d)] = find(dofs[0]) for each d of a boundary element.
JoinWall(i) ==
  [d \in H1Dofs |-> IF joined[d] \in {joined[e] : e \in Vertices(mesh.boundary[i])}
                  THEN joined[mesh.boundary[i].dofs[1]] ELSE joined[d]]

Merge ==
  /\ call = "walls" /\ counter < Len(mesh.boundary)
  /\ joined' = IF counter + 1 \in Walls THEN JoinWall(counter + 1) ELSE joined
  /\ counter' = counter + 1
  /\ UNCHANGED <<input, call, wall_piece, wall_pieces, root_piece, space, parts, joint, multi, pins>>

UniteDone ==
  /\ call = "walls" /\ counter = Len(mesh.boundary)
  /\ call' = "pieces" /\ counter' = 0
  /\ UNCHANGED <<input, wall, space, parts, joint, multi, pins>>

\* A set is walked in ascending order.
NumberPiece ==
  /\ call = "pieces" /\ counter \in H1Dofs
  /\ counter' = counter + 1
  /\ IF counter \notin essential
     THEN UNCHANGED wall
     ELSE LET new == root_piece[joined[counter]] = None
              p == IF new THEN wall_pieces ELSE root_piece[joined[counter]] IN
          /\ root_piece' = [root_piece EXCEPT ![joined[counter]] = p]
          /\ wall_pieces' = IF new THEN wall_pieces + 1 ELSE wall_pieces
          /\ wall_piece' = [wall_piece EXCEPT ![counter] = p]
          /\ UNCHANGED joined
  /\ UNCHANGED <<input, call, space, parts, joint, multi, pins>>

PiecesDone ==
  /\ call = "pieces" /\ counter = NDof
  /\ call' = "columns" /\ counter' = 0
  /\ UNCHANGED <<input, wall, space, parts, joint, multi, pins>>

\* Off the essential boundary; all but the first if there is none.
HasColumn(d) == d \notin essential /\ (essential # {} \/ d > 0)

AssignColumn ==
  /\ call = "columns" /\ counter \in H1Dofs
  /\ counter' = counter + 1
  /\ IF HasColumn(counter)
     THEN column' = [column EXCEPT ![counter] = columns] /\ columns' = columns + 1
     ELSE UNCHANGED space
  /\ UNCHANGED <<input, call, wall, parts, joint, multi, pins>>

\* One column per wall piece but the first.
PieceColumn(p) == IF p = 0 THEN None ELSE columns + p - 1

AssignPieces ==
  /\ call = "columns" /\ counter = NDof
  /\ column' = [d \in H1Dofs |-> IF d \in essential THEN PieceColumn(wall_piece[d])
                                                  ELSE column[d]]
  /\ columns' = IF wall_pieces = 0 THEN columns ELSE columns + wall_pieces - 1
  /\ call' = "built" /\ counter' = 0
  /\ UNCHANGED <<input, wall, parts, joint, multi, pins>>

-----------------------------------------------------------------------------
(* ConnectedParts.                                                         *)

\* GaugeConstraint(attributes) or ProjectWithin(attributes).
Call ==
  /\ call = "built"
  /\ \E attributes \in Conductors : conductor' = attributes
  /\ call' = "parts" /\ counter' = 0
  /\ UNCHANGED <<mesh, ess_bdr, wall, space, parts, joint, multi, pins>>

\* The degrees of freedom that share an element with d.
Neighbours(d) ==
  UNION {Vertices(mesh.elements[i]) :
           i \in {j \in Conducting : d \in Vertices(mesh.elements[j])}}

StartPart ==
  /\ call = "parts" /\ stack = {} /\ counter \in H1Dofs
  /\ IF Neighbours(counter) = {} \/ part[counter] >= 0
     THEN counter' = counter + 1 /\ UNCHANGED parts
     ELSE /\ grounded' = Append(grounded, FALSE)
          /\ part' = [part EXCEPT ![counter] = Len(grounded)]
          /\ stack' = {counter}
          /\ UNCHANGED counter
  /\ UNCHANGED <<input, call, wall, space, joint, multi, pins>>

\* if (essential.count(d)) { parts.grounded[c] = true; }
Grounds(d) == d \in essential

\* grounded counts from 1, parts from 0; c is the part begun last.
Visit ==
  /\ call = "parts"
  /\ \E d \in stack :
       LET found == {e \in Neighbours(d) : part[e] < 0}
           c == Len(grounded) - 1 IN
       /\ part' = [e \in H1Dofs |-> IF e \in found THEN c ELSE part[e]]
       /\ stack' = (stack \ {d}) \cup found
       /\ grounded' = [grounded EXCEPT ![c + 1] = @ \/ Grounds(d)]
  /\ UNCHANGED <<input, call, counter, wall, space, joint, multi, pins>>

PartsDone ==
  /\ call = "parts" /\ stack = {} /\ counter = NDof
  /\ call' \in {"groups", "pins"} /\ counter' = 0
  /\ UNCHANGED <<input, wall, space, parts, joint, multi, pins>>

Parts == 0 .. Len(grounded) - 1
Pieces == 0 .. wall_pieces - 1
Grounded(c) == grounded[c + 1]

-----------------------------------------------------------------------------
(* GaugeConstraint.                                                        *)

\* Faulty: the piece a part was met with first is relinked, not its root.
JoinPieces_NoFind(c, p) ==
  [q \in H1Dofs |-> IF q = part_piece[c] THEN p ELSE group[q]]

\* group[find(part_piece[c])] = p
JoinPieces(c, p) ==
  [q \in H1Dofs |-> IF group[q] = group[part_piece[c]] THEN p ELSE group[q]]

\* group is over the wall pieces; there are no more of them than degrees of freedom.
GroupPieces ==
  /\ call = "groups" /\ counter \in H1Dofs
  /\ counter' = counter + 1
  /\ LET c == part[counter]
         p == group[wall_piece[counter]] IN
     IF counter \notin essential \/ c < 0 THEN UNCHANGED joint
     ELSE IF part_piece[c] < 0
     THEN part_piece' = [part_piece EXCEPT ![c] = p] /\ UNCHANGED group
     ELSE group' = JoinPieces(c, p) /\ UNCHANGED part_piece
  /\ UNCHANGED <<input, call, wall, space, parts, multi, pins>>

GroupsDone ==
  /\ call = "groups" /\ counter = NDof
  /\ call' = "gauge" /\ counter' = 0
  /\ UNCHANGED <<input, wall, space, parts, joint, multi, pins>>

\* column[d] = multipliers++
NewColumn ==
  /\ gauge' = [gauge EXCEPT ![counter] = multipliers]
  /\ multipliers' = multipliers + 1

\* if (g == find(0)): the reference value, zero
IsReference(piece) == group[piece] = group[0]

WallColumn(piece) ==
  LET g == group[piece] IN
  /\ IF IsReference(piece) THEN UNCHANGED <<gauge, multipliers, group_column>>
     ELSE IF group_column[g] < 0
     THEN NewColumn /\ group_column' = [group_column EXCEPT ![g] = multipliers]
     ELSE gauge' = [gauge EXCEPT ![counter] = group_column[g]] /\ UNCHANGED <<multipliers, group_column>>
  /\ UNCHANGED part_column

PartColumn(c) ==
  /\ IF part_column[c] < 0
     THEN NewColumn /\ part_column' = [part_column EXCEPT ![c] = multipliers]
     ELSE gauge' = [gauge EXCEPT ![counter] = part_column[c]] /\ UNCHANGED <<multipliers, part_column>>
  /\ UNCHANGED group_column

TouchesWall(c) == Grounded(c)

AssignMultiplier ==
  /\ call = "gauge" /\ counter \in H1Dofs
  /\ counter' = counter + 1
  /\ LET c == part[counter] IN
     IF counter \in essential THEN WallColumn(wall_piece[counter])
     ELSE IF c < 0 THEN NewColumn /\ UNCHANGED <<group_column, part_column>>
     ELSE IF TouchesWall(c) THEN WallColumn(part_piece[c])
     ELSE PartColumn(c)
  /\ UNCHANGED <<input, call, wall, space, parts, joint, pins>>

\* Column 0 is dropped, those behind it move up.
Dropped(j) == IF j = 0 THEN None ELSE IF j > 0 THEN j - 1 ELSE j

DropConstant ==
  /\ call = "gauge" /\ counter = NDof
  /\ IF essential = {} /\ multipliers > 0
     THEN /\ gauge' = [d \in H1Dofs |-> Dropped(gauge[d])]
          /\ multipliers' = multipliers - 1
     ELSE UNCHANGED <<gauge, multipliers>>
  /\ call' = "gauged" /\ counter' = 0
  /\ UNCHANGED <<input, wall, space, parts, joint, part_column, group_column, pins>>

-----------------------------------------------------------------------------
(* ProjectWithin: psi is solved for on free and is zero elsewhere.            *)

NeedsPin(c) == ~Grounded(c) /\ c \notin pinned

FreeOrPin ==
  /\ call = "pins" /\ counter \in H1Dofs
  /\ counter' = counter + 1
  /\ LET c == part[counter] IN
     IF c < 0 \/ counter \in essential THEN UNCHANGED pins
     ELSE IF NeedsPin(c) THEN pinned' = pinned \cup {c} /\ UNCHANGED free
     ELSE free' = free \cup {counter} /\ UNCHANGED pinned
  /\ UNCHANGED <<input, call, wall, space, parts, joint, multi>>

PinsDone ==
  /\ call = "pins" /\ counter = NDof
  /\ call' = "projected" /\ counter' = 0
  /\ UNCHANGED <<input, wall, space, parts, joint, multi, pins>>

GInit ==
  /\ mesh \in Meshes /\ ess_bdr \in EssBdrs /\ conductor = {}
  /\ call = "walls" /\ counter = 0
  /\ joined = [d \in H1Dofs |-> d]
  /\ wall_piece = [d \in H1Dofs |-> None] /\ wall_pieces = 0
  /\ root_piece = [d \in H1Dofs |-> None]
  /\ column = [d \in H1Dofs |-> None] /\ columns = 0
  /\ part = [d \in H1Dofs |-> None] /\ grounded = <<>> /\ stack = {}
  /\ group = [d \in H1Dofs |-> d]
  /\ part_piece = [d \in H1Dofs |-> None] /\ part_column = [d \in H1Dofs |-> None]
  /\ group_column = [d \in H1Dofs |-> None]
  /\ gauge = [d \in H1Dofs |-> None] /\ multipliers = 0
  /\ free = {} /\ pinned = {}

GNext ==
  \/ Merge \/ UniteDone \/ NumberPiece \/ PiecesDone \/ AssignColumn \/ AssignPieces
  \/ Call \/ StartPart \/ Visit \/ PartsDone
  \/ GroupPieces \/ GroupsDone \/ AssignMultiplier \/ DropConstant
  \/ FreeOrPin \/ PinsDone

GSpec == GInit /\ [][GNext]_gvars

-----------------------------------------------------------------------------
(* Properties.                                                             *)

\* The type of every variable.
GTypeOK ==
  /\ mesh \in Meshes /\ ess_bdr \in EssBdrs /\ conductor \in Conductors \cup {{}}
  /\ call \in {"walls", "pieces", "columns", "built", "parts", "groups", "gauge",
             "gauged", "pins", "projected"}
  /\ counter \in Nat
  /\ joined \in [H1Dofs -> H1Dofs] /\ group \in [H1Dofs -> H1Dofs]
  /\ wall_pieces \in 0 .. NDof /\ columns \in 0 .. NDof /\ multipliers \in 0 .. NDof
  /\ wall_piece \in [H1Dofs -> Pieces \cup {None}]
  /\ root_piece \in [H1Dofs -> Pieces \cup {None}]
  /\ column \in [H1Dofs -> (0 .. columns - 1) \cup {None}]
  /\ grounded \in Seq(BOOLEAN)
  /\ part \in [H1Dofs -> Parts \cup {None}]
  /\ part_piece \in [H1Dofs -> Pieces \cup {None}]
  /\ part_column \in [H1Dofs -> H1Dofs \cup {None}] /\ group_column \in [H1Dofs -> H1Dofs \cup {None}]
  /\ gauge \in [H1Dofs -> (0 .. multipliers - 1) \cup {None}]
  /\ stack \subseteq H1Dofs /\ free \subseteq H1Dofs /\ pinned \subseteq Parts

\* No boundary element of a wall leads out of S; no conducting element does.
ClosedInWalls(S) ==
  \A i \in Walls : \A d, e \in Vertices(mesh.boundary[i]) : d \in S <=> e \in S
ClosedInConductor(S) ==
  \A i \in Conducting : \A d, e \in Vertices(mesh.elements[i]) : d \in S <=> e \in S

JoinedByWalls(d, e) ==
  \A S \in SUBSET H1Dofs : ClosedInWalls(S) => (d \in S <=> e \in S)
JoinedByConductor(d, e) ==
  \A S \in SUBSET H1Dofs : ClosedInConductor(S) => (d \in S <=> e \in S)
JoinedByEither(d, e) ==
  \A S \in SUBSET H1Dofs : ClosedInWalls(S) /\ ClosedInConductor(S) => (d \in S <=> e \in S)

\* Where psi is zero: on the first wall piece, or else at one place.
Zero == IF essential = {} THEN 0 ELSE Least(essential)

\* The columns of f are numbered without a gap.
NoIdleColumn(f, n) == {f[d] : d \in H1Dofs} \ {None} = 0 .. n - 1

\* The constructor's P has a column for every function that is constant on each
\* connected piece of the wall and zero on the first, and no other: two degrees of
\* freedom share a value just if walls join them, however the mesh is numbered.
ReducedSpaceExact ==
  call = "built" =>
    /\ \A d, e \in H1Dofs : column[d] = column[e] <=> JoinedByWalls(d, e)
    /\ column[Zero] = None
    /\ NoIdleColumn(column, columns)

\* GaugeConstraint's columns span the gradients the curl-curl system leaves
\* undetermined, each once: psi has one value on all that walls and conductors join,
\* through one another too, and is zero where the reference is.  One column too
\* many makes the bordered matrix singular, one too few leaves A undetermined.
GaugeColumnsExact ==
  call = "gauged" =>
    /\ \A d, e \in H1Dofs : gauge[d] = gauge[e] <=> JoinedByEither(d, e)
    /\ gauge[Zero] = None
    /\ NoIdleColumn(gauge, multipliers)

InConductor == UNION {Vertices(mesh.elements[i]) : i \in Conducting}

\* ProjectWithin solves for psi on the conductor only, and in each of its parts
\* fixes psi where A is essential, or else at just one place: with none the system
\* is singular, with two a gradient is left in the load.
OnePinPerPart ==
  call = "projected" =>
    /\ free \subseteq InConductor \ essential
    /\ \A d \in InConductor :
         LET fixed == {e \in InConductor \ free : JoinedByConductor(d, e)} IN
         \/ fixed # {} /\ fixed \subseteq essential
         \/ Cardinality(fixed) = 1 /\ \A e \in essential : ~JoinedByConductor(d, e)

\* The gauge removes each gradient the system leaves undetermined, once, in the reduced
\* space, in the gauge's constraint and in the projected loads.
SpacesAreExact == GTypeOK /\ ReducedSpaceExact /\ GaugeColumnsExact /\ OnePinPerPart
===============================================================================
