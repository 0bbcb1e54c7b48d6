-------------------------- MODULE ReferencePotential --------------------------
(***************************************************************************)
(* PhysicsSolver::RequireReferencePotential: whether every piece of the mesh  *)
(* has a boundary that fixes the potential on it.  A union-find over the      *)
(* elements, united across faces, with path halving.                         *)
(*                                                                         *)
(* Every iteration of find is a step; where a find returns, the code that     *)
(* called it goes on.                                                      *)
(***************************************************************************)
EXTENDS Naturals, Sequences

CONSTANTS
  NE,             \* mesh.GetNE(); elements are numbered from 1
  FaceLists,      \* lists a mesh may have of [e1, e2], e2 = NoElement outside
  BoundaryLists,  \* lists of [attribute, element]: boundary elements
  EssBdr,         \* the attributes set in ess_bdr
  RobinCoeff      \* the coefficient of the attributes under a Robin condition

Elements == 1..NE
NoElement == 0
NonPositive == 0   \* any boundary attribute below 1

ASSUME MeshAssumption ==
  /\ NE \in Nat
  /\ \A list \in FaceLists :
       list \in Seq([e1 : Elements, e2 : Elements \cup {NoElement}])
  /\ \A list \in BoundaryLists : \A i \in DOMAIN list : list[i].element \in Elements
  /\ \A list \in BoundaryLists : Len(list) \in Nat /\ DOMAIN list = 1..Len(list)

VARIABLES
  faces, boundary,
  root,
  fixed,    \* the elements e with fixed[e]
  phase,    \* the loop, the find a loop is in, or the verdict
  at,       \* the loop's counter
  cursor,   \* find's e
  target    \* find(e2)

rvars == <<faces, boundary, root, fixed, phase, at, cursor, target>>

\* The markers are indexed by attribute - 1.
FixesPotential(attribute) ==
  \/ attribute \in EssBdr
  \/ attribute \in DOMAIN RobinCoeff /\ RobinCoeff[attribute] > 0

\* What lies in front of a marker, which a non-positive attribute reads, may be
\* anything.
MayFix(attribute) == FixesPotential(attribute) \/ attribute = NonPositive

-----------------------------------------------------------------------------
Found == root[cursor] = cursor

\* One round of find: e = root[e] = root[root[e]].
Halve ==
  /\ phase \in {"find e2", "find e1", "find boundary", "find element"}
  /\ ~Found
  /\ root' = [root EXCEPT ![cursor] = root[root[cursor]]]
  /\ cursor' = root[root[cursor]]
  /\ UNCHANGED <<faces, boundary, fixed, phase, at, target>>

NextFace ==
  /\ phase = "faces"
  /\ at <= Len(faces)
  /\ IF faces[at].e2 = NoElement
     THEN at' = at + 1 /\ UNCHANGED <<phase, cursor>>
     ELSE cursor' = faces[at].e2 /\ phase' = "find e2" /\ UNCHANGED at
  /\ UNCHANGED <<faces, boundary, root, fixed, target>>

\* The right-hand side of root[find(e1)] = find(e2) is evaluated first.
FoundSecond ==
  /\ phase = "find e2" /\ Found
  /\ target' = cursor
  /\ cursor' = faces[at].e1
  /\ phase' = "find e1"
  /\ UNCHANGED <<faces, boundary, root, fixed, at>>

\* Faulty: e1 itself is relinked, not its root.
Link_ElementOnly == root' = [root EXCEPT ![faces[at].e1] = target]

Link == root' = [root EXCEPT ![cursor] = target]

Unite ==
  /\ phase = "find e1" /\ Found
  /\ Link
  /\ at' = at + 1
  /\ phase' = "faces"
  /\ UNCHANGED <<faces, boundary, fixed, cursor, target>>

FacesDone ==
  /\ phase = "faces"
  /\ at > Len(faces)
  /\ at' = 1
  /\ phase' = "boundary"
  /\ UNCHANGED <<faces, boundary, root, fixed, cursor, target>>

NextBoundary ==
  /\ phase = "boundary"
  /\ at <= Len(boundary)
  /\ \/ /\ MayFix(boundary[at].attribute)
        /\ cursor' = boundary[at].element /\ phase' = "find boundary" /\ UNCHANGED at
     \/ /\ ~FixesPotential(boundary[at].attribute)
        /\ at' = at + 1 /\ UNCHANGED <<phase, cursor>>
  /\ UNCHANGED <<faces, boundary, root, fixed, target>>

Fix ==
  /\ phase = "find boundary" /\ Found
  /\ fixed' = fixed \cup {cursor}
  /\ at' = at + 1
  /\ phase' = "boundary"
  /\ UNCHANGED <<faces, boundary, root, cursor, target>>

BoundaryDone ==
  /\ phase = "boundary"
  /\ at > Len(boundary)
  /\ at' = 1
  /\ phase' = "elements"
  /\ UNCHANGED <<faces, boundary, root, fixed, cursor, target>>

NextElement ==
  /\ phase = "elements"
  /\ IF at \in Elements
     THEN cursor' = at /\ phase' = "find element"
     ELSE phase' = "accepted" /\ UNCHANGED cursor
  /\ UNCHANGED <<faces, boundary, root, fixed, at, target>>

\* MFEM_VERIFY(fixed[find(e)], ...)
Verify ==
  /\ phase = "find element" /\ Found
  /\ IF cursor \in fixed
     THEN at' = at + 1 /\ phase' = "elements"
     ELSE phase' = "rejected" /\ UNCHANGED at
  /\ UNCHANGED <<faces, boundary, root, fixed, cursor, target>>

RInit ==
  /\ faces \in FaceLists /\ boundary \in BoundaryLists
  /\ root = [e \in Elements |-> e]
  /\ fixed = {}
  /\ phase = "faces" /\ at = 1
  /\ cursor = NoElement /\ target = NoElement

RNext ==
  \/ Halve
  \/ NextFace \/ FoundSecond \/ Unite \/ FacesDone
  \/ NextBoundary \/ Fix \/ BoundaryDone
  \/ NextElement \/ Verify

RSpec == RInit /\ [][RNext]_rvars

-----------------------------------------------------------------------------
(* Properties.                                                             *)

Finding == {"find e2", "find e1", "find boundary", "find element"}

\* The type of every variable.
RTypeOK ==
  /\ faces \in FaceLists /\ boundary \in BoundaryLists
  /\ root \in [Elements -> Elements]
  /\ fixed \subseteq Elements
  /\ phase \in Finding \cup {"faces", "boundary", "elements", "accepted", "rejected"}
  /\ at \in Nat \ {0}
  /\ cursor \in Elements \cup {NoElement} /\ target \in Elements \cup {NoElement}
  /\ phase \in Finding => cursor \in Elements
  /\ phase = "find e1" => target \in Elements

\* A union of pieces of the mesh: no face leads out of it.
Closed(S) ==
  \A i \in DOMAIN faces :
    faces[i].e2 # NoElement => (faces[i].e1 \in S <=> faces[i].e2 \in S)

\* Where a condition determines the value of the potential, not only its flux.
Pinned == EssBdr \cup {a \in DOMAIN RobinCoeff : RobinCoeff[a] > 0}

Held(S) == \E i \in DOMAIN boundary : /\ boundary[i].attribute \in Pinned
                                      /\ boundary[i].element \in S

\* A mesh all of whose boundary elements have an attribute a marker can select.
PositiveAttributes == \A i \in DOMAIN boundary : boundary[i].attribute # NonPositive

\* Of an accepted mesh, every piece is held by a boundary that pins the potential
\* or has a positive Robin coefficient.
AcceptedIsHeld ==
  phase = "accepted" => \A S \in SUBSET Elements : S # {} /\ Closed(S) => Held(S)

\* The same of the meshes with positive boundary attributes.
PositiveIsHeld == PositiveAttributes => AcceptedIsHeld

\* A rejected mesh has a piece that nothing holds.
RejectedIsLoose ==
  phase = "rejected" => \E S \in SUBSET Elements : S # {} /\ Closed(S) /\ ~Held(S)

\* The verdict on a mesh whose boundary elements a marker can select is right either way.
PiecesAreHeld == RTypeOK /\ PositiveIsHeld /\ RejectedIsLoose
===============================================================================
