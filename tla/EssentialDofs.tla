---------------------------- MODULE EssentialDofs ----------------------------
(***************************************************************************)
(* Which degrees of freedom the scalar solvers pin, and to what: the boundary  *)
(* conditions, the voltage terminals of ElectrostaticSolver, and the axis of    *)
(* the axisymmetric magnetic solvers, with the checks that Setup makes of       *)
(* them (BoundaryConditionValidator, ValidateMagneticAxisBoundaryValues).       *)
(*                                                                         *)
(* A degree of freedom is the set of the mesh vertices it lies on: one vertex,  *)
(* or, from second order on, the two ends of an edge.  Values are integers, in  *)
(* units of the validator's tolerance.                                      *)
(***************************************************************************)
EXTENDS Integers, FiniteSets, Sequences

CONSTANTS
  Edges,      \* of the mesh, each the set of its two vertices
  Models,     \* [formulation, order, onAxis, tag, conditions, terminals]
  Tolerance,
  Drives      \* the voltages a scenario may put on a terminal

ASSUME ModelAssumption ==
  /\ \A e \in Edges : e # {}
  /\ Tolerance \in Nat /\ Drives \subseteq Int
  /\ \A m \in Models :
       /\ m.order \in Nat \ {0} /\ m.onAxis \subseteq UNION Edges
       /\ m.conditions \in Seq([type : {"dirichlet", "neumann", "robin"},
                                 marker : SUBSET Nat, value : Int, coeff : Int])
       /\ m.terminals \in Seq(SUBSET Nat)
       /\ m.formulation # "electrostatic" => m.terminals = <<>>

Unmarked == 0   \* the tag of an edge that no marker selects
Free == 1000    \* a value that the solve determines

VARIABLES
  model,
  essBdr,     \* the attributes in ess_bdr
  axis,       \* those in axis_boundary
  essDofs,    \* ess_tdof_list
  x,          \* the solution
  scenario,   \* of the last imprint: its mode and the terminals' voltages
  col,        \* the next coupling column
  matrix,     \* what each entry of C sums, and what its column held at one
  pc

evars == <<model, essBdr, axis, essDofs, x, scenario, col, matrix, pc>>

Electrostatic == model.formulation = "electrostatic"

\* MarkerFromGroup drops the attributes that the mesh does not carry.
Present == {model.tag[e] : e \in Edges} \ {Unmarked}
Conditions ==
  [i \in DOMAIN model.conditions |-> [model.conditions[i] EXCEPT !.marker = @ \cap Present]]
\* The terminals' markers, in the order of config.Terminals.
Terminals == [k \in DOMAIN model.terminals |-> model.terminals[k] \cap Present]
Names == DOMAIN Terminals

DofsOn(edge) == {d \in SUBSET edge : Cardinality(d) \in 1..model.order}
Dofs == UNION {DofsOn(e) : e \in Edges}
Tagged(marker) == {e \in Edges : model.tag[e] \in marker}

\* GetEssentialTrueDofs, CollectMarkerDofs
MarkerDofs(marker) == UNION {DofsOn(e) : e \in Tagged(marker)}

Dirichlet(c) == c.type = "dirichlet"
NonzeroDirichlet(c) == Dirichlet(c) /\ c.value # 0   \* IsNonzeroDirichlet
DirichletMarker == UNION {Conditions[i].marker : i \in {j \in DOMAIN Conditions : Dirichlet(Conditions[j])}}

-----------------------------------------------------------------------------
(* Setup.                                                                   *)

Rejected == pc' = "rejected"

\* Robin is electrostatic only, and with a non-negative coefficient.
BuildBoundaryConditions ==
  /\ pc = "configured"
  /\ IF \A i \in DOMAIN Conditions :
          Conditions[i].type = "robin" => Electrostatic /\ Conditions[i].coeff >= 0
     THEN pc' = "conditions" ELSE Rejected
  /\ UNCHANGED <<model, essBdr, axis, essDofs, x, scenario, col, matrix>>

OnAxis(edge) == edge \subseteq model.onAxis

\* The attributes all of whose elements lie on the axis, and those with some.
AxisAttributes ==
  {model.tag[e] : e \in {f \in Edges : OnAxis(f)}} \ {Unmarked}
FindAxisBoundaryMarker == {a \in AxisAttributes : \A e \in Tagged({a}) : OnAxis(e)}
AxisIsTagged ==
  /\ AxisAttributes = FindAxisBoundaryMarker
  /\ FindAxisBoundaryMarker = {} => ~\E e \in Edges : OnAxis(e)

EssentialMarker ==
  IF Electrostatic THEN DirichletMarker \cup UNION {Terminals[k] : k \in Names}
  ELSE DirichletMarker \cup FindAxisBoundaryMarker

BuildEssentialBoundaryMarker ==
  /\ pc = "conditions"
  /\ IF Electrostatic \/ AxisIsTagged
     THEN /\ axis' = IF Electrostatic THEN {} ELSE FindAxisBoundaryMarker
          /\ essBdr' = EssentialMarker
          /\ pc' = "marked"
     ELSE /\ essBdr' = DirichletMarker
          /\ Rejected
          /\ UNCHANGED axis
  /\ UNCHANGED <<model, essDofs, x, scenario, col, matrix>>

\* On a mesh in one piece.
RequireReferencePotential ==
  /\ pc = "marked"
  /\ IF \/ Tagged(essBdr) # {}
        \/ \E i \in DOMAIN Conditions : /\ Conditions[i].type = "robin"
                                        /\ Conditions[i].coeff > 0
                                        /\ Tagged(Conditions[i].marker) # {}
     THEN pc' = "referenced" ELSE Rejected
  /\ UNCHANGED <<model, essBdr, axis, essDofs, x, scenario, col, matrix>>

\* Faulty: a vertex where the mesh only touches the axis is left free.
AxisTrueDofs_TaggedOnly == MarkerDofs(axis)

AxisTrueDofs ==
  IF Electrostatic THEN {} ELSE MarkerDofs(axis) \cup {{v} : v \in model.onAxis}

BuildOperators ==
  /\ pc = "referenced"
  /\ essDofs' = MarkerDofs(essBdr) \cup AxisTrueDofs
  /\ x' = [d \in Dofs |-> 0]
  /\ pc' = IF Electrostatic THEN "axis checked" ELSE "built"
  /\ UNCHANGED <<model, essBdr, axis, scenario, col, matrix>>

ValidateMagneticAxisBoundaryValues ==
  /\ pc = "built"
  /\ IF \A i \in DOMAIN Conditions :
          NonzeroDirichlet(Conditions[i]) => MarkerDofs(Conditions[i].marker) \cap AxisTrueDofs = {}
     THEN pc' = "axis checked" ELSE Rejected
  /\ UNCHANGED <<model, essBdr, axis, essDofs, x, scenario, col, matrix>>

Apart(v, w) == v - w > Tolerance \/ w - v > Tolerance
PinnedBy(i, d) == Dirichlet(Conditions[i]) /\ d \in MarkerDofs(Conditions[i].marker)

\* Of the conditions that pin one degree of freedom, all are compared with the first.
ValuesConflict ==
  \E d \in Dofs : \E i, first \in DOMAIN Conditions :
    /\ PinnedBy(i, d) /\ PinnedBy(first, d)
    /\ \A j \in DOMAIN Conditions : PinnedBy(j, d) => first <= j
    /\ Apart(Conditions[i].value, Conditions[first].value)

\* Faulty: an attribute may have a condition and a terminal.
AttributeClaimedTwice_Conditions ==
  \E i, j \in DOMAIN Conditions :
    i < j /\ Conditions[i].marker \cap Conditions[j].marker # {}

AttributeClaimedTwice ==
  \/ \E i, j \in DOMAIN Conditions :
       i < j /\ Conditions[i].marker \cap Conditions[j].marker # {}
  \/ \E i \in DOMAIN Conditions, k \in Names : Conditions[i].marker \cap Terminals[k] # {}

\* Faulty: terminals are only compared with each other.
TerminalsOverlap_AmongThemselves ==
  \E k, l \in Names : k # l /\ MarkerDofs(Terminals[k]) \cap MarkerDofs(Terminals[l]) # {}

TerminalsOverlap ==
  \/ \E k \in Names : MarkerDofs(Terminals[k]) \cap MarkerDofs(DirichletMarker) # {}
  \/ \E k, l \in Names : k # l /\ MarkerDofs(Terminals[k]) \cap MarkerDofs(Terminals[l]) # {}

\* The magnetic solvers have no terminals on the boundary.
Problems == ValuesConflict \/ AttributeClaimedTwice \/ TerminalsOverlap

ValidateBoundaryConditions ==
  /\ pc = "axis checked"
  /\ IF Problems THEN Rejected ELSE pc' = "ready"
  /\ UNCHANGED <<model, essBdr, axis, essDofs, x, scenario, col, matrix>>

-----------------------------------------------------------------------------
(* A run on the mesh.                                                       *)

\* Faulty: the prescribed values are imprinted on coupling columns, too.
FixedAt_Always(mode, d) ==
  {i \in DOMAIN Conditions : NonzeroDirichlet(Conditions[i]) /\ PinnedBy(i, d)}

\* ForEachNonzeroDirichlet
FixedAt(mode, d) ==
  {i \in DOMAIN Conditions : mode = "field" /\ NonzeroDirichlet(Conditions[i]) /\ PinnedBy(i, d)}
TerminalsAt(d) == {k \in Names : d \in MarkerDofs(Terminals[k])}

\* ProjectBdrCoefficient, one call after the other, the terminals' after the
\* conditions': the last one stays.
LastOf(S) == CHOOSE i \in S : \A j \in S : j <= i
Projected(mode, drive, d) ==
  IF TerminalsAt(d) # {} THEN drive[LastOf(TerminalsAt(d))]
  ELSE IF FixedAt(mode, d) # {} THEN Conditions[LastOf(FixedAt(mode, d))].value ELSE 0

Imprint(mode, drive) ==
  /\ x' = [d \in Dofs |-> Projected(mode, drive, d)]
  /\ scenario' = [mode |-> mode, drive |-> drive]

ImprintScenario ==
  /\ \/ pc = "ready"
     \/ pc = "solved" /\ scenario.mode = "field"
  /\ \E drive \in [Names -> Drives] : Imprint("field", drive)
  /\ pc' = "imprinted"
  /\ UNCHANGED <<model, essBdr, axis, essDofs, col, matrix>>

\* One synthesized scenario per terminal: one volt on it, none on the others.
ImprintColumn ==
  /\ pc \in {"ready", "column"}
  /\ Electrostatic /\ col \in Names
  /\ Imprint("coupling", [k \in Names |-> IF k = col THEN 1 ELSE 0])
  /\ pc' = "imprinted"
  /\ UNCHANGED <<model, essBdr, axis, essDofs, col, matrix>>

SolveSystem ==
  /\ pc = "imprinted"
  /\ x' = [d \in Dofs |-> IF d \in essDofs THEN x[d] ELSE Free]
  /\ pc' = "solved"
  /\ UNCHANGED <<model, essBdr, axis, essDofs, scenario, col, matrix>>

\* The degrees of freedom whose reaction is the charge of terminal k.
ChargeRow(k) == MarkerDofs(Terminals[k])

NextColumn == col + 1

GatherChargeColumn ==
  /\ pc = "solved" /\ scenario.mode = "coupling"
  /\ matrix' = [entry \in DOMAIN matrix \cup (Names \X {col}) |->
                  IF entry[2] = col
                  THEN [summed |-> ChargeRow(entry[1]), held |-> {d \in essDofs : x[d] = 1},
                        grounded |-> {d \in essDofs : x[d] = 0}]
                  ELSE matrix[entry]]
  /\ col' = NextColumn
  /\ pc' = "column"
  /\ UNCHANGED <<model, essBdr, axis, essDofs, x, scenario>>

EInit ==
  /\ model \in Models
  /\ essBdr = {} /\ axis = {} /\ essDofs = {}
  /\ x = [d \in Dofs |-> 0]
  /\ scenario = [mode |-> "none", drive |-> <<>>]
  /\ col = 1 /\ matrix = <<>>
  /\ pc = "configured"

ENext ==
  \/ BuildBoundaryConditions \/ BuildEssentialBoundaryMarker \/ RequireReferencePotential
  \/ BuildOperators \/ ValidateMagneticAxisBoundaryValues \/ ValidateBoundaryConditions
  \/ ImprintScenario \/ ImprintColumn \/ SolveSystem \/ GatherChargeColumn

ESpec == EInit /\ [][ENext]_evars
-----------------------------------------------------------------------------
(* Properties.                                                             *)

Accepted == pc \in {"ready", "imprinted", "solved", "column"}

\* The types; essential degrees of freedom exist, and the matrix has the columns
\* gathered so far.
ETypeOK ==
  /\ model \in Models
  /\ axis \subseteq essBdr /\ essDofs \subseteq Dofs
  /\ DOMAIN x = Dofs /\ \A d \in Dofs : x[d] \in Int
  /\ col \in Nat /\ DOMAIN matrix = Names \X (1..(col - 1))
  /\ pc \in {"configured", "conditions", "marked", "referenced", "built", "axis checked",
             "ready", "imprinted", "solved", "column", "rejected"}

\* Setup accepts a model only if every boundary element has one role: at most one
\* condition or terminal claims it.
OneOwner ==
  Accepted =>
    \A e \in Edges :
      /\ \A i, j \in DOMAIN Conditions :
           e \in Tagged(Conditions[i].marker) /\ e \in Tagged(Conditions[j].marker) => i = j
      /\ \A k, l \in Names :
           e \in Tagged(Terminals[k]) /\ e \in Tagged(Terminals[l]) => k = l
      /\ \A i \in DOMAIN Conditions, k \in Names :
           ~(e \in Tagged(Conditions[i].marker) /\ e \in Tagged(Terminals[k]))

\* In whatever order the values are projected, the solution of a field scenario has
\* each terminal's voltage on the whole terminal, and each prescribed value on its
\* boundary, up to what two tolerances allow where boundaries meet.
PinnedAsConfigured ==
  pc = "solved" /\ scenario.mode = "field" =>
    /\ \A k \in Names : \A d \in MarkerDofs(Terminals[k]) : x[d] = scenario.drive[k]
    /\ \A i \in DOMAIN Conditions : \A d \in MarkerDofs(Conditions[i].marker) :
         Dirichlet(Conditions[i]) =>
           x[d] - Conditions[i].value \in (-2 * Tolerance)..(2 * Tolerance)

\* Row k of the capacitance matrix sums the charge exactly where column k holds one
\* volt, and everything else that is pinned is at zero in that column, which is
\* what makes the matrix symmetric.
ColumnsDriveRows ==
  \A k, l \in Names : <<k, l>> \in DOMAIN matrix /\ <<l, k>> \in DOMAIN matrix =>
    /\ matrix[<<k, l>>].summed = matrix[<<l, k>>].held
    /\ matrix[<<k, l>>].grounded = essDofs \ matrix[<<k, l>>].held

\* The vector potential of an axisymmetric solution is zero at every vertex on the
\* axis, those where the mesh only touches it included.
AxisVerticesVanish ==
  pc = "solved" /\ ~Electrostatic => \A v \in model.onAxis : x[{v}] = 0

\* "Axis regularity on r = 0 in axisymmetric magnetic runs is imposed
\* automatically": the potential is zero at every degree of freedom on the axis.
AxisVanishes ==
  pc = "solved" /\ ~Electrostatic => \A d \in Dofs : d \subseteq model.onAxis => x[d] = 0
===============================================================================
