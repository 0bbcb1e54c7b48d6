--------------------------- MODULE ModelSetup_proofs ---------------------------
(***************************************************************************)
(* Proofs about what the solvers set up before they solve: the essential degrees *)
(* of freedom, for every mesh, every order and every list of conditions and      *)
(* terminals; the sides of a cut through a closed conductor, and the wall that     *)
(* joins electrodes, for every mesh; and the spaces of the divergence-free projector *)
(* and the gauge, for every mesh, every essential boundary and every conductor.    *)
(***************************************************************************)
EXTENDS EssentialDofs, ConductorPath, GaugeSpace, SequenceTheorems, WellFoundedInduction,
        Counting_proofs

-----------------------------------------------------------------------------
(* EssentialDofs: what Setup's checks are worth.  The invariant ties the solution at *)
(* the essential degrees of freedom to the last imprint, and the rest follows from  *)
(* the checks.                                                              *)

BuiltPcs == {"built", "axis checked", "ready", "imprinted", "solved", "column"}

\* What BuildOperators made essential.
Essentials ==
  /\ axis = IF Electrostatic THEN {} ELSE FindAxisBoundaryMarker
  /\ essBdr = EssentialMarker
  /\ pc \in BuiltPcs => essDofs = MarkerDofs(essBdr) \cup AxisTrueDofs

\* What ValidateMagneticAxisBoundaryValues lets pass.
AxisClear ==
  Electrostatic \/
  \A i \in DOMAIN Conditions :
    NonzeroDirichlet(Conditions[i]) => MarkerDofs(Conditions[i].marker) \cap AxisTrueDofs = {}

UnitDrive == [k \in Names |-> IF k = col THEN 1 ELSE 0]

\* What the solution and the scenario say of one another.
Imprinted ==
  /\ \A d \in essDofs : x[d] = Projected(scenario.mode, scenario.drive, d)
  /\ \/ scenario.mode = "field" /\ scenario.drive \in [Names -> Drives]
     \/ scenario.mode = "coupling" /\ scenario.drive = UnitDrive /\ col \in Names

Gathered ==
  \A k, l \in Names : <<k, l>> \in DOMAIN matrix =>
    /\ matrix[<<k, l>>].summed = ChargeRow(k)
    /\ matrix[<<k, l>>].held = ChargeRow(l)
    /\ matrix[<<k, l>>].grounded = essDofs \ ChargeRow(l)

EInv ==
  /\ model \in Models
  /\ pc \in {"marked", "referenced"} \cup BuiltPcs => Essentials
  /\ pc \in BuiltPcs \ {"built"} => AxisClear
  /\ Accepted => ~Problems /\ Gathered
  /\ ~Accepted => matrix = <<>>
  /\ pc \in {"imprinted", "solved"} => Imprinted

-----------------------------------------------------------------------------
\* All that is derived from the model stays what it is.
LEMMA ModelFixed ==
  ASSUME UNCHANGED model
  PROVE  /\ Conditions' = Conditions /\ Terminals' = Terminals /\ Names' = Names
         /\ Dofs' = Dofs /\ Electrostatic' = Electrostatic
         /\ \A m : MarkerDofs(m)' = MarkerDofs(m)
         /\ FindAxisBoundaryMarker' = FindAxisBoundaryMarker
         /\ EssentialMarker' = EssentialMarker
<1>1. Present' = Present
  BY DEF Present
<1>2. Conditions' = Conditions /\ Terminals' = Terminals
  BY <1>1 DEF Conditions, Terminals
<1>3. Names' = Names /\ Electrostatic' = Electrostatic
  BY <1>2 DEF Names, Electrostatic
<1>4. \A e : DofsOn(e)' = DofsOn(e)
  BY DEF DofsOn
<1>5. \A m : Tagged(m)' = Tagged(m)
  BY DEF Tagged
<1>6. Dofs' = Dofs
  BY DEF Dofs, DofsOn
<1>7. \A m : MarkerDofs(m)' = MarkerDofs(m)
  BY DEF MarkerDofs, Tagged, DofsOn
<1>8. FindAxisBoundaryMarker' = FindAxisBoundaryMarker
  BY DEF FindAxisBoundaryMarker, AxisAttributes, OnAxis, Tagged
<1>9. EssentialMarker' = EssentialMarker
  BY <1>2, <1>3, <1>8 DEF EssentialMarker, DirichletMarker, Dirichlet
<1> QED BY <1>2, <1>3, <1>6, <1>7, <1>8, <1>9

\* The verdicts, too.
LEMMA VerdictFixed ==
  ASSUME UNCHANGED model
  PROVE  /\ Problems' = Problems
         /\ \A mode, drive, d : Projected(mode, drive, d)' = Projected(mode, drive, d)
         /\ \A k : ChargeRow(k)' = ChargeRow(k)
<1>1. \A i, d : PinnedBy(i, d)' = PinnedBy(i, d)
  BY ModelFixed DEF PinnedBy, Dirichlet
<1>2. ValuesConflict' = ValuesConflict
  BY ModelFixed, <1>1 DEF ValuesConflict, Apart
<1>3. AttributeClaimedTwice' = AttributeClaimedTwice
  BY ModelFixed DEF AttributeClaimedTwice
<1>4. TerminalsOverlap' = TerminalsOverlap
  <2>1. DirichletMarker' = DirichletMarker
    BY ModelFixed DEF DirichletMarker, Dirichlet
  <2> QED BY ModelFixed, <2>1 DEF TerminalsOverlap
<1>5. \A d : TerminalsAt(d)' = TerminalsAt(d)
  BY ModelFixed DEF TerminalsAt
<1>6. \A mode, d : FixedAt(mode, d)' = FixedAt(mode, d)
  BY ModelFixed, <1>1 DEF FixedAt, NonzeroDirichlet, Dirichlet
<1>7. \A mode, drive, d : Projected(mode, drive, d)' = Projected(mode, drive, d)
  <2> TAKE mode, drive, d
  <2>1. TerminalsAt(d)' = TerminalsAt(d) /\ FixedAt(mode, d)' = FixedAt(mode, d)
    BY <1>5, <1>6
  <2>2. LastOf(TerminalsAt(d))' = LastOf(TerminalsAt(d))
    BY <2>1 DEF LastOf
  <2>3. LastOf(FixedAt(mode, d))' = LastOf(FixedAt(mode, d))
    BY <2>1 DEF LastOf
  <2> QED BY ModelFixed, <2>1, <2>2, <2>3 DEF Projected
<1>8. \A k : ChargeRow(k)' = ChargeRow(k)
  BY ModelFixed DEF ChargeRow
<1> QED BY <1>2, <1>3, <1>4, <1>7, <1>8 DEF Problems

-----------------------------------------------------------------------------
(* What the model, the markers and the checks say by themselves.              *)

LEMMA ModelTypes ==
  ASSUME model \in Models
  PROVE  /\ Len(model.conditions) \in Nat /\ DOMAIN Conditions = 1..Len(model.conditions)
         /\ \A i \in DOMAIN Conditions : Conditions[i].value \in Int
         /\ Names \subseteq Nat
         /\ ~Electrostatic => Names = {}
<1> DEFINE C == [type : {"dirichlet", "neumann", "robin"},
                 marker : SUBSET Nat, value : Int, coeff : Int]
<1>1. model.conditions \in Seq(C) /\ model.terminals \in Seq(SUBSET Nat)
  BY ModelAssumption
<1>2. Len(model.conditions) \in Nat /\ DOMAIN model.conditions = 1..Len(model.conditions)
  BY <1>1
<1>3. \A i \in DOMAIN model.conditions : model.conditions[i] \in C
  BY <1>1, <1>2, ElementOfSeq
<1>4. \A i \in DOMAIN Conditions : Conditions[i].value = model.conditions[i].value
  BY <1>3 DEF Conditions
<1>5. Len(model.terminals) \in Nat /\ DOMAIN model.terminals = 1..Len(model.terminals)
  BY <1>1
<1>6. Names \subseteq Nat
  BY <1>5 DEF Names, Terminals
<1>7. ~Electrostatic => Names = {}
  <2> SUFFICES ASSUME ~Electrostatic PROVE Names = {}
    OBVIOUS
  <2>1. model.terminals = <<>>
    BY ModelAssumption DEF Electrostatic
  <2> QED BY <2>1 DEF Names, Terminals
<1> QED BY <1>2, <1>3, <1>4, <1>6, <1>7 DEF Conditions

\* A marker that selects more attributes has more degrees of freedom.
LEMMA MarkerMonotone ==
  ASSUME NEW m, NEW n, m \subseteq n
  PROVE  MarkerDofs(m) \subseteq MarkerDofs(n)
  BY DEF MarkerDofs, Tagged

\* Every edge has at least the degree of freedom of one of its vertices.
LEMMA EdgesHaveDofs ==
  ASSUME model \in Models, NEW e \in Edges
  PROVE  DofsOn(e) # {}
<1>1. PICK v \in e : TRUE
  BY ModelAssumption
<1>2. Cardinality({v}) = 1 /\ model.order \in Nat \ {0}
  BY FS_Singleton, ModelAssumption
<1>3. {v} \in DofsOn(e)
  BY <1>1, <1>2 DEF DofsOn
<1> QED BY <1>3

LEMMA MarkerDofsExist ==
  ASSUME NEW m PROVE MarkerDofs(m) \subseteq Dofs
  BY DEF MarkerDofs, Tagged, Dofs

\* Checked terminals share nothing with each other or with a Dirichlet boundary.
LEMMA TerminalsApart ==
  ASSUME ~TerminalsOverlap, NEW k \in Names, NEW d \in MarkerDofs(Terminals[k])
  PROVE  /\ TerminalsAt(d) = {k}
         /\ \A i \in DOMAIN Conditions : ~PinnedBy(i, d)
<1>1. TerminalsAt(d) = {k}
  BY DEF TerminalsOverlap, TerminalsAt
<1>2. ASSUME NEW i \in DOMAIN Conditions, PinnedBy(i, d)
      PROVE  FALSE
  <2>1. Conditions[i].marker \subseteq DirichletMarker
    BY <1>2 DEF PinnedBy, DirichletMarker
  <2>2. d \in MarkerDofs(DirichletMarker)
    BY <1>2, <2>1, MarkerMonotone DEF PinnedBy
  <2> QED BY <2>2 DEF TerminalsOverlap
<1> QED BY <1>1, <1>2

\* So what is imprinted on a terminal is its voltage.
LEMMA TerminalValue ==
  ASSUME model \in Models, ~TerminalsOverlap,
         NEW k \in Names, NEW d \in MarkerDofs(Terminals[k]), NEW mode, NEW drive
  PROVE  Projected(mode, drive, d) = drive[k]
<1>1. TerminalsAt(d) = {k}
  BY TerminalsApart
<1>2. Names \subseteq Nat
  BY ModelTypes
<1>3. k \in Nat /\ LastOf({k}) = k
  BY <1>2 DEF LastOf
<1> QED BY <1>1, <1>3 DEF Projected

Less == {ss \in Nat \X Nat : ss[1] < ss[2]}

\* A nonempty set of indices has a first and a last one.
LEMMA FirstAndLast ==
  ASSUME NEW n \in Nat, NEW S \in SUBSET (1..n), S # {}
  PROVE  /\ LastOf(S) \in S
         /\ \E first \in S : \A j \in S : first <= j
<1>1. \A T \in SUBSET Nat : T # {} => \E min \in T : \A j \in T : min <= j
  <2> TAKE T \in SUBSET Nat
  <2> HAVE T # {}
  <2>1. Less = OpToRel(<, Nat)
    BY Zenon DEF OpToRel, Less
  <2>2. IsWellFoundedOn(Less, Nat)
    BY <2>1, NatLessThanWellFounded, Zenon
  <2>3. PICK min \in T : \A j \in T : ~(<<j, min>> \in Less)
    BY <2>2, WFMin
  <2>4. \A p, q \in Nat : <<p, q>> \in Less <=> p < q
    BY DEF Less
  <2>5. \A j \in T : min <= j
    <3> TAKE j \in T
    <3>1. j \in Nat /\ min \in Nat
      OBVIOUS
    <3>2. ~(j < min)
      BY <2>3, <2>4, <3>1
    <3> QED BY <3>1, <3>2
  <2> QED BY <2>5
<1>2. \E first \in S : \A j \in S : first <= j
  BY <1>1
<1>3. PICK far \in {n - i : i \in S} : \A j \in {n - i : i \in S} : far <= j
  <2>1. {n - i : i \in S} \subseteq Nat /\ {n - i : i \in S} # {}
    <3>1. \A i \in S : n - i \in Nat
      OBVIOUS
    <3> QED BY <3>1
  <2> QED BY <1>1, <2>1
<1>4. PICK last \in S : far = n - last
  BY <1>3
<1>5. \A j \in S : j <= last
  <2> TAKE j \in S
  <2>1. n - last <= n - j
    BY <1>3, <1>4
  <2> QED BY <2>1
<1>6. LastOf(S) \in S
  BY <1>4, <1>5 DEF LastOf
<1> QED BY <1>2, <1>6

LEMMA AxisDofsExist ==
  ASSUME model \in Models PROVE AxisTrueDofs \subseteq Dofs
<1>1. ASSUME NEW v \in model.onAxis PROVE {v} \in Dofs
  <2>1. PICK e \in Edges : v \in e
    BY <1>1, ModelAssumption
  <2>2. Cardinality({v}) = 1 /\ model.order \in Nat \ {0}
    BY FS_Singleton, ModelAssumption
  <2> QED BY <2>1, <2>2 DEF Dofs, DofsOn
<1> QED BY <1>1, MarkerDofsExist DEF AxisTrueDofs

\* The essential degrees of freedom are degrees of freedom, and hold every terminal,
\* every prescribed value and every vertex on the axis.
LEMMA EssentialsHold ==
  ASSUME model \in Models, Essentials, pc \in BuiltPcs
  PROVE  /\ essDofs \subseteq Dofs
         /\ Electrostatic => \A k \in Names : MarkerDofs(Terminals[k]) \subseteq essDofs
         /\ \A i \in DOMAIN Conditions : \A d : PinnedBy(i, d) => d \in essDofs
         /\ AxisTrueDofs \subseteq essDofs
<1>1. essDofs = MarkerDofs(essBdr) \cup AxisTrueDofs /\ essBdr = EssentialMarker
  BY DEF Essentials
<1>2. \A k \in Names : Electrostatic => MarkerDofs(Terminals[k]) \subseteq essDofs
  <2> SUFFICES ASSUME NEW k \in Names, Electrostatic
               PROVE  MarkerDofs(Terminals[k]) \subseteq essDofs
    OBVIOUS
  <2>1. Terminals[k] \subseteq essBdr
    BY <1>1 DEF EssentialMarker
  <2> QED BY <1>1, <2>1, MarkerMonotone
<1>3. ASSUME NEW i \in DOMAIN Conditions, NEW d, PinnedBy(i, d)
      PROVE  d \in essDofs
  <2>1. Conditions[i].marker \subseteq DirichletMarker
    BY <1>3 DEF PinnedBy, DirichletMarker
  <2>2. Conditions[i].marker \subseteq essBdr
    BY <1>1, <2>1 DEF EssentialMarker
  <2> QED BY <1>1, <1>3, <2>2, MarkerMonotone DEF PinnedBy
<1> QED BY <1>1, <1>2, <1>3, MarkerDofsExist, AxisDofsExist

-----------------------------------------------------------------------------
(* The invariant.                                                            *)

LEMMA InvInit == EInit => EInv
  BY DEF EInit, EInv, Accepted, BuiltPcs

LEMMA AxisDofsFixed ==
  ASSUME UNCHANGED <<model, axis>>
  PROVE  AxisTrueDofs' = AxisTrueDofs
<1>1. MarkerDofs(axis)' = MarkerDofs(axis)
  BY DEF MarkerDofs, Tagged, DofsOn
<1> QED BY <1>1 DEF AxisTrueDofs, Electrostatic

\* A step that leaves what Setup made alone keeps what the invariant says of it.
LEMMA SetupFixed ==
  ASSUME UNCHANGED <<model, essBdr, axis, essDofs>>
  PROVE  /\ essDofs = MarkerDofs(essBdr) \cup AxisTrueDofs =>
              essDofs' = MarkerDofs(essBdr)' \cup AxisTrueDofs'
         /\ AxisClear' = AxisClear
         /\ AxisTrueDofs' = AxisTrueDofs
<1>1. AxisTrueDofs' = AxisTrueDofs
  BY AxisDofsFixed
<1>2. AxisClear' = AxisClear
  BY <1>1, ModelFixed DEF AxisClear, NonzeroDirichlet, Dirichlet
<1> QED BY <1>1, <1>2, ModelFixed

LEMMA EssentialsFixed ==
  ASSUME UNCHANGED <<model, essBdr, axis, essDofs>>, Essentials,
         pc' \in BuiltPcs => pc \in BuiltPcs
  PROVE  Essentials'
  BY ModelFixed, SetupFixed DEF Essentials

LEMMA GatheredFixed ==
  ASSUME UNCHANGED <<model, essDofs, matrix>>, Gathered
  PROVE  Gathered'
<1>1. Names' = Names /\ \A k : ChargeRow(k)' = ChargeRow(k)
  BY ModelFixed, VerdictFixed
<1>2. ASSUME NEW k \in Names, NEW l \in Names, <<k, l>> \in DOMAIN matrix
      PROVE  /\ matrix'[<<k, l>>].summed = ChargeRow(k)'
             /\ matrix'[<<k, l>>].held = ChargeRow(l)'
             /\ matrix'[<<k, l>>].grounded = essDofs' \ ChargeRow(l)'
  BY <1>1, <1>2 DEF Gathered
<1> QED BY <1>1, <1>2 DEF Gathered

\* What GatherChargeColumn finds on the terminals after a coupling column's solve.
LEMMA ColumnSolved ==
  ASSUME EInv, pc = "solved", scenario.mode = "coupling"
  PROVE  /\ col \in Names
         /\ {d \in essDofs : x[d] = 1} = ChargeRow(col)
         /\ {d \in essDofs : x[d] = 0} = essDofs \ ChargeRow(col)
<1>1. Imprinted /\ Essentials /\ ~Problems /\ model \in Models
  BY DEF EInv, BuiltPcs, Accepted
<1>2. scenario.drive = UnitDrive /\ col \in Names
  BY <1>1 DEF Imprinted
<1>3. ChargeRow(col) \subseteq essDofs
  BY <1>1, <1>2, EssentialsHold, ModelTypes DEF BuiltPcs, ChargeRow
<1>4. \A d : FixedAt("coupling", d) = {}
  BY DEF FixedAt
<1>5. ASSUME NEW d \in essDofs
      PROVE  x[d] = IF d \in ChargeRow(col) THEN 1 ELSE 0
  <2>1. x[d] = Projected("coupling", UnitDrive, d)
    BY <1>1, <1>2 DEF Imprinted
  <2>2. CASE TerminalsAt(d) = {}
    BY <1>2, <1>4, <2>1, <2>2 DEF Projected, TerminalsAt, ChargeRow
  <2>3. CASE TerminalsAt(d) # {}
    <3>1. PICK k \in Names : d \in MarkerDofs(Terminals[k])
      BY <2>3 DEF TerminalsAt
    <3>2. x[d] = UnitDrive[k]
      BY <1>1, <2>1, <3>1, TerminalValue DEF Problems
    <3>3. d \in ChargeRow(col) <=> k = col
      BY <1>1, <1>2, <3>1 DEF Problems, TerminalsOverlap, ChargeRow
    <3> QED BY <3>2, <3>3 DEF UnitDrive
  <2> QED BY <2>2, <2>3
<1> QED BY <1>2, <1>3, <1>5

\* Each action preserves the invariant.
LEMMA InvNext == EInv /\ [ENext]_evars => EInv'
<1> SUFFICES ASSUME EInv, [ENext]_evars PROVE EInv'
  OBVIOUS
<1>1. CASE BuildBoundaryConditions
  BY <1>1 DEF BuildBoundaryConditions, Rejected, EInv, Accepted, BuiltPcs
<1>2. CASE BuildEssentialBoundaryMarker
  <2>1. model' \in Models /\ matrix' = <<>> /\ pc' \in {"marked", "rejected"}
    BY <1>2 DEF BuildEssentialBoundaryMarker, Rejected, EInv, Accepted
  <2>2. pc' = "marked" => Essentials'
    BY <1>2, ModelFixed DEF BuildEssentialBoundaryMarker, Rejected, Essentials, BuiltPcs
  <2> QED BY <2>1, <2>2 DEF EInv, Accepted, BuiltPcs
<1>3. CASE RequireReferencePotential
  <2>1. UNCHANGED <<model, essBdr, axis, essDofs>> /\ Essentials
    BY <1>3 DEF RequireReferencePotential, EInv
  <2>2. matrix' = <<>> /\ pc' \in {"referenced", "rejected"} /\ model' \in Models
    BY <1>3 DEF RequireReferencePotential, Rejected, EInv, Accepted
  <2>3. Essentials'
    BY <2>1, <2>2, EssentialsFixed DEF BuiltPcs
  <2> QED BY <2>2, <2>3 DEF EInv, Accepted, BuiltPcs
<1>4. CASE BuildOperators
  <2>1. UNCHANGED <<model, essBdr, axis, matrix>> /\ Essentials /\ pc = "referenced"
    BY <1>4 DEF BuildOperators, EInv
  <2>2. AxisTrueDofs' = AxisTrueDofs
    BY <2>1, AxisDofsFixed
  <2>3. MarkerDofs(essBdr)' = MarkerDofs(essBdr)
    BY <2>1 DEF MarkerDofs, Tagged, DofsOn
  <2>4. essDofs' = MarkerDofs(essBdr)' \cup AxisTrueDofs'
    BY <1>4, <2>2, <2>3 DEF BuildOperators
  <2>5. Electrostatic' = Electrostatic
    BY <2>1 DEF Electrostatic
  <2>6. Essentials'
    BY <2>1, <2>4, <2>5, ModelFixed DEF Essentials
  <2>7. AxisClear' \/ pc' = "built"
    BY <1>4, <2>5 DEF BuildOperators, AxisClear
  <2>8. matrix' = <<>> /\ pc' \in {"axis checked", "built"} /\ model' \in Models
    BY <1>4 DEF BuildOperators, EInv, Accepted
  <2> QED BY <2>6, <2>7, <2>8 DEF EInv, Accepted, BuiltPcs
<1>5. CASE ValidateMagneticAxisBoundaryValues
  <2>1. UNCHANGED <<model, essBdr, axis, essDofs>> /\ Essentials /\ pc \in BuiltPcs
    BY <1>5 DEF ValidateMagneticAxisBoundaryValues, EInv, BuiltPcs
  <2>2. matrix' = <<>> /\ pc' \in {"axis checked", "rejected"} /\ model' \in Models
    BY <1>5 DEF ValidateMagneticAxisBoundaryValues, Rejected, EInv, Accepted
  <2>3. pc' = "axis checked" => AxisClear
    BY <1>5 DEF ValidateMagneticAxisBoundaryValues, Rejected, AxisClear
  <2>4. Essentials' /\ (pc' = "axis checked" => AxisClear')
    BY <2>1, <2>3, EssentialsFixed, SetupFixed
  <2> QED BY <2>2, <2>4 DEF EInv, Accepted, BuiltPcs
<1>6. CASE ValidateBoundaryConditions
  <2>1. /\ UNCHANGED <<model, essBdr, axis, essDofs, matrix>> /\ Essentials
        /\ pc \in BuiltPcs /\ AxisClear /\ matrix = <<>>
    BY <1>6 DEF ValidateBoundaryConditions, EInv, BuiltPcs, Accepted
  <2>2. pc' \in {"ready", "rejected"} /\ (pc' = "ready" => ~Problems)
    BY <1>6 DEF ValidateBoundaryConditions, Rejected
  <2>3. Essentials' /\ AxisClear' /\ Problems' = Problems
    BY <2>1, EssentialsFixed, SetupFixed, VerdictFixed
  <2>4. Gathered'
    BY <2>1 DEF Gathered
  <2> QED BY <2>1, <2>2, <2>3, <2>4 DEF EInv, Accepted, BuiltPcs
<1>7. CASE \/ ImprintScenario
           \/ ImprintColumn
  <2>1. /\ UNCHANGED <<model, essBdr, axis, essDofs, col, matrix>> /\ Essentials
        /\ pc \in BuiltPcs /\ AxisClear /\ ~Problems /\ Gathered /\ model \in Models
    BY <1>7 DEF ImprintScenario, ImprintColumn, EInv, BuiltPcs, Accepted
  <2>2. Essentials' /\ AxisClear' /\ ~Problems' /\ Gathered'
    BY <2>1, EssentialsFixed, SetupFixed, VerdictFixed, GatheredFixed
  <2>3. pc' = "imprinted"
    BY <1>7 DEF ImprintScenario, ImprintColumn
  <2>4. essDofs \subseteq Dofs
    BY <2>1, EssentialsHold
  <2>5. Imprinted'
    <3>1. CASE ImprintScenario
      <4>1. PICK drive \in [Names -> Drives] : Imprint("field", drive)
        BY <3>1 DEF ImprintScenario
      <4>2. scenario'.mode = "field" /\ scenario'.drive = drive
        BY <4>1 DEF Imprint
      <4>3. \A d \in essDofs : x'[d] = Projected("field", drive, d)
        BY <2>4, <4>1 DEF Imprint
      <4> QED BY <2>1, <4>2, <4>3, ModelFixed, VerdictFixed DEF Imprinted
    <3>2. CASE ImprintColumn
      <4>1. Imprint("coupling", UnitDrive) /\ col \in Names
        BY <3>2 DEF ImprintColumn, UnitDrive
      <4>2. scenario'.mode = "coupling" /\ scenario'.drive = UnitDrive
        BY <4>1 DEF Imprint
      <4>3. \A d \in essDofs : x'[d] = Projected("coupling", UnitDrive, d)
        BY <2>4, <4>1 DEF Imprint
      <4>4. UnitDrive' = UnitDrive
        BY <2>1, ModelFixed DEF UnitDrive
      <4> QED BY <2>1, <4>1, <4>2, <4>3, <4>4, ModelFixed, VerdictFixed DEF Imprinted
    <3> QED BY <1>7, <3>1, <3>2
  <2> QED BY <2>1, <2>2, <2>3, <2>5 DEF EInv, Accepted, BuiltPcs
<1>8. CASE SolveSystem
  <2>1. /\ UNCHANGED <<model, essBdr, axis, essDofs, scenario, col, matrix>> /\ Essentials
        /\ pc \in BuiltPcs /\ AxisClear /\ ~Problems /\ Gathered /\ model \in Models
        /\ Imprinted
    BY <1>8 DEF SolveSystem, EInv, BuiltPcs, Accepted
  <2>2. Essentials' /\ AxisClear' /\ ~Problems' /\ Gathered'
    BY <2>1, EssentialsFixed, SetupFixed, VerdictFixed, GatheredFixed
  <2>3. essDofs \subseteq Dofs
    BY <2>1, EssentialsHold
  <2>4. \A d \in essDofs : x'[d] = x[d]
    BY <1>8, <2>3 DEF SolveSystem
  <2>5. Names' = Names /\ UnitDrive' = UnitDrive
    BY <2>1, ModelFixed DEF UnitDrive
  <2>6. Imprinted'
    BY <2>1, <2>4, <2>5, VerdictFixed DEF Imprinted
  <2> QED BY <1>8, <2>1, <2>2, <2>6 DEF SolveSystem, EInv, Accepted, BuiltPcs
<1>9. CASE GatherChargeColumn
  <2>1. /\ UNCHANGED <<model, essBdr, axis, essDofs, x, scenario>> /\ Essentials
        /\ pc \in BuiltPcs /\ AxisClear /\ ~Problems /\ Gathered /\ model \in Models
    BY <1>9 DEF GatherChargeColumn, EInv, BuiltPcs, Accepted
  <2>2. Essentials' /\ AxisClear' /\ ~Problems'
    BY <2>1, EssentialsFixed, SetupFixed, VerdictFixed
  <2>3. pc' = "column"
    BY <1>9 DEF GatherChargeColumn
  <2>4. /\ {d \in essDofs : x[d] = 1} = ChargeRow(col)
        /\ {d \in essDofs : x[d] = 0} = essDofs \ ChargeRow(col)
    BY <1>9, ColumnSolved DEF GatherChargeColumn
  <2>5. ASSUME NEW k \in Names, NEW l \in Names, <<k, l>> \in DOMAIN matrix'
        PROVE  /\ matrix'[<<k, l>>].summed = ChargeRow(k)
               /\ matrix'[<<k, l>>].held = ChargeRow(l)
               /\ matrix'[<<k, l>>].grounded = essDofs \ ChargeRow(l)
    <3>1. CASE l = col
      BY <1>9, <2>4, <2>5, <3>1 DEF GatherChargeColumn
    <3>2. CASE l # col
      <4>1. <<k, l>> \in DOMAIN matrix /\ matrix'[<<k, l>>] = matrix[<<k, l>>]
        BY <1>9, <2>5, <3>2 DEF GatherChargeColumn
      <4> QED BY <2>1, <4>1 DEF Gathered
    <3> QED BY <3>1, <3>2
  <2>6. Gathered'
    <3>1. Names' = Names /\ \A k : ChargeRow(k)' = ChargeRow(k)
      BY <2>1, ModelFixed, VerdictFixed
    <3>2. ASSUME NEW k \in Names, NEW l \in Names, <<k, l>> \in DOMAIN matrix'
          PROVE  /\ matrix'[<<k, l>>].summed = ChargeRow(k)'
                 /\ matrix'[<<k, l>>].held = ChargeRow(l)'
                 /\ matrix'[<<k, l>>].grounded = essDofs' \ ChargeRow(l)'
      BY <2>1, <2>5, <3>1, <3>2
    <3> QED BY <3>1, <3>2 DEF Gathered
  <2> QED BY <2>1, <2>2, <2>3, <2>6 DEF EInv, Accepted, BuiltPcs
<1>10. CASE UNCHANGED evars
  <2>1. /\ UNCHANGED <<model, essBdr, axis, essDofs, x, scenario, col, matrix, pc>>
    BY <1>10 DEF evars
  <2>2. /\ Essentials => Essentials'
        /\ AxisClear' = AxisClear /\ Problems' = Problems /\ (Gathered => Gathered')
    BY <2>1, EssentialsFixed, SetupFixed, VerdictFixed, GatheredFixed
  <2>3. Names' = Names /\ UnitDrive' = UnitDrive
    BY <2>1, ModelFixed DEF UnitDrive
  <2>4. Imprinted => Imprinted'
    BY <2>1, <2>3, VerdictFixed DEF Imprinted
  <2> QED BY <2>1, <2>2, <2>4 DEF EInv, Accepted, BuiltPcs
<1> QED BY <1>1, <1>2, <1>3, <1>4, <1>5, <1>6, <1>7, <1>8, <1>9, <1>10 DEF ENext

LEMMA Invariance == ESpec => []EInv
  BY InvInit, InvNext, PTL DEF ESpec

-----------------------------------------------------------------------------
(* The properties.                                                           *)

\* Setup accepts a model only if every boundary element has one role (boundary
\* conditions and terminals of ValidateBoundaryConditions), on every mesh.
THEOREM RolesAreUnique == ESpec => []OneOwner
<1>1. EInv => OneOwner
  <2> SUFFICES ASSUME EInv, Accepted, NEW e \in Edges
               PROVE  /\ \A i, j \in DOMAIN Conditions :
                           e \in Tagged(Conditions[i].marker) /\ e \in Tagged(Conditions[j].marker)
                             => i = j
                      /\ \A k, l \in Names :
                           e \in Tagged(Terminals[k]) /\ e \in Tagged(Terminals[l]) => k = l
                      /\ \A i \in DOMAIN Conditions, k \in Names :
                           ~(e \in Tagged(Conditions[i].marker) /\ e \in Tagged(Terminals[k]))
    BY DEF OneOwner
  <2>1. ~AttributeClaimedTwice /\ ~TerminalsOverlap /\ model \in Models
    BY DEF EInv, Problems
  <2>2. \A m : e \in Tagged(m) <=> model.tag[e] \in m
    BY DEF Tagged
  <2>3. ASSUME NEW i \in DOMAIN Conditions, NEW j \in DOMAIN Conditions, i # j,
               e \in Tagged(Conditions[i].marker), e \in Tagged(Conditions[j].marker)
        PROVE  FALSE
    <3>1. i \in Int /\ j \in Int /\ (i < j \/ j < i)
      BY <2>1, <2>3, ModelTypes
    <3>2. model.tag[e] \in Conditions[i].marker \cap Conditions[j].marker
      BY <2>2, <2>3
    <3> QED BY <2>1, <3>1, <3>2 DEF AttributeClaimedTwice
  <2>4. ASSUME NEW k \in Names, NEW l \in Names, k # l,
               e \in Tagged(Terminals[k]), e \in Tagged(Terminals[l])
        PROVE  FALSE
    <3>1. PICK d : d \in DofsOn(e)
      BY <2>1, EdgesHaveDofs
    <3>2. d \in MarkerDofs(Terminals[k]) /\ d \in MarkerDofs(Terminals[l])
      BY <2>4, <3>1 DEF MarkerDofs
    <3> QED BY <2>1, <2>4, <3>2 DEF TerminalsOverlap
  <2>5. ASSUME NEW i \in DOMAIN Conditions, NEW k \in Names,
               e \in Tagged(Conditions[i].marker), e \in Tagged(Terminals[k])
        PROVE  FALSE
    BY <2>1, <2>2, <2>5 DEF AttributeClaimedTwice
  <2>6. \A i, j \in DOMAIN Conditions :
          e \in Tagged(Conditions[i].marker) /\ e \in Tagged(Conditions[j].marker) => i = j
    BY <2>3
  <2>7. \A k, l \in Names : e \in Tagged(Terminals[k]) /\ e \in Tagged(Terminals[l]) => k = l
    BY <2>4
  <2>8. \A i \in DOMAIN Conditions, k \in Names :
          ~(e \in Tagged(Conditions[i].marker) /\ e \in Tagged(Terminals[k]))
    BY <2>5
  <2> QED BY <2>6, <2>7, <2>8
<1> QED BY Invariance, <1>1, PTL

\* Every row of the capacitance matrix sums the charge where its own column holds one
\* volt, and every column grounds the rest, for any number of terminals.
THEOREM CapacitanceIsReciprocal == ESpec => []ColumnsDriveRows
<1>1. EInv => ColumnsDriveRows
  <2> SUFFICES ASSUME EInv, NEW k \in Names, NEW l \in Names,
                      <<k, l>> \in DOMAIN matrix, <<l, k>> \in DOMAIN matrix
               PROVE  /\ matrix[<<k, l>>].summed = matrix[<<l, k>>].held
                      /\ matrix[<<k, l>>].grounded = essDofs \ matrix[<<k, l>>].held
    BY DEF ColumnsDriveRows
  <2>1. Gathered
    BY DEF EInv
  <2> QED BY <2>1 DEF Gathered
<1> QED BY Invariance, <1>1, PTL

\* What SolveSystem leaves at the essential degrees of freedom is what the last
\* imprint put there; on the axis nothing but zero was imprinted.
THEOREM RegularOnTheAxis == ESpec => []AxisVerticesVanish
<1>1. EInv => AxisVerticesVanish
  <2> SUFFICES ASSUME EInv, pc = "solved", ~Electrostatic, NEW v \in model.onAxis
               PROVE  x[{v}] = 0
    BY DEF AxisVerticesVanish
  <2>1. Imprinted /\ Essentials /\ AxisClear /\ model \in Models
    BY DEF EInv, BuiltPcs
  <2>2. {v} \in AxisTrueDofs
    BY DEF AxisTrueDofs
  <2>3. x[{v}] = Projected(scenario.mode, scenario.drive, {v})
    BY <2>1, <2>2, EssentialsHold DEF BuiltPcs, Imprinted
  <2>4. TerminalsAt({v}) = {}
    BY <2>1, ModelTypes DEF TerminalsAt
  <2>5. FixedAt(scenario.mode, {v}) = {}
    BY <2>1, <2>2 DEF FixedAt, PinnedBy, AxisClear
  <2> QED BY <2>3, <2>4, <2>5 DEF Projected
<1> QED BY Invariance, <1>1, PTL

\* The solution of a field scenario has each terminal's voltage on the whole terminal
\* and each prescribed value on its boundary to within two tolerances: every value at
\* a shared degree of freedom was compared with the first condition's there.
THEOREM ImprintIsAsConfigured == ESpec => []PinnedAsConfigured
<1>1. EInv => PinnedAsConfigured
  <2> SUFFICES ASSUME EInv, pc = "solved", scenario.mode = "field"
               PROVE  /\ \A k \in Names : \A d \in MarkerDofs(Terminals[k]) :
                           x[d] = scenario.drive[k]
                      /\ \A i \in DOMAIN Conditions : \A d \in MarkerDofs(Conditions[i].marker) :
                           Dirichlet(Conditions[i]) =>
                             x[d] - Conditions[i].value \in (-2 * Tolerance)..(2 * Tolerance)
    BY DEF PinnedAsConfigured
  <2>1. Imprinted /\ Essentials /\ ~Problems /\ model \in Models
    BY DEF EInv, BuiltPcs, Accepted
  <2>2. ASSUME NEW k \in Names, NEW d \in MarkerDofs(Terminals[k])
        PROVE  x[d] = scenario.drive[k]
    <3>1. d \in essDofs
      BY <2>1, EssentialsHold, ModelTypes DEF BuiltPcs
    <3> QED BY <2>1, <3>1, TerminalValue DEF Imprinted, Problems
  <2>3. ASSUME NEW i \in DOMAIN Conditions, NEW d \in MarkerDofs(Conditions[i].marker),
               Dirichlet(Conditions[i])
        PROVE  x[d] - Conditions[i].value \in (-2 * Tolerance)..(2 * Tolerance)
    <3> DEFINE n == Len(model.conditions)
               Pinning == {j \in DOMAIN Conditions : PinnedBy(j, d)}
    <3>1. n \in Nat /\ DOMAIN Conditions = 1..n
      BY <2>1, ModelTypes
    <3>2. \A j \in DOMAIN Conditions : Conditions[j].value \in Int
      BY <2>1, ModelTypes
    <3>3. i \in Pinning /\ Pinning \subseteq 1..n
      BY <2>3, <3>1 DEF PinnedBy
    <3>4. PICK first \in Pinning : \A j \in Pinning : first <= j
      BY <3>1, <3>3, FirstAndLast
    <3>5. d \in Dofs
      BY MarkerDofsExist
    <3>6. \A j \in Pinning : ~Apart(Conditions[j].value, Conditions[first].value)
      BY <2>1, <3>4, <3>5 DEF Problems, ValuesConflict
    <3>7. \A j \in Pinning :
            Conditions[i].value - Conditions[j].value \in (-2 * Tolerance)..(2 * Tolerance)
      <4>1. Tolerance \in Nat
        BY ModelAssumption
      <4>2. \A u, v, w \in Int : ~Apart(u, w) /\ ~Apart(v, w) =>
              u - v \in (-2 * Tolerance)..(2 * Tolerance)
        BY <4>1 DEF Apart
      <4>3. \A j \in Pinning : Conditions[j].value \in Int /\ Conditions[first].value \in Int
        BY <3>2, <3>4
      <4> HIDE DEF Pinning
      <4> QED BY <3>3, <3>6, <4>2, <4>3
    <3>8. x[d] = Projected("field", scenario.drive, d)
      BY <2>1, <3>3, EssentialsHold DEF BuiltPcs, Imprinted
    <3>9. TerminalsAt(d) = {}
      BY <2>1, <3>3, TerminalsApart DEF Problems, TerminalsAt
    <3>10. CASE FixedAt("field", d) = {}
      <4>1. x[d] = 0
        BY <3>8, <3>9, <3>10 DEF Projected
      <4>2. Conditions[i].value = 0
        BY <2>3, <3>3, <3>10 DEF FixedAt, NonzeroDirichlet
      <4> QED BY <4>1, <4>2, ModelAssumption
    <3>11. CASE FixedAt("field", d) # {}
      <4>1. FixedAt("field", d) \subseteq Pinning
        BY DEF FixedAt
      <4>2. LastOf(FixedAt("field", d)) \in Pinning
        BY <3>1, <3>3, <3>11, <4>1, FirstAndLast
      <4>3. x[d] = Conditions[LastOf(FixedAt("field", d))].value
        BY <3>8, <3>9, <3>11 DEF Projected
      <4> DEFINE l == LastOf(FixedAt("field", d))
      <4>4. x[d] \in Int /\ Conditions[i].value \in Int
        BY <3>2, <4>2, <4>3
      <4>5. Conditions[i].value - x[d] \in (-2 * Tolerance)..(2 * Tolerance)
        BY <3>7, <4>2, <4>3
      <4> QED BY <4>4, <4>5, ModelAssumption
    <3> QED BY <3>10, <3>11
  <2> QED BY <2>2, <2>3
<1> QED BY Invariance, <1>1, PTL

-----------------------------------------------------------------------------
(* ConductorPath: the sides the search gives to the elements near a cut.     *)

\* An internal face joins two different elements of the mesh, which have its degrees
\* of freedom.
LEMMA InternalFace ==
  ASSUME CasesAssumption, MeshesAssumption, case \in Cases,
         NEW f \in MeshFaces, Len(grid.faces[f].elements) = 2
  PROVE  LET a == grid.faces[f].elements[1]
             b == grid.faces[f].elements[2]
         IN /\ ElementsOf(f) = {a, b} /\ a # b
            /\ a \in MeshElements /\ b \in MeshElements
            /\ Other(f, a) = b /\ Other(f, b) = a
            /\ grid.faces[f].dofs # {}
            /\ \A e \in ElementsOf(f) : grid.faces[f].dofs \subseteq DofsOf(e)
<1> DEFINE els == grid.faces[f].elements
           a == els[1]
           b == els[2]
<1>1. case.mesh \in DOMAIN PathMeshes
  BY DEF CasesAssumption
<1>2. /\ els \in Seq(MeshElements) /\ a # b /\ grid.faces[f].dofs # {}
      /\ \A e \in ToSet(els) : grid.faces[f].dofs \subseteq DofsOf(e)
  BY <1>1 DEF MeshesAssumption, grid, MeshFaces, MeshElements, DofsOf
<1>3. ElementsOf(f) = {a, b} /\ a \in MeshElements /\ b \in MeshElements
  <2>1. DOMAIN els = {1, 2}
    BY <1>2
  <2>2. ToSet(els) = {els[i] : i \in {1, 2}}
    BY <2>1 DEF ToSet
  <2> QED
    BY <1>2, <2>1, <2>2 DEF ElementsOf
<1>4. Other(f, a) = b /\ Other(f, b) = a
  <2> HIDE DEF a, b
  <2> QED
    BY <1>2, <1>3 DEF Other
<1> QED
  BY <1>2, <1>3, <1>4 DEF ElementsOf

\* What lies across a face of y from a near element lies across the same face of it.
LEMMA NearFace ==
  ASSUME CasesAssumption, MeshesAssumption, case \in Cases, NEW e, NEW f \in NearFaces(e)
  PROVE  /\ f \in MeshFaces /\ Other(f, e) \in near /\ e \in near /\ Other(f, e) # e
         /\ f \in NearFaces(Other(f, e)) /\ Other(f, Other(f, e)) = e
<1> DEFINE a == grid.faces[f].elements[1]
           b == grid.faces[f].elements[2]
<1>1. /\ f \in MeshFaces /\ Len(grid.faces[f].elements) = 2
      /\ e \in ElementsOf(f) /\ ElementsOf(f) \subseteq near
  BY DEF NearFaces
<1>2. /\ ElementsOf(f) = {a, b} /\ a # b
      /\ Other(f, a) = b /\ Other(f, b) = a
  BY <1>1, InternalFace
<1> HIDE DEF a, b
<1> QED
  BY <1>1, <1>2 DEF NearFaces

\* The faces of the cut lie inside the conductor, and the near elements are those that
\* touch one of them.
CutIsInside ==
  /\ case \in Cases /\ case.kind = "cut"
  /\ \A f \in cut : /\ f \in MeshFaces /\ Len(grid.faces[f].elements) = 2
                    /\ ElementsOf(f) \subseteq inside
  /\ near = Near(cut)

\* Across every face, the other element is on the side it should be.
Settled(e) == \A f \in NearFaces(e) : side[Other(f, e)] = Expected(f, e)

\* An element with a side is settled or in the queue.
SidesInv ==
  /\ side \in [near -> {-1, 0, 1}]
  /\ queue \in Seq(near)
  /\ \A e \in ToSet(queue) : side[e] # 0
  /\ \A e \in near : side[e] # 0 => e \in ToSet(queue) \/ Settled(e)

\* Every near element has a side and is settled, and those downstream are lifted.
LiftedInv ==
  /\ side \in [near -> {-1, 1}]
  /\ \A e \in near : Settled(e)
  /\ lifted = {e \in near : side[e] = 1}

CutInv ==
  /\ inside \subseteq MeshElements
  /\ case \in Cases
  /\ step \in {"start", "seed", "propagate", "lifted", "accepted", "rejected"}
  /\ step \in {"seed", "propagate", "lifted"} => CutIsInside
  /\ step = "accepted" /\ case.kind = "cut" => CutIsInside
  /\ step = "propagate" => SidesInv
  /\ step = "lifted" => LiftedInv
  /\ step = "accepted" /\ case.kind = "cut" => LiftedInv

LEMMA SeedInv ==
  ASSUME CasesAssumption, MeshesAssumption, CutInv, Seed PROVE CutInv'
<1>1. /\ case \in Cases /\ CutIsInside
      /\ UNCHANGED <<case, inside, cut, near, held, lifted, extent>>
  BY DEF CutInv, Seed
<1>2. CutIsInside'
  BY <1>1 DEF CutIsInside, grid, MeshFaces, ElementsOf, Near, DofsOf
<1>3. CASE step' = "rejected"
  BY <1>1, <1>3 DEF CutInv, MeshElements, grid
<1>4. ASSUME step' # "rejected" PROVE SidesInv' /\ step' = "propagate"
  <2>1. PICK f \in Squarest :
          LET e1 == grid.faces[f].elements[1] IN
          /\ side' = [e \in near |-> IF e # e1 THEN 0
                                     ELSE IF grid.faces[f].along > 0 THEN -1 ELSE 1]
          /\ queue' = <<e1>>
          /\ step' = "propagate"
    BY <1>4 DEF Seed, Reject
  <2> DEFINE e1 == grid.faces[f].elements[1]
  <2>2. e1 \in near
    <3>1. f \in cut /\ f \in MeshFaces /\ Len(grid.faces[f].elements) = 2
          /\ ElementsOf(f) \subseteq inside
      BY <1>1, <2>1 DEF Squarest, CutIsInside
    <3>2. /\ e1 \in ElementsOf(f) /\ grid.faces[f].dofs # {}
          /\ grid.faces[f].dofs \subseteq DofsOf(e1)
      BY <1>1, <3>1, InternalFace
    <3> QED
      BY <1>1, <3>1, <3>2 DEF CutIsInside, Near
  <2> HIDE DEF e1
  <2>3. /\ side' = [e \in near |-> IF e # e1 THEN 0
                                   ELSE IF grid.faces[f].along > 0 THEN -1 ELSE 1]
        /\ queue' = <<e1>> /\ step' = "propagate"
    BY <2>1 DEF e1
  <2>4. side' \in [near -> {-1, 0, 1}] /\ side'[e1] # 0
        /\ \A e \in near : e # e1 => side'[e] = 0
    BY <2>2, <2>3
  <2>5. queue' \in Seq(near) /\ ToSet(queue') = {e1}
    BY <2>2, <2>3 DEF ToSet
  <2> QED
    BY <1>1, <2>3, <2>4, <2>5 DEF SidesInv
<1>5. (inside \subseteq MeshElements)'
  BY <1>1 DEF CutInv, MeshElements, grid
<1> QED
  BY <1>1, <1>2, <1>3, <1>4, <1>5 DEF CutInv

\* The elements of a set of elements of the mesh, in the order of a loop over all.
LEMMA InOrderIsAll ==
  ASSUME NEW N \in Nat, NEW S \in SUBSET (1..N)
  PROVE  InOrder(S, N) \in Seq(S) /\ ToSet(InOrder(S, N)) = S
<1>1. /\ Len(InOrder(S, N)) = Passed(S, N)
      /\ \A t \in S : t <= N => /\ Passed(S, t) \in 1..Passed(S, N)
                                /\ InOrder(S, N)[Passed(S, t)] = t
      /\ \A p \in 1..Passed(S, N) : InOrder(S, N)[p] \in S
  <2>1. S \in SUBSET (Nat \ {0})
    OBVIOUS
  <2> QED
    BY <2>1, OrderIsCount
<1>2. InOrder(S, N) \in Seq(Nat) /\ DOMAIN InOrder(S, N) = 1..Passed(S, N)
  <2>1. InOrder(S, N) \in Seq(Nat)
    BY InOrderStep
  <2> QED
    BY <1>1, <2>1
<1>3. \A t \in S : \E p \in DOMAIN InOrder(S, N) : InOrder(S, N)[p] = t
  BY <1>1, <1>2
<1> HIDE DEF InOrder
<1>4. ToSet(InOrder(S, N)) = S
  BY <1>1, <1>2, <1>3 DEF ToSet
<1> QED
  BY <1>1, <1>2, <1>4, SeqDef

\* A queue whose last element is replaced by others.
LEMMA QueueReplaced ==
  ASSUME NEW S, NEW q \in Seq(S), q # <<>>, NEW r \in Seq(S)
  PROVE  /\ Last(q) \in ToSet(q) /\ Last(q) \in S
         /\ Front(q) \o r \in Seq(S)
         /\ ToSet(Front(q) \o r) \subseteq ToSet(q) \cup ToSet(r)
         /\ ToSet(q) \subseteq ToSet(Front(q) \o r) \cup {Last(q)}
         /\ ToSet(r) \subseteq ToSet(Front(q) \o r)
<1> DEFINE k == Len(q)
           p == Front(q) \o r
<1>1. k \in Nat \ {0} /\ DOMAIN q = 1..k /\ Last(q) = q[k] /\ Last(q) \in ToSet(q)
  BY DEF Last, ToSet
<1>2. Front(q) \in Seq(S) /\ Len(Front(q)) = k - 1 /\ \A i \in 1..(k - 1) : Front(q)[i] = q[i]
  BY <1>1 DEF Front
<1> HIDE DEF k
<1>3. /\ p \in Seq(S) /\ Len(p) = (k - 1) + Len(r)
      /\ \A i \in 1..Len(p) : p[i] = IF i <= k - 1 THEN q[i] ELSE r[i - (k - 1)]
  <2> DEFINE f == Front(q)
  <2>1. f \in Seq(S) /\ Len(f) = k - 1
    BY <1>2
  <2> HIDE DEF f
  <2>2. /\ f \o r \in Seq(S) /\ Len(f \o r) = Len(f) + Len(r)
        /\ \A i \in 1..Len(f \o r) : (f \o r)[i] = IF i <= Len(f) THEN f[i] ELSE r[i - Len(f)]
    <3>1. f \in Seq(S)
      BY <2>1
    <3>2. /\ f \o r \in Seq(S) /\ Len(f \o r) = Len(f) + Len(r)
          /\ \A i \in 1..(Len(f) + Len(r)) :
               (f \o r)[i] = IF i <= Len(f) THEN f[i] ELSE r[i - Len(f)]
      BY <3>1, ConcatProperties
    <3> QED BY <3>2, Zenon
  <2>3. p = f \o r
    BY DEF f
  <2>4. \A i \in 1..Len(p) : p[i] = IF i <= k - 1 THEN f[i] ELSE r[i - (k - 1)]
    BY <2>1, <2>2, <2>3
  <2>5. Len(r) \in Nat
    OBVIOUS
  <2> HIDE DEF p
  <2> QED
    BY <1>1, <1>2, <2>1, <2>2, <2>3, <2>4, <2>5 DEF f
<1> HIDE DEF p
<1>4. DOMAIN p = 1..((k - 1) + Len(r)) /\ Len(r) \in Nat /\ DOMAIN r = 1..Len(r)
  BY <1>3
<1>5. ToSet(p) \subseteq ToSet(q) \cup ToSet(r)
  <2> SUFFICES ASSUME NEW i \in 1..((k - 1) + Len(r)) PROVE p[i] \in ToSet(q) \cup ToSet(r)
    BY <1>4 DEF ToSet
  <2>1. CASE i <= k - 1
    BY <1>1, <1>3, <1>4, <2>1 DEF ToSet
  <2>2. CASE ~(i <= k - 1)
    <3>1. i - (k - 1) \in DOMAIN r /\ p[i] = r[i - (k - 1)]
      BY <1>1, <1>3, <1>4, <2>2
    <3> QED
      BY <3>1 DEF ToSet
  <2> QED
    BY <2>1, <2>2
<1>6. ToSet(q) \subseteq ToSet(p) \cup {Last(q)}
  <2> SUFFICES ASSUME NEW i \in 1..k, i # k PROVE q[i] \in ToSet(p)
    BY <1>1 DEF ToSet
  <2>1. i \in DOMAIN p /\ p[i] = q[i]
    BY <1>1, <1>3, <1>4
  <2> QED
    BY <2>1 DEF ToSet
<1>7. ToSet(r) \subseteq ToSet(p)
  <2> SUFFICES ASSUME NEW i \in 1..Len(r) PROVE r[i] \in ToSet(p)
    BY <1>4 DEF ToSet
  <2>1. (k - 1) + i \in DOMAIN p /\ p[(k - 1) + i] = r[i]
    BY <1>1, <1>3, <1>4
  <2> QED
    BY <2>1 DEF ToSet
<1>8. Last(q) \in S
  BY <1>1
<1> QED
  BY <1>1, <1>3, <1>5, <1>6, <1>7, <1>8 DEF p

\* Taking an element from the queue settles it, and disturbs nothing that was settled.
LEMMA PropagateInv ==
  ASSUME CasesAssumption, MeshesAssumption, CutInv, Propagate PROVE CutInv'
<1> DEFINE e == Last(queue)
           found == SideFound(e)
           N == Len(grid.elements)
<1>1. /\ case \in Cases /\ CutIsInside /\ SidesInv /\ step = "propagate" /\ queue # <<>>
      /\ UNCHANGED <<case, inside, cut, near, held, lifted, extent>>
  BY DEF CutInv, Propagate
<1>2. CutIsInside' /\ UNCHANGED grid
  BY <1>1 DEF CutIsInside, grid, MeshFaces, ElementsOf, Near, DofsOf
<1>3. CASE step' = "rejected"
  BY <1>1, <1>3 DEF CutInv, MeshElements, grid
<1>4. ASSUME step' # "rejected" PROVE SidesInv' /\ step' = "propagate"
  <2>1. /\ ~Conflict(e)
        /\ side' = [y \in near |->
                      IF y \in found
                      THEN Expected(CHOOSE f \in NearFaces(e) : Other(f, e) = y, e)
                      ELSE side[y]]
        /\ queue' = Front(queue) \o InOrder(found, N)
        /\ step' = "propagate"
    BY <1>1, <1>4 DEF Propagate, Reject
  <2>2. /\ side \in [near -> {-1, 0, 1}] /\ queue \in Seq(near)
        /\ \A y \in ToSet(queue) : side[y] # 0
        /\ \A y \in near : side[y] # 0 => y \in ToSet(queue) \/ Settled(y)
    BY <1>1 DEF SidesInv
  <2>3. e \in ToSet(queue) /\ e \in near /\ side[e] # 0 /\ side[e] \in {-1, 1}
    <3>1. e \in ToSet(queue) /\ e \in near
      BY <1>1, <2>2, QueueReplaced
    <3> HIDE DEF e
    <3> QED
      BY <2>2, <3>1
  <2> HIDE DEF e
  <2>4. found \subseteq near /\ \A y \in found : side[y] = 0
    BY <1>1, NearFace DEF SideFound
  <2>5. N \in Nat /\ MeshElements = 1..N /\ near \subseteq MeshElements
    <3>1. case.mesh \in DOMAIN PathMeshes
      BY <1>1 DEF CasesAssumption
    <3>2. N \in Nat /\ MeshElements = 1..N
      BY <3>1 DEF MeshesAssumption, grid, MeshElements
    <3>3. near \subseteq inside /\ inside \subseteq MeshElements
      BY <1>1 DEF CutInv, CutIsInside, Near
    <3> QED
      BY <3>2, <3>3
  <2>6. InOrder(found, N) \in Seq(near) /\ ToSet(InOrder(found, N)) = found
    BY <2>4, <2>5, InOrderIsAll
  <2>7. /\ queue' \in Seq(near) /\ ToSet(queue') \subseteq ToSet(queue) \cup found
        /\ ToSet(queue) \subseteq ToSet(queue') \cup {e} /\ found \subseteq ToSet(queue')
    <3> DEFINE r == InOrder(found, N)
    <3>1. r \in Seq(near) /\ ToSet(r) = found /\ queue' = Front(queue) \o r
      BY <2>1, <2>6
    <3> HIDE DEF r, found
    <3> QED
      BY <1>1, <2>2, <3>1, QueueReplaced DEF e
  \* Every face to a found element expects the same side of it.
  <2>8. \A f \in NearFaces(e) : Other(f, e) \in found => side'[Other(f, e)] = Expected(f, e)
    <3> SUFFICES ASSUME NEW f \in NearFaces(e), Other(f, e) \in found
                 PROVE  side'[Other(f, e)] = Expected(f, e)
      OBVIOUS
    <3> DEFINE g == CHOOSE h \in NearFaces(e) : Other(h, e) = Other(f, e)
    <3>1. g \in NearFaces(e) /\ Other(g, e) = Other(f, e)
      OBVIOUS
    <3>2. Expected(g, e) = Expected(f, e)
      BY <2>1, <3>1 DEF Conflict
    <3>3. side'[Other(f, e)] = Expected(g, e)
      BY <2>1, <2>4
    <3> QED
      BY <3>2, <3>3
  <2>9. \A f \in NearFaces(e) : Expected(f, e) \in {-1, 1}
    BY <2>3 DEF Expected
  <2>10. \A y \in near : IF y \in found THEN side'[y] \in {-1, 1} ELSE side'[y] = side[y]
    <3>1. \A y \in found : \E f \in NearFaces(e) : Other(f, e) = y
      BY DEF SideFound
    <3>2. \A y \in found : side'[y] \in {-1, 1}
      BY <2>8, <2>9, <3>1
    <3>3. \A y \in near : y \notin found => side'[y] = side[y]
      BY <2>1
    <3> QED
      BY <3>2, <3>3
  <2>11. side' \in [near -> {-1, 0, 1}]
    <3>1. DOMAIN side' = near /\ side' = [y \in near |-> side'[y]]
      BY <2>1
    <3>2. \A y \in near : side'[y] \in {-1, 0, 1}
      BY <2>2, <2>10
    <3> QED
      BY <3>1, <3>2
  <2>12. \A y \in ToSet(queue') : side'[y] # 0
    <3>1. ToSet(queue) \subseteq near
      BY <2>2 DEF ToSet
    <3> QED
      BY <2>2, <2>4, <2>7, <2>10, <3>1
  <2>13. ASSUME NEW y \in near, side'[y] # 0, y \notin ToSet(queue')
         PROVE  \A f \in NearFaces(y) : side'[Other(f, y)] = IF f \in cut THEN -side'[y] ELSE side'[y]
    <3>1. y \notin found /\ side'[y] = side[y]
      BY <2>7, <2>10, <2>13
    <3> SUFFICES ASSUME NEW f \in NearFaces(y)
                 PROVE  side'[Other(f, y)] = Expected(f, y)
      BY <3>1 DEF Expected
    <3>2. Other(f, y) \in near
      BY <1>1, NearFace
    <3>3. CASE y = e
      <4>1. side[Other(f, e)] \in {0, Expected(f, e)}
        BY <2>1, <3>3 DEF Conflict
      <4>2. CASE Other(f, e) \in found
        BY <2>8, <3>3, <4>2
      <4>3. CASE Other(f, e) \notin found
        <5>1. side[Other(f, e)] # 0
          BY <3>3, <4>3 DEF SideFound
        <5> QED
          BY <2>10, <3>2, <3>3, <4>1, <4>3, <5>1
      <4> QED
        BY <4>2, <4>3
    <3>4. CASE y # e
      <4>1. side[Other(f, y)] = Expected(f, y)
        BY <2>2, <2>7, <2>13, <3>1, <3>4 DEF Settled
      <4>2. side[y] \in {-1, 1}
        BY <2>2, <2>13, <3>1
      <4>3. Expected(f, y) # 0
        BY <4>2 DEF Expected
      <4> QED
        BY <2>4, <2>10, <3>2, <4>1, <4>3
    <3> QED
      BY <3>3, <3>4
  <2>14. \A y \in near : side'[y] # 0 => y \in ToSet(queue') \/ Settled(y)'
    <3>1. \A y : NearFaces(y)' = NearFaces(y) /\ \A f : Other(f, y)' = Other(f, y)
      BY <1>1, <1>2 DEF NearFaces, Other, MeshFaces, ElementsOf
    <3> QED
      BY <1>1, <2>13, <3>1 DEF Settled, Expected
  <2> QED
    BY <1>1, <2>1, <2>7, <2>11, <2>12, <2>14 DEF SidesInv
<1>5. (inside \subseteq MeshElements)'
  BY <1>1 DEF CutInv, MeshElements, grid
<1> QED
  BY <1>1, <1>2, <1>3, <1>4, <1>5 DEF CutInv

\* The elements that lie downstream are lifted when each has its side.
LEMMA LiftInv ==
  ASSUME CasesAssumption, MeshesAssumption, CutInv, Lift PROVE CutInv'
<1>1. /\ case \in Cases /\ CutIsInside /\ SidesInv /\ inside \subseteq MeshElements
      /\ UNCHANGED <<case, inside, cut, near, side, queue, extent>>
      /\ queue = <<>>
  BY DEF CutInv, Lift
<1>2. CutIsInside' /\ (inside \subseteq MeshElements)'
  BY <1>1 DEF CutIsInside, grid, MeshFaces, MeshElements, ElementsOf, Near, DofsOf
<1>3. CASE step' = "rejected"
  BY <1>1, <1>2, <1>3 DEF CutInv
<1>4. ASSUME step' # "rejected" PROVE LiftedInv' /\ step' = "lifted"
  <2>1. Unreached = {} /\ lifted' = Downstream /\ step' = "lifted"
    BY <1>4 DEF Lift, Reject
  <2>2. side \in [near -> {-1, 0, 1}] /\ \A e \in near : side[e] # 0
    BY <1>1, <2>1 DEF SidesInv, Unreached
  <2>3. side \in [near -> {-1, 1}]
    BY <2>2
  <2>4. \A e \in near : Settled(e)
    <3>1. ToSet(queue) = {}
      BY <1>1 DEF ToSet
    <3> QED
      BY <1>1, <2>2, <3>1 DEF SidesInv
  <2>5. lifted' = {e \in near : side[e] = 1}
    BY <2>1, <2>3 DEF Downstream
  <2> QED
    BY <1>1, <2>1, <2>3, <2>4, <2>5
    DEF LiftedInv, Settled, NearFaces, Other, Expected, MeshFaces, ElementsOf, grid
<1> QED
  BY <1>1, <1>2, <1>3, <1>4 DEF CutInv

LEMMA PathNextInv ==
  ASSUME CasesAssumption, MeshesAssumption, CutInv, [PathNext]_pvars PROVE CutInv'
<1>1. ASSUME MakeAzimuthal \/ MakeElectrodes PROVE CutInv'
  <2>1. /\ case.kind # "cut" /\ step' \in {"accepted", "rejected"}
        /\ UNCHANGED <<case, inside>>
    BY <1>1 DEF MakeAzimuthal, MakeElectrodes, Reject, Accept
  <2> QED
    BY <2>1 DEF CutInv, MeshElements, grid
<1>2. ASSUME CollectCut PROVE CutInv'
  <2>1. /\ case.kind = "cut" /\ step' = "seed" /\ near' = Near(cut')
        /\ UNCHANGED <<case, inside>>
        /\ cut' = {f \in {grid.boundary[b].face : b \in MarkedFaces(case.cut)} :
                     Len(grid.faces[f].elements) = 2 /\ ElementsOf(f) \subseteq inside}
    BY <1>2 DEF CollectCut
  <2>2. \A b \in MarkedFaces(case.cut) : grid.boundary[b].face \in MeshFaces
    <3>1. case.mesh \in DOMAIN PathMeshes
      BY DEF CasesAssumption, CutInv
    <3> QED
      BY <3>1 DEF MeshesAssumption, grid, MeshFaces, MarkedFaces, Boundary
  <2>3. \A f \in cut' : f \in MeshFaces /\ Len(grid.faces[f].elements) = 2 /\ ElementsOf(f) \subseteq inside
    BY <2>1, <2>2
  <2>4. near' = Near(cut)'
    BY <2>1 DEF Near, DofsOf, grid
  <2>5. CutIsInside'
    <3>1. case' \in Cases /\ case'.kind = "cut"
      BY <2>1 DEF CutInv
    <3>2. \A f \in cut' : /\ f \in MeshFaces' /\ Len(grid'.faces[f].elements) = 2
                          /\ ElementsOf(f)' \subseteq inside'
      BY <2>1, <2>3 DEF MeshFaces, ElementsOf, grid
    <3> QED
      BY <2>4, <3>1, <3>2 DEF CutIsInside
  <2> QED
    BY <2>1, <2>5 DEF CutInv, MeshElements, grid
<1>3. ASSUME CheckIntegral PROVE CutInv'
  <2>1. /\ step = "lifted" /\ step' \in {"accepted", "rejected"}
        /\ UNCHANGED <<case, inside, cut, near, side, lifted>>
    BY <1>3 DEF CheckIntegral, Accept
  <2>2. CutIsInside /\ LiftedInv
    BY <2>1 DEF CutInv
  <2>3. CutIsInside'
    BY <2>1, <2>2 DEF CutIsInside, grid, MeshFaces, ElementsOf, Near, DofsOf
  <2>4. LiftedInv'
    BY <2>1, <2>2
    DEF LiftedInv, Settled, NearFaces, Other, Expected, MeshFaces, ElementsOf, grid
  <2> QED
    BY <2>1, <2>3, <2>4 DEF CutInv, MeshElements, grid
<1>4. ASSUME UNCHANGED pvars PROVE CutInv'
  <2>1. UNCHANGED <<case, inside, cut, near, step, side, queue, lifted>>
    BY <1>4 DEF pvars
  <2>2. CutIsInside => CutIsInside'
    BY <2>1 DEF CutIsInside, grid, MeshFaces, ElementsOf, Near, DofsOf
  <2>3. LiftedInv => LiftedInv'
    BY <2>1
    DEF LiftedInv, Settled, NearFaces, Other, Expected, MeshFaces, ElementsOf, grid
  <2>4. SidesInv => SidesInv'
    BY <2>1
    DEF SidesInv, Settled, NearFaces, Other, Expected, MeshFaces, ElementsOf, grid
  <2> QED
    BY <2>1, <2>2, <2>3, <2>4 DEF CutInv, MeshElements, grid
<1> QED
  BY <1>1, <1>2, <1>3, <1>4, SeedInv, PropagateInv, LiftInv DEF PathNext

\* The search for the sides of the near elements keeps its invariant, on every mesh,
\* conductor and cut.
THEOREM SidesInvariance == PathSpec => []CutInv
<1>1. PathInit => CutInv
  BY DEF PathInit, CutInv, Inside, MeshElements, grid
<1>2. CutInv /\ [PathNext]_pvars => CutInv'
  BY PathNextInv, CasesAssumption, MeshesAssumption
<1> QED
  BY <1>1, <1>2, PTL DEF PathSpec

\* Whatever the mesh, the conductor and the faces marked as a cut: where the construction
\* ends, the lifted potential jumps by one across every face of the cut and is continuous
\* across every other face of the conductor.
THEOREM JumpIsTheCut == PathSpec => []JumpsOnlyAtCut
<1>1. ASSUME CasesAssumption, MeshesAssumption, CutInv PROVE JumpsOnlyAtCut
  <2> SUFFICES ASSUME step \in {"lifted", "accepted"}, case.kind = "cut",
                      NEW f \in MeshFaces, Len(grid.faces[f].elements) = 2,
                      ElementsOf(f) \subseteq inside
               PROVE  IF f \in cut THEN Cardinality(ElementsOf(f) \cap lifted) = 1
                      ELSE grid.faces[f].dofs \cap cut_dofs # {} =>
                             Cardinality(ElementsOf(f) \cap lifted) # 1
    BY DEF JumpsOnlyAtCut
  <2> DEFINE a == grid.faces[f].elements[1]
             b == grid.faces[f].elements[2]
  <2>1. CutIsInside /\ LiftedInv /\ case \in Cases
    BY <1>1 DEF CutInv
  <2>2. /\ ElementsOf(f) = {a, b} /\ a # b /\ Other(f, a) = b
        /\ grid.faces[f].dofs # {}
        /\ \A e \in ElementsOf(f) : grid.faces[f].dofs \subseteq DofsOf(e)
    BY <1>1, <2>1, InternalFace
  <2> HIDE DEF a, b
  <2>3. ASSUME grid.faces[f].dofs \cap cut_dofs # {}
        PROVE  /\ side[b] = IF f \in cut THEN -side[a] ELSE side[a]
               /\ side[a] \in {-1, 1} /\ side[b] \in {-1, 1}
               /\ a \in lifted <=> side[a] = 1
               /\ b \in lifted <=> side[b] = 1
    <3>1. PICK g \in cut : grid.faces[f].dofs \cap grid.faces[g].dofs # {}
      BY <2>3 DEF cut_dofs
    <3>2. {a, b} \subseteq near
      BY <2>1, <2>2, <3>1 DEF CutIsInside, Near
    <3>3. f \in NearFaces(a)
      BY <2>2, <3>2 DEF NearFaces
    <3> QED
      BY <2>1, <2>2, <3>2, <3>3 DEF LiftedInv, Settled, Expected
  <2>4. CASE f \in cut
    <3>1. grid.faces[f].dofs \cap cut_dofs # {}
      BY <2>2, <2>4 DEF cut_dofs
    <3>2. \E e \in {a, b} : {a, b} \cap lifted = {e}
      BY <2>2, <2>3, <2>4, <3>1
    <3> QED
      BY <2>2, <2>4, <3>2, FS_Singleton
  <2>5. CASE f \notin cut /\ grid.faces[f].dofs \cap cut_dofs # {}
    <3>1. {a, b} \cap lifted = {} \/ {a, b} \cap lifted = {a, b}
      BY <2>3, <2>5
    <3>2. Cardinality({a, b}) = 2 /\ Cardinality({}) = 0
      <4>1. IsFiniteSet({a}) /\ Cardinality({a}) = 1 /\ b \notin {a} /\ {a} \cup {b} = {a, b}
        BY <2>2, FS_Singleton
      <4>2. Cardinality({a} \cup {b}) = Cardinality({a}) + 1
        BY <4>1, FS_AddElement
      <4>3. Cardinality({}) = 0
        BY FS_EmptySet
      <4> QED
        BY <4>1, <4>2, <4>3
    <3>3. ElementsOf(f) \cap lifted = {} \/ ElementsOf(f) \cap lifted = {a, b}
      BY <2>2, <3>1
    <3>4. Cardinality(ElementsOf(f) \cap lifted) # 1
      <4> DEFINE both == {a, b}
                 none == {}
      <4>1. Cardinality(both) = 2 /\ Cardinality(none) = 0
        BY <3>2
      <4>2. ElementsOf(f) \cap lifted \in {both, none}
        BY <3>3
      <4> HIDE DEF both, none
      <4> QED
        BY <4>1, <4>2
    <3> QED
      BY <2>5, <3>4
  <2> QED
    BY <2>4, <2>5
<1> QED
  BY <1>1, SidesInvariance, CasesAssumption, MeshesAssumption, PTL

-----------------------------------------------------------------------------
(* ConductorPath: electrodes are accepted on one piece of wall.  A set of walls that is *)
(* closed under touching holds every piece it meets, so that a way over touching walls  *)
(* leads from one electrode's face to every other's.                          *)

\* The pieces after each wall of a loop over them.
LEMMA PiecesUnfold ==
  ASSUME NEW walls, walls = InOrder(MarkedFaces(case.ess), Len(grid.boundary)),
         Len(walls) \in Nat
  PROVE  \E at : /\ at[0] = {} /\ at[Len(walls)] = WallPieces
                 /\ \A k \in 1 .. Len(walls) : at[k] = Join(at[k - 1], WallDofs(walls[k]))
<1> DEFINE n == Len(walls)
           D == UNION {WallDofs(walls[k]) : k \in 1 .. n}
           V == SUBSET SUBSET D
           G == [k \in Nat |-> [S \in V |-> Join(S, IF k + 1 \in 1 .. n THEN WallDofs(walls[k + 1]) ELSE {})]]
           P(f) == [k \in 0 .. n |-> IF k = 0 THEN {}
                                     ELSE UNION {Join(R, WallDofs(walls[k])) : R \in {f[k - 1]}}]
           at == CHOOSE f : f = P(f)
<1>0. n \in Nat
  OBVIOUS
<1>8. WallPieces = at[n]
  BY DEF WallPieces, Iterated
<1> HIDE DEF n
<1>1. \A k \in 1 .. n : WallDofs(walls[k]) \subseteq D
  OBVIOUS
<1>2. ASSUME NEW S \in V, NEW X \in SUBSET D PROVE Join(S, X) \in V
  BY DEF Join
<1>3. G \in [Nat -> [V -> V]] /\ {} \in V
  <2> HIDE DEF D
  <2> SUFFICES ASSUME NEW k \in Nat, NEW S \in V
               PROVE  Join(S, IF k + 1 \in 1 .. n THEN WallDofs(walls[k + 1]) ELSE {}) \in V
    OBVIOUS
  <2> QED
    BY <1>1, <1>2
<1> HIDE DEF V
<1>4. PICK f \in [0 .. n -> V] : Runs(f, {}, G, n)
  BY <1>0, <1>3, RunsExist
<1>5. f[0] = {} /\ \A k \in 1 .. n : f[k] = Join(f[k - 1], WallDofs(walls[k]))
  <2>1. f[0] = {} /\ \A k \in 0 .. n - 1 : f[k + 1] = G[k][f[k]]
    BY <1>4 DEF Runs
  <2> SUFFICES ASSUME NEW k \in 1 .. n PROVE f[k] = Join(f[k - 1], WallDofs(walls[k]))
    BY <2>1
  <2>2. k - 1 \in 0 .. n - 1 /\ (k - 1) + 1 = k /\ f[k - 1] \in V
    BY <1>0, <1>4
  <2>3. f[k] = G[k - 1][f[k - 1]]
    BY <2>1, <2>2
  <2> QED
    BY <2>2, <2>3
<1>6. f = P(f)
  <2>1. f = [k \in 0 .. n |-> f[k]]
    BY <1>4
  <2>2. \A k \in 0 .. n : f[k] = IF k = 0 THEN {}
                                 ELSE UNION {Join(R, WallDofs(walls[k])) : R \in {f[k - 1]}}
    BY <1>5
  <2> QED
    BY <2>1, <2>2
<1>7. at = P(at)
  BY <1>6
<1> HIDE DEF at
<1>9. at[0] = {} /\ \A k \in 1 .. n : at[k] = Join(at[k - 1], WallDofs(walls[k]))
  <2>1. \A k \in 0 .. n : at[k] = IF k = 0 THEN {}
                                  ELSE UNION {Join(R, WallDofs(walls[k])) : R \in {at[k - 1]}}
    BY <1>7, Zenon
  <2>2. 0 \in 0 .. n /\ \A k \in 1 .. n : k \in 0 .. n /\ k # 0
    BY <1>0
  <2>3. ASSUME NEW k \in 1 .. n PROVE at[k] = Join(at[k - 1], WallDofs(walls[k]))
    <3>1. at[k] = UNION {Join(R, WallDofs(walls[k])) : R \in {at[k - 1]}}
      BY <2>1, <2>2
    <3> QED
      BY <3>1
  <2> QED
    BY <2>1, <2>2, <2>3
<1> QED
  BY <1>8, <1>9 DEF n

\* EssWalls that with a wall contain those that touch it.
EssWalls == MarkedFaces(case.ess)
WallClosed(S) ==
  S \subseteq EssWalls /\ \A u \in EssWalls : \A y \in S : WallDofs(u) \cap WallDofs(y) # {} => u \in S
DofsOfWalls(S) == UNION {WallDofs(y) : y \in S}

\* The walls of the mesh are numbered, and have degrees of freedom.
LEMMA WallsTyped ==
  ASSUME CasesAssumption, MeshesAssumption, case \in Cases
  PROVE  /\ Len(grid.boundary) \in Nat /\ EssWalls \subseteq 1 .. Len(grid.boundary)
         /\ IsFiniteSet(EssWalls)
         /\ \A b \in Boundary : WallDofs(b) # {} /\ WallDofs(b) \subseteq Nat
<1>1. case.mesh \in DOMAIN PathMeshes
  BY DEF CasesAssumption
<1>2. Len(grid.boundary) \in Nat /\ Boundary = 1 .. Len(grid.boundary)
  BY <1>1 DEF MeshesAssumption, grid, Boundary
<1>3. EssWalls \subseteq Boundary
  BY DEF EssWalls, MarkedFaces
<1>4. IsFiniteSet(EssWalls)
  <2>1. IsFiniteSet(1 .. Len(grid.boundary))
    BY <1>2, FS_Interval
  <2> QED
    BY <1>2, <1>3, <2>1, FS_Subset
<1>5. ASSUME NEW b \in Boundary PROVE WallDofs(b) # {} /\ WallDofs(b) \subseteq Nat
  <2> DEFINE face == grid.faces[grid.boundary[b].face]
  <2>1. grid.boundary[b].face \in DOMAIN grid.faces
    BY <1>1 DEF MeshesAssumption, grid, Boundary
  <2>2. /\ face.dofs # {} /\ face.elements \in Seq(DOMAIN grid.elements)
        /\ Len(face.elements) \in {1, 2}
        /\ \A e \in ToSet(face.elements) : face.dofs \subseteq grid.elements[e].dofs
        /\ \A e \in DOMAIN grid.elements : grid.elements[e].dofs \in SUBSET Nat
    BY <1>1, <2>1 DEF MeshesAssumption, grid
  <2> HIDE DEF face
  <2>3. face.elements[1] \in ToSet(face.elements) /\ face.elements[1] \in DOMAIN grid.elements
    BY <2>2 DEF ToSet
  <2>4. face.dofs \subseteq Nat
    BY <2>2, <2>3
  <2> QED
    BY <2>2, <2>4 DEF face, WallDofs
<1> QED
  BY <1>2, <1>3, <1>4, <1>5

\* Each wall is on a piece, and a piece leaves no set that is closed.
LEMMA PiecesAreConnected ==
  ASSUME CasesAssumption, MeshesAssumption, case \in Cases
  PROVE  /\ IsFiniteSet(WallPieces)
         /\ \A b \in EssWalls : \E p \in WallPieces : WallDofs(b) \subseteq p
         /\ \A S : WallClosed(S) =>
              \A p \in WallPieces : p \subseteq DofsOfWalls(S) \/ p \cap DofsOfWalls(S) = {}
<1> DEFINE N == Len(grid.boundary)
           walls == InOrder(EssWalls, N)
           n == Len(walls)
<1>1. walls \in Seq(EssWalls) /\ ToSet(walls) = EssWalls
  BY WallsTyped, InOrderIsAll
<1>2. walls = InOrder(MarkedFaces(case.ess), Len(grid.boundary))
  BY DEF EssWalls
<1> HIDE DEF walls
<1>3. n \in Nat /\ DOMAIN walls = 1 .. n
  BY <1>1
<1>4. \A k \in 1 .. n : walls[k] \in EssWalls
  BY <1>1
<1>5. PICK at : /\ at[0] = {} /\ at[n] = WallPieces
                /\ \A k \in 1 .. n : at[k] = Join(at[k - 1], WallDofs(walls[k]))
  BY <1>2, <1>3, PiecesUnfold
<1> HIDE DEF n
<1> DEFINE Good(k) ==
             /\ IsFiniteSet(at[k])
             /\ \A j \in 1 .. k : \E p \in at[k] : WallDofs(walls[j]) \subseteq p
             /\ \A S : WallClosed(S) =>
                  \A p \in at[k] : p \subseteq DofsOfWalls(S) \/ p \cap DofsOfWalls(S) = {}
           T == {k \in Nat : k <= n => Good(k)}
<1>6. 0 \in T
  <2>1. IsFiniteSet(at[0])
    BY <1>5, FS_EmptySet
  <2>2. Good(0)
    BY <1>5, <2>1
  <2> HIDE DEF Good
  <2> QED
    BY <2>2
<1>7. ASSUME NEW k \in Nat, Good(k), k + 1 <= n PROVE Good(k + 1)
  <2> DEFINE w == walls[k + 1]
             met == {p \in at[k] : p \cap WallDofs(w) # {}}
             new == WallDofs(w) \cup UNION met
  <2>1. k + 1 \in 1 .. n /\ (k + 1) - 1 = k
    BY <1>3, <1>7
  <2>2. w \in EssWalls
    BY <1>4, <2>1
  <2>3. at[k + 1] = (at[k] \ met) \cup {new}
    BY <1>5, <2>1 DEF Join
  <2> HIDE DEF w, met, new
  <2>4. IsFiniteSet(at[k + 1])
    <3>1. IsFiniteSet(at[k]) /\ (at[k] \ met) \subseteq at[k]
      BY <1>7
    <3>2. IsFiniteSet(at[k] \ met)
      BY <3>1, FS_Subset
    <3>3. IsFiniteSet((at[k] \ met) \cup {new})
      BY <3>2, FS_AddElement
    <3> QED
      BY <2>3, <3>3
  <2>5. ASSUME NEW j \in 1 .. k + 1 PROVE \E p \in at[k + 1] : WallDofs(walls[j]) \subseteq p
    <3>1. CASE j = k + 1
      <4>1. WallDofs(walls[j]) = WallDofs(w)
        BY <3>1 DEF w
      <4>2. new \in at[k + 1] /\ WallDofs(w) \subseteq new
        BY <2>3 DEF new
      <4> QED
        BY <4>1, <4>2
    <3>2. CASE j # k + 1
      <4>1. j \in 1 .. k
        BY <3>2
      <4>2. PICK p \in at[k] : WallDofs(walls[j]) \subseteq p
        BY <1>7, <4>1
      <4>3. new \in at[k + 1] /\ (p \in met => p \subseteq new) /\ (p \notin met => p \in at[k + 1])
        BY <2>3 DEF new
      <4> QED
        BY <4>2, <4>3
    <3> QED
      BY <3>1, <3>2
  <2>6. ASSUME NEW S, WallClosed(S), NEW p \in at[k + 1]
        PROVE  p \subseteq DofsOfWalls(S) \/ p \cap DofsOfWalls(S) = {}
    <3> DEFINE X == DofsOfWalls(S)
    <3>1. \A q \in at[k] : q \subseteq X \/ q \cap X = {}
      BY <1>7, <2>6
    <3>2. WallDofs(w) \subseteq X \/ WallDofs(w) \cap X = {}
      BY <2>2, <2>6 DEF WallClosed, DofsOfWalls
    <3> HIDE DEF X
    <3>3. met \subseteq at[k] /\ \A q \in met : q \cap WallDofs(w) # {}
      BY DEF met
    <3>4. new \subseteq X \/ new \cap X = {}
      <4>1. CASE WallDofs(w) \subseteq X
        <5>1. \A q \in met : q \subseteq X
          BY <3>1, <3>3, <4>1
        <5> QED
          BY <4>1, <5>1 DEF new
      <4>2. CASE WallDofs(w) \cap X = {}
        <5>1. \A q \in met : q \cap X = {}
          BY <3>1, <3>3, <4>2
        <5> QED
          BY <4>2, <5>1 DEF new
      <4> QED
        BY <3>2, <4>1, <4>2
    <3> QED
      BY <2>3, <3>1, <3>4 DEF X
  <2> QED
    BY <2>4, <2>5, <2>6
<1> HIDE DEF Good
<1>8. \A k \in Nat : k \in T => k + 1 \in T
  BY <1>3, <1>7
<1>9. Nat \subseteq T
  BY <1>6, <1>8, Induction
<1>10. Good(n)
  BY <1>3, <1>9
<1>11. \A b \in EssWalls : \E j \in 1 .. n : walls[j] = b
  BY <1>1, <1>3 DEF ToSet
<1> QED
  BY <1>5, <1>10, <1>11 DEF Good

\* The walls that touch one of S, and those a way over touching walls leads to from b.
Touched(S) == {u \in EssWalls : \E y \in S : WallDofs(u) \cap WallDofs(y) # {}}
WayFrom(b) == Iterated(LAMBDA n, S : Touched(S), {b}, Cardinality(EssWalls))

\* What the ways of every length lead to.
LEMMA WaysUnfold ==
  ASSUME NEW b \in EssWalls, Cardinality(EssWalls) \in Nat
  PROVE  \E at : /\ at[0] = {b} /\ at[Cardinality(EssWalls)] = WayFrom(b)
                 /\ \A k \in 1 .. Cardinality(EssWalls) : at[k] = Touched(at[k - 1])
<1> DEFINE n == Cardinality(EssWalls)
           V == SUBSET EssWalls
           G == [k \in Nat |-> [S \in V |-> Touched(S)]]
           P(f) == [k \in 0 .. n |-> IF k = 0 THEN {b} ELSE UNION {Touched(R) : R \in {f[k - 1]}}]
           at == CHOOSE f : f = P(f)
<1>1. n \in Nat
  OBVIOUS
<1>2. WayFrom(b) = at[n]
  BY DEF WayFrom, Iterated
<1> HIDE DEF n
<1>3. G \in [Nat -> [V -> V]] /\ {b} \in V
  <2>1. \A S \in V : Touched(S) \in V
    BY DEF Touched
  <2> QED
    BY <2>1
<1> HIDE DEF V
<1>4. PICK f \in [0 .. n -> V] : Runs(f, {b}, G, n)
  BY <1>1, <1>3, RunsExist
<1>5. f[0] = {b} /\ \A k \in 1 .. n : f[k] = Touched(f[k - 1])
  <2>1. f[0] = {b} /\ \A k \in 0 .. n - 1 : f[k + 1] = G[k][f[k]]
    BY <1>4 DEF Runs
  <2> SUFFICES ASSUME NEW k \in 1 .. n PROVE f[k] = Touched(f[k - 1])
    BY <2>1
  <2>2. k - 1 \in 0 .. n - 1 /\ (k - 1) + 1 = k /\ f[k - 1] \in V
    BY <1>1, <1>4
  <2>3. f[k] = G[k - 1][f[k - 1]]
    BY <2>1, <2>2
  <2> QED
    BY <2>2, <2>3
<1>6. f = P(f)
  <2>1. f = [k \in 0 .. n |-> f[k]]
    BY <1>4
  <2>2. \A k \in 0 .. n : f[k] = IF k = 0 THEN {b} ELSE UNION {Touched(R) : R \in {f[k - 1]}}
    BY <1>5
  <2> QED
    BY <2>1, <2>2
<1>7. at = P(at)
  BY <1>6
<1> HIDE DEF at
<1>8. at[0] = {b} /\ \A k \in 1 .. n : at[k] = Touched(at[k - 1])
  <2>1. \A k \in 0 .. n : at[k] = IF k = 0 THEN {b} ELSE UNION {Touched(R) : R \in {at[k - 1]}}
    BY <1>7, Zenon
  <2>2. 0 \in 0 .. n /\ \A k \in 1 .. n : k \in 0 .. n /\ k # 0
    BY <1>1
  <2>3. ASSUME NEW k \in 1 .. n PROVE at[k] = Touched(at[k - 1])
    <3>1. at[k] = UNION {Touched(R) : R \in {at[k - 1]}}
      BY <2>1, <2>2
    <3> QED
      BY <3>1
  <2> QED
    BY <2>1, <2>2, <2>3
<1> QED
  BY <1>2, <1>8 DEF n

\* Each step adds a wall or nothing any more, so that as many steps as there are walls
\* find all.
LEMMA WaysAreClosed ==
  ASSUME CasesAssumption, MeshesAssumption, case \in Cases, NEW b \in EssWalls
  PROVE  b \in WayFrom(b) /\ WallClosed(WayFrom(b))
<1> DEFINE n == Cardinality(EssWalls)
<1>1. IsFiniteSet(EssWalls) /\ n \in Nat
  BY WallsTyped, FS_CardinalityType
<1>2. PICK at : /\ at[0] = {b} /\ at[n] = WayFrom(b)
                /\ \A k \in 1 .. n : at[k] = Touched(at[k - 1])
  BY <1>1, WaysUnfold
<1>3. ASSUME NEW S \in SUBSET EssWalls PROVE S \subseteq Touched(S) /\ Touched(S) \subseteq EssWalls
  <2>1. \A u \in EssWalls : WallDofs(u) # {}
    BY WallsTyped DEF EssWalls, MarkedFaces
  <2> QED
    BY <2>1 DEF Touched
<1> DEFINE Good(k) ==
             /\ at[k] \subseteq EssWalls /\ b \in at[k]
             /\ Touched(at[k]) = at[k] \/ k + 1 <= Cardinality(at[k])
           T == {k \in Nat : k <= n => Good(k)}
<1>4. Good(0)
  <2>1. Cardinality({b}) = 1
    BY FS_Singleton
  <2>2. 0 + 1 <= Cardinality(at[0])
    BY <1>2, <2>1
  <2> QED
    BY <1>2, <2>2
<1>5. ASSUME NEW k \in Nat, Good(k), k + 1 <= n PROVE Good(k + 1)
  <2>1. at[k + 1] = Touched(at[k])
    <3>1. k + 1 \in 1 .. n /\ (k + 1) - 1 = k
      BY <1>1, <1>5
    <3> QED
      BY <1>2, <3>1
  <2>2. at[k] \subseteq at[k + 1] /\ at[k + 1] \subseteq EssWalls /\ b \in at[k + 1]
    BY <1>3, <1>5, <2>1
  <2>3. CASE at[k + 1] = at[k]
    BY <1>5, <2>1, <2>2, <2>3
  <2>4. CASE at[k + 1] # at[k]
    <3>1. k + 1 <= Cardinality(at[k])
      BY <1>5, <2>1, <2>4
    <3>2. IsFiniteSet(at[k + 1])
      BY <1>1, <2>2, FS_Subset
    <3>3. /\ Cardinality(at[k]) \in Nat /\ Cardinality(at[k + 1]) \in Nat
          /\ Cardinality(at[k]) < Cardinality(at[k + 1])
      <4>1. IsFiniteSet(at[k]) /\ Cardinality(at[k]) <= Cardinality(at[k + 1])
            /\ Cardinality(at[k]) # Cardinality(at[k + 1])
        BY <2>2, <2>4, <3>2, FS_Subset
      <4>2. Cardinality(at[k]) \in Nat /\ Cardinality(at[k + 1]) \in Nat
        BY <3>2, <4>1, FS_CardinalityType
      <4> QED
        BY <4>1, <4>2
    <3>4. (k + 1) + 1 <= Cardinality(at[k + 1])
      BY <3>1, <3>3
    <3> QED
      BY <2>2, <3>4
  <2> QED
    BY <2>3, <2>4
<1> HIDE DEF Good
<1>6. Nat \subseteq T
  <2>1. 0 \in T /\ \A k \in Nat : k \in T => k + 1 \in T
    BY <1>1, <1>4, <1>5
  <2> HIDE DEF T
  <2> QED
    BY <2>1, Induction
<1>7. Good(n)
  BY <1>1, <1>6
<1>8. Touched(at[n]) = at[n]
  <2>1. Cardinality(at[n]) <= n /\ Cardinality(at[n]) \in Nat
    <3>1. at[n] \subseteq EssWalls
      BY <1>7 DEF Good
    <3> QED
      BY <1>1, <3>1, FS_Subset, FS_CardinalityType
  <2> HIDE DEF n
  <2> QED
    BY <1>1, <1>7, <2>1 DEF Good
<1>9. at[n] \subseteq EssWalls /\ b \in at[n]
  BY <1>7 DEF Good
<1> QED
  BY <1>2, <1>8, <1>9 DEF WallClosed, Touched

\* Electrodes that fit are joined by walls.
LEMMA FittingIsJoined ==
  ASSUME CasesAssumption, MeshesAssumption, case \in Cases, ElectrodesFit,
         NEW b \in Bordering(Electrodes)
  PROVE  b \in EssWalls /\ Bordering(Electrodes) \subseteq WayFrom(b)
<1> DEFINE touching == {p \in WallPieces : \E c \in Bordering(Electrodes) : WallDofs(c) \cap p # {}}
<1>1. Bordering(Electrodes) \subseteq EssWalls
  BY DEF ElectrodesFit, Bordering, MarkedFaces, EssWalls
<1>2. Cardinality(touching) <= 1
  BY DEF ElectrodesFit
<1>3. IsFiniteSet(touching)
  BY PiecesAreConnected, FS_Subset
<1>4. \A p, q \in touching : p = q
  <2> SUFFICES ASSUME NEW p \in touching, NEW q \in touching, p # q PROVE FALSE
    OBVIOUS
  <2>1. {p, q} \subseteq touching
    OBVIOUS
  <2> HIDE DEF touching
  <2>2. Cardinality({p, q}) <= Cardinality(touching)
    BY <1>3, <2>1, FS_Subset
  <2>3. Cardinality({p, q}) = 2
    <3>1. IsFiniteSet({p}) /\ Cardinality({p}) = 1 /\ q \notin {p} /\ {p} \cup {q} = {p, q}
      BY FS_Singleton
    <3>2. Cardinality({p} \cup {q}) = Cardinality({p}) + 1
      BY <3>1, FS_AddElement
    <3>3. 1 + 1 = 2
      OBVIOUS
    <3> QED
      BY <3>1, <3>2, <3>3, Zenon
  <2>4. Cardinality(touching) \in Nat
    BY <1>3, FS_CardinalityType
  <2> QED
    BY <1>2, <2>2, <2>3, <2>4
<1>5. ASSUME NEW c \in Bordering(Electrodes)
      PROVE  \E p \in touching : WallDofs(c) \subseteq p /\ WallDofs(c) # {}
  <2>1. c \in EssWalls /\ WallDofs(c) # {}
    BY <1>1, WallsTyped DEF EssWalls, MarkedFaces
  <2>2. PICK p \in WallPieces : WallDofs(c) \subseteq p
    BY <2>1, PiecesAreConnected
  <2> QED
    BY <2>1, <2>2
<1> HIDE DEF touching
<1>6. ASSUME NEW c \in Bordering(Electrodes) PROVE c \in WayFrom(b)
  <2>1. PICK p \in touching : WallDofs(b) \subseteq p /\ WallDofs(b) # {}
    BY <1>5
  <2>2. WallDofs(c) \subseteq p /\ WallDofs(c) # {}
    BY <1>4, <1>5, <2>1
  <2>3. b \in WayFrom(b) /\ WallClosed(WayFrom(b))
    BY <1>1, WaysAreClosed
  <2>4. p \in WallPieces
    BY DEF touching
  <2>5. p \subseteq DofsOfWalls(WayFrom(b)) \/ p \cap DofsOfWalls(WayFrom(b)) = {}
    BY <2>3, <2>4, PiecesAreConnected
  <2>6. WallDofs(b) \subseteq DofsOfWalls(WayFrom(b))
    BY <2>3 DEF DofsOfWalls
  <2>7. WallDofs(c) \subseteq DofsOfWalls(WayFrom(b))
    BY <2>1, <2>2, <2>5, <2>6
  <2> QED
    BY <1>1, <2>2, <2>3, <2>7 DEF DofsOfWalls, WallClosed
<1> QED
  BY <1>1, <1>6

\* The construction's variables keep their types, electrodes are accepted where they
\* fit, and the search starts from a cut that has faces.
EndsInv ==
  /\ CutInv
  /\ PathTypeOK
  /\ step = "start" => side = NoSides /\ queue = <<>>
  /\ step = "propagate" => cut # {}
  /\ step = "accepted" /\ case.kind = "electrodes" => ElectrodesFit

\* The conductor has the degrees of freedom of the boundary elements that border it, and
\* they are numbers.
LEMMA BorderDofs ==
  ASSUME CasesAssumption, MeshesAssumption, case \in Cases, inside \subseteq MeshElements
  PROVE  /\ \A A : FaceDofs(Bordering(A)) \subseteq conductor_dofs
         /\ conductor_dofs \subseteq Nat
<1>1. case.mesh \in DOMAIN PathMeshes
  BY DEF CasesAssumption
<1>2. conductor_dofs \subseteq Nat
  <2>1. \A e \in MeshElements : DofsOf(e) \in SUBSET Nat
    BY <1>1 DEF MeshesAssumption, grid, MeshElements, DofsOf
  <2> QED
    BY <2>1 DEF conductor_dofs
<1>3. ASSUME NEW A, NEW b \in Bordering(A) PROVE WallDofs(b) \subseteq conductor_dofs
  <2>1. PICK e \in inside : b \in Boundary /\ e \in ElementsOf(grid.boundary[b].face)
    BY <1>3 DEF Bordering, MarkedFaces
  <2>2. grid.boundary[b].face \in DOMAIN grid.faces
    BY <1>1, <2>1 DEF MeshesAssumption, grid, Boundary
  <2>3. WallDofs(b) \subseteq DofsOf(e)
    BY <1>1, <2>1, <2>2 DEF MeshesAssumption, grid, WallDofs, DofsOf, ElementsOf
  <2> QED
    BY <2>1, <2>3 DEF conductor_dofs
<1>4. ASSUME NEW A PROVE FaceDofs(Bordering(A)) \subseteq conductor_dofs
  BY <1>3 DEF FaceDofs, WallDofs
<1> QED
  BY <1>2, <1>4

\* The azimuthal extent is a number of eighths of a turn.
LEMMA ExtentTyped == AzimuthalExtent \in 0 .. FullTurn
<1>1. \A s : Sign(s) \in {-1, 0, 1}
  BY DEF Sign
<1>2. \A i, j \in {-1, 0, 1} : Atan2[2 + i][2 + j] \in Int
  BY DEF Atan2
<1>3. \A A : Direction(A) \in Int
  BY <1>1, <1>2 DEF Direction
<1>4. \A a, b \in Int : 1 + ((a - b - 1) % FullTurn) \in 0 .. FullTurn
  BY DEF FullTurn
<1> QED
  BY <1>3, <1>4 DEF AzimuthalExtent, FullTurn

\* Every part of the construction keeps the invariant.
LEMMA EndsNext ==
  ASSUME CasesAssumption, MeshesAssumption, EndsInv, [PathNext]_pvars PROVE EndsInv'
<1>0. CutInv /\ CutInv' /\ PathTypeOK /\ case \in Cases /\ inside \subseteq MeshElements
  BY PathNextInv DEF EndsInv, CutInv
<1>1. UNCHANGED <<case, inside>> /\ UNCHANGED <<grid, conductor_dofs>>
  <2>1. UNCHANGED <<case, inside>>
    BY DEF PathNext, pvars, MakeAzimuthal, MakeElectrodes, CollectCut, Seed, Propagate, Lift,
           CheckIntegral
  <2> QED
    BY <2>1 DEF grid, conductor_dofs, DofsOf
<1>2. ElectrodesFit => ElectrodesFit'
  <2>1. UNCHANGED WallPieces
    BY <1>1 DEF WallPieces, Iterated, Join, MarkedFaces, Boundary, WallDofs
  <2>3. \A b : WallDofs(b)' = WallDofs(b)
    BY <1>1 DEF WallDofs
  <2>4. UNCHANGED Electrodes
    BY <1>1 DEF Electrodes
  <2>5. Bordering(Electrodes)' = Bordering(Electrodes)
        /\ MarkedFaces(Electrodes)' = MarkedFaces(Electrodes)
    BY <1>1, <2>4 DEF Bordering, MarkedFaces, Boundary, ElementsOf
  <2> QED
    BY <1>1, <2>1, <2>3, <2>5 DEF ElectrodesFit
<1>3. CASE MakeAzimuthal
  <2>1. /\ case.kind = "azimuthal" /\ extent' \in {extent, AzimuthalExtent}
        /\ step' \in {"accepted", "rejected"} /\ UNCHANGED <<near, side, queue, held, lifted>>
    BY <1>3 DEF MakeAzimuthal, Reject
  <2>2. extent' \in 0 .. FullTurn
    BY <1>0, <2>1, ExtentTyped DEF PathTypeOK
  <2>3. PathTypeOK'
    BY <1>0, <1>1, <2>1, <2>2 DEF PathTypeOK
  <2> QED
    BY <1>0, <1>1, <2>1, <2>3 DEF EndsInv
<1>4. CASE MakeElectrodes
  <2> DEFINE in == FaceDofs(Bordering(case.input))
             out == FaceDofs(Bordering(case.output))
  <2>1. /\ step' \in {"accepted", "rejected"} /\ UNCHANGED <<near, side, queue, lifted, extent>>
        /\ held' = held \/ held' = [d \in in \cup out |-> IF d \in in THEN 1 ELSE 0]
        /\ step' = "accepted" => ElectrodesFit
    BY <1>4 DEF MakeElectrodes, Reject, Accept
  <2>2. DOMAIN held' \subseteq conductor_dofs'
    BY <1>0, <1>1, <2>1, BorderDofs DEF PathTypeOK
  <2>3. PathTypeOK'
    BY <1>0, <1>1, <2>1, <2>2 DEF PathTypeOK
  <2> QED
    BY <1>0, <1>2, <2>1, <2>3 DEF EndsInv
<1>5. CASE CollectCut
  <2>1. /\ step = "start" /\ step' = "seed" /\ UNCHANGED <<side, queue, held, lifted, extent>>
    BY <1>5 DEF CollectCut
  <2>2. side' = NoSides /\ queue' = <<>>
    BY <2>1 DEF EndsInv
  <2>3. PathTypeOK'
    BY <1>0, <1>1, <2>1, <2>2 DEF PathTypeOK, NoSides, ToSet
  <2> QED
    BY <1>0, <2>1, <2>3 DEF EndsInv
<1>6. ASSUME SidesInv', step' = "propagate", UNCHANGED <<near, held, lifted, extent>>
      PROVE  PathTypeOK'
  <2>1. side' \in [near' -> {-1, 0, 1}] /\ ToSet(queue') \subseteq near'
    BY <1>6 DEF SidesInv, ToSet
  <2> QED
    BY <1>0, <1>1, <1>6, <2>1 DEF PathTypeOK
<1>7. CASE Seed
  <2>1. UNCHANGED <<near, cut, held, lifted, extent>> /\ step = "seed"
    BY <1>7 DEF Seed
  <2>2. CASE step' = "rejected" /\ UNCHANGED <<side, queue>>
    <3>1. PathTypeOK'
      BY <1>0, <1>1, <2>1, <2>2 DEF PathTypeOK
    <3> QED
      BY <1>0, <2>2, <3>1 DEF EndsInv
  <2>3. CASE step' = "propagate" /\ cut # {}
    <3>1. PathTypeOK'
      BY <1>0, <1>6, <2>1, <2>3 DEF CutInv
    <3> QED
      BY <1>0, <2>1, <2>3, <3>1 DEF EndsInv
  <2> QED
    BY <1>7, <2>2, <2>3 DEF Seed, Reject
<1>8. CASE Propagate
  <2>1. UNCHANGED <<near, cut, held, lifted, extent>> /\ step = "propagate" /\ cut # {}
    BY <1>8 DEF Propagate, EndsInv
  <2>2. CASE step' = "rejected" /\ UNCHANGED <<side, queue>>
    <3>1. PathTypeOK'
      BY <1>0, <1>1, <2>1, <2>2 DEF PathTypeOK
    <3> QED
      BY <1>0, <2>2, <3>1 DEF EndsInv
  <2>3. CASE step' = "propagate"
    <3>1. PathTypeOK'
      BY <1>0, <1>6, <2>1, <2>3 DEF CutInv
    <3> QED
      BY <1>0, <2>1, <2>3, <3>1 DEF EndsInv
  <2> QED
    BY <1>8, <2>1, <2>2, <2>3 DEF Propagate, Reject
<1>9. CASE Lift
  <2>1. /\ step = "propagate" /\ cut # {} /\ CutIsInside /\ SidesInv
        /\ UNCHANGED <<near, side, queue, extent>>
    BY <1>0, <1>9 DEF Lift, EndsInv, CutInv
  <2>2. CASE step' = "rejected" /\ UNCHANGED <<held, lifted>>
    <3>1. PathTypeOK'
      BY <1>0, <1>1, <2>1, <2>2 DEF PathTypeOK
    <3> QED
      BY <1>0, <2>2, <3>1 DEF EndsInv
  <2>3. CASE /\ step' = "lifted" /\ lifted' = Downstream
             /\ held' = [d \in {Min(conductor_dofs)} |-> 0]
    <3>1. lifted' \subseteq inside'
      BY <1>1, <2>1, <2>3 DEF Downstream, CutIsInside, Near
    <3>2. conductor_dofs # {} /\ conductor_dofs \in SUBSET Nat
      <4>1. PICK f \in cut : /\ f \in MeshFaces /\ Len(grid.faces[f].elements) = 2
                             /\ ElementsOf(f) \subseteq inside
        BY <2>1 DEF CutIsInside
      <4>2. \E e \in inside : DofsOf(e) # {}
        <5> DEFINE a == grid.faces[f].elements[1]
        <5>1. a \in ElementsOf(f) /\ grid.faces[f].dofs # {} /\ grid.faces[f].dofs \subseteq DofsOf(a)
          BY <1>0, <4>1, InternalFace
        <5> HIDE DEF a
        <5> QED
          BY <4>1, <5>1
      <4> QED
        BY <1>0, <4>2, BorderDofs DEF conductor_dofs
    <3>3. Min(conductor_dofs) \in conductor_dofs
      <4>1. \E d \in conductor_dofs : \A c \in conductor_dofs : d <= c
        BY <3>2, LeastNumber
      <4> QED
        BY <4>1 DEF Min
    <3>4. DOMAIN held' \subseteq conductor_dofs'
      BY <1>1, <2>3, <3>3
    <3>5. PathTypeOK'
      BY <1>0, <1>1, <2>1, <2>3, <3>1, <3>4 DEF PathTypeOK
    <3> QED
      BY <1>0, <2>3, <3>5 DEF EndsInv
  <2> QED
    BY <1>9, <2>2, <2>3 DEF Lift, Reject
<1>10. CASE CheckIntegral
  <2>1. /\ step' \in {"accepted", "rejected"} /\ case.kind = "cut"
        /\ UNCHANGED <<near, side, queue, held, lifted, extent>>
    BY <1>0, <1>10 DEF CheckIntegral, Accept, CutInv, CutIsInside
  <2>2. PathTypeOK'
    BY <1>0, <1>1, <2>1 DEF PathTypeOK
  <2> QED
    BY <1>0, <1>1, <2>1, <2>2 DEF EndsInv
<1>11. CASE UNCHANGED pvars
  <2>1. UNCHANGED <<cut, near, step, side, queue, held, lifted, extent>>
    BY <1>11 DEF pvars
  <2>2. PathTypeOK'
    BY <1>0, <1>1, <2>1 DEF PathTypeOK
  <2> QED
    BY <1>0, <1>1, <1>2, <2>1, <2>2 DEF EndsInv
<1> QED
  BY <1>3, <1>4, <1>5, <1>7, <1>8, <1>9, <1>10, <1>11 DEF PathNext

\* Whatever the mesh, the conductor and the electrodes: those of an accepted conductor
\* are joined by n x A = 0 faces that share vertices, and a potential is held on the
\* conductor alone.
THEOREM ElectrodesShareWall == PathSpec => []ConductorEndsFit
<1>1. PathInit => EndsInv
  <2>1. PathInit => CutInv
    BY DEF PathInit, CutInv, Inside, MeshElements, grid
  <2> QED
    BY <2>1 DEF PathInit, EndsInv, PathTypeOK, NoSides, ToSet, FullTurn
<1>2. EndsInv /\ [PathNext]_pvars => EndsInv'
  BY EndsNext, CasesAssumption, MeshesAssumption
<1>3. ASSUME EndsInv PROVE ConductorEndsFit
  <2>1. ASSUME step = "accepted", case.kind = "electrodes", NEW b \in Bordering(Electrodes)
        PROVE  b \in EssWalls /\ Bordering(Electrodes) \subseteq WayFrom(b)
    BY <1>3, <2>1, FittingIsJoined, CasesAssumption, MeshesAssumption DEF EndsInv, CutInv
  <2>2. WallJoinsElectrodes
    BY <2>1 DEF WallJoinsElectrodes, WayFrom, EssWalls, Touched
  <2> QED
    BY <1>3, <2>2 DEF EndsInv, ConductorEndsFit
<1> QED
  BY <1>1, <1>2, <1>3, PTL DEF PathSpec

-----------------------------------------------------------------------------
(* GaugeSpace: the columns of the projector's spaces.  The invariant says of each  *)
(* loop what it has done for the degrees of freedom it has passed, and of each loop *)
(* that is through what its result means, for the next to build on.             *)

\* A mesh's cells have degrees of freedom, and a boundary element has at least one.
LEMMA CellsHaveDofs ==
  ASSUME SpaceAssumption, mesh \in Meshes
  PROVE  /\ NDof \in Nat \ {0} /\ 0 \in H1Dofs
         /\ Len(mesh.boundary) \in Nat /\ DOMAIN mesh.boundary = 1 .. Len(mesh.boundary)
         /\ Walls \subseteq DOMAIN mesh.boundary
         /\ \A i \in DOMAIN mesh.boundary : /\ Vertices(mesh.boundary[i]) \subseteq H1Dofs
                                            /\ mesh.boundary[i].dofs[1] \in Vertices(mesh.boundary[i])
         /\ \A i \in DOMAIN mesh.elements : Vertices(mesh.elements[i]) \subseteq H1Dofs
         /\ essential \subseteq H1Dofs
         /\ Conducting \subseteq DOMAIN mesh.elements
<1>1. NDof \in Nat \ {0} /\ 0 \in H1Dofs
  BY DEF SpaceAssumption, H1Dofs
<1>2. /\ mesh.elements \in Seq(Cells) /\ mesh.boundary \in Seq(Cells)
      /\ \A i \in DOMAIN mesh.boundary : mesh.boundary[i].dofs # <<>>
  BY DEF SpaceAssumption
<1>3. \A c \in Cells : c.dofs \in Seq(H1Dofs)
  BY DEF Cells
<1>4. \A c \in Cells : Vertices(c) \subseteq H1Dofs
  BY <1>3 DEF Vertices
<1>5. \A c \in Cells : c.dofs # <<>> => c.dofs[1] \in Vertices(c)
  <2> SUFFICES ASSUME NEW c \in Cells, c.dofs # <<>> PROVE c.dofs[1] \in Vertices(c)
    OBVIOUS
  <2>1. c.dofs \in Seq(H1Dofs)
    BY <1>3
  <2>2. 1 \in DOMAIN c.dofs
    BY <2>1
  <2> QED BY <2>2 DEF Vertices
<1>6. /\ \A i \in DOMAIN mesh.boundary : mesh.boundary[i] \in Cells
      /\ \A i \in DOMAIN mesh.elements : mesh.elements[i] \in Cells
  BY <1>2
<1>7. Walls \subseteq DOMAIN mesh.boundary /\ Conducting \subseteq DOMAIN mesh.elements
  BY DEF Walls, Conducting, Marked
<1>8. essential \subseteq H1Dofs
  BY <1>4, <1>6, <1>7 DEF essential
<1> QED
  BY <1>1, <1>2, <1>4, <1>5, <1>6, <1>7, <1>8

\* The input of a call is what it was as long as none begins.
LEMMA InputKept ==
  ASSUME UNCHANGED <<mesh, ess_bdr>>
  PROVE  /\ essential' = essential /\ Walls' = Walls
         /\ \A S : ClosedInWalls(S)' <=> ClosedInWalls(S)
         /\ \A d, e : JoinedByWalls(d, e)' <=> JoinedByWalls(d, e)
         /\ conductor' = conductor =>
              /\ Conducting' = Conducting /\ InConductor' = InConductor
              /\ \A S : ClosedInConductor(S)' <=> ClosedInConductor(S)
              /\ \A d : Neighbours(d)' = Neighbours(d)
              /\ \A d, e : JoinedByConductor(d, e)' <=> JoinedByConductor(d, e)
              /\ \A d, e : JoinedByEither(d, e)' <=> JoinedByEither(d, e)
<1>1. Walls' = Walls /\ essential' = essential
  BY DEF Walls, Marked, essential
<1>2. \A S : ClosedInWalls(S)' <=> ClosedInWalls(S)
  BY <1>1 DEF ClosedInWalls
<1>3. \A d, e : JoinedByWalls(d, e)' <=> JoinedByWalls(d, e)
  BY <1>2 DEF JoinedByWalls
<1>4. ASSUME conductor' = conductor
      PROVE  /\ Conducting' = Conducting /\ InConductor' = InConductor
             /\ \A S : ClosedInConductor(S)' <=> ClosedInConductor(S)
             /\ \A d : Neighbours(d)' = Neighbours(d)
             /\ \A d, e : JoinedByConductor(d, e)' <=> JoinedByConductor(d, e)
             /\ \A d, e : JoinedByEither(d, e)' <=> JoinedByEither(d, e)
  <2>1. Conducting' = Conducting
    BY <1>4 DEF Conducting, Marked
  <2>2. InConductor' = InConductor /\ \A d : Neighbours(d)' = Neighbours(d)
    BY <2>1 DEF InConductor, Neighbours
  <2>3. \A S : ClosedInConductor(S)' <=> ClosedInConductor(S)
    BY <2>1 DEF ClosedInConductor
  <2>4. /\ \A d, e : JoinedByConductor(d, e)' <=> JoinedByConductor(d, e)
        /\ \A d, e : JoinedByEither(d, e)' <=> JoinedByEither(d, e)
    BY <1>2, <2>3 DEF JoinedByConductor, JoinedByEither
  <2> QED BY <2>1, <2>2, <2>3, <2>4
<1> QED BY <1>1, <1>2, <1>3, <1>4

\* Columns without a gap are no more than what has them.
LEMMA NoMoreThanDofs ==
  ASSUME SpaceAssumption, NEW n \in Nat, NEW f,
         \A j \in 0 .. n - 1 : \E d \in H1Dofs : f[d] = j
  PROVE  /\ n \in 0 .. NDof
         /\ f \in [H1Dofs -> (0 .. n - 1) \cup {None}] => NoIdleColumn(f, n)
<1> DEFINE A == 0 .. n - 1
           I == {f[d] : d \in H1Dofs}
           g == [d \in H1Dofs |-> f[d]]
<1>1. IsFiniteSet(H1Dofs) /\ Cardinality(H1Dofs) = NDof
  BY FS_Interval DEF SpaceAssumption, H1Dofs
<1>2. IsFiniteSet(I) /\ Cardinality(I) <= NDof
  <2>1. g \in Surjection(H1Dofs, I)
    BY DEF Surjection
  <2> QED BY <1>1, <2>1, FS_Surjection
<1>3. Cardinality(A) = n
  <2>1. 0 \in Int /\ n - 1 \in Int
    OBVIOUS
  <2>2. Cardinality(0 .. n - 1) = IF 0 > n - 1 THEN 0 ELSE (n - 1) - 0 + 1
    BY <2>1, FS_Interval
  <2> QED BY <2>2
<1>4. A \subseteq I
  OBVIOUS
<1>5. Cardinality(A) <= Cardinality(I) /\ Cardinality(I) \in Nat
  BY <1>2, <1>4, FS_Subset, FS_CardinalityType
<1>6. n \in 0 .. NDof
  BY <1>2, <1>3, <1>5 DEF SpaceAssumption
<1>7. ASSUME f \in [H1Dofs -> (0 .. n - 1) \cup {None}] PROVE NoIdleColumn(f, n)
  <2>1. None \notin A /\ \A d \in H1Dofs : f[d] \in A \cup {None}
    BY <1>7 DEF None
  <2>2. I \ {None} = A
    BY <1>4, <2>1
  <2> QED BY <2>2 DEF NoIdleColumn
<1> QED BY <1>6, <1>7

Early == {"walls", "pieces", "columns", "built"}

\* Where a loop stands that the calls in before have not come to.
Reached(loop, before) ==
  IF call \in before THEN 0 ELSE IF call = loop THEN counter ELSE NDof

StagesInv ==
  /\ mesh \in Meshes /\ ess_bdr \in EssBdrs /\ conductor \in Conductors \cup {{}}
  /\ call \in Early \cup {"parts", "groups", "gauge", "gauged", "pins", "projected"}
  /\ counter \in Nat
  /\ IF call = "walls" THEN counter <= Len(mesh.boundary) ELSE counter <= NDof

\* The map of the first union-find: what walls join, as far as the loop has come, has one
\* root, and no root is beyond what walls join.
WallsInv ==
  /\ joined \in [H1Dofs -> H1Dofs]
  /\ \A S \in SUBSET H1Dofs :
       ClosedInWalls(S) => \A d \in H1Dofs : d \in S <=> joined[d] \in S
  /\ \A i \in Walls : (call = "walls" => i <= counter) =>
       \A d, e \in Vertices(mesh.boundary[i]) : joined[d] = joined[e]

\* The roots of the essential degrees of freedom below k are numbered without a gap, the
\* least one's first.
PiecesNumbered(k) ==
  /\ wall_pieces \in Nat
  /\ wall_piece \in [H1Dofs -> Pieces \cup {None}]
  /\ root_piece \in [H1Dofs -> Pieces \cup {None}]
  /\ \A d \in H1Dofs :
       wall_piece[d] = IF d \in essential /\ d < k THEN root_piece[joined[d]] ELSE None
  /\ \A r \in H1Dofs :
       root_piece[r] # None <=> \E d \in essential : d < k /\ joined[d] = r
  /\ \A r, s \in H1Dofs : root_piece[r] = root_piece[s] => r = s \/ root_piece[r] = None
  /\ \A p \in Pieces : \E r \in H1Dofs : root_piece[r] = p
  /\ \A d \in essential : d < k /\ (\A e \in essential : d <= e) => wall_piece[d] = 0

PieceInv == PiecesNumbered(Reached("pieces", {"walls"}))

\* The degrees of freedom below k that have a column of their own.
ColumnsAssigned(k) ==
  /\ columns \in Nat
  /\ column \in [H1Dofs -> (0 .. columns - 1) \cup {None}]
  /\ \A d \in H1Dofs : column[d] # None <=> d < k /\ HasColumn(d)
  /\ \A d, e \in H1Dofs : column[d] = column[e] => d = e \/ column[d] = None
  /\ \A j \in 0 .. columns - 1 : \E d \in H1Dofs : column[d] = j

\* The constructor's space is exact.
ReducedSpace ==
  /\ columns \in 0 .. NDof /\ column \in [H1Dofs -> (0 .. columns - 1) \cup {None}]
  /\ \A d, e \in H1Dofs : column[d] = column[e] <=> JoinedByWalls(d, e)
  /\ column[Zero] = None
  /\ NoIdleColumn(column, columns)

ColumnInv ==
  IF call \in {"walls", "pieces", "columns"}
  THEN ColumnsAssigned(IF call = "columns" THEN counter ELSE 0)
  ELSE ReducedSpace

\* The parts begun so far, those below k among them: what is off the stack has its
\* neighbours in its part, and no part is beyond what the conductor joins.
PartsNumbered(k) ==
  /\ grounded \in Seq(BOOLEAN) /\ stack \subseteq H1Dofs
  /\ part \in [H1Dofs -> Parts \cup {None}]
  /\ \A d \in H1Dofs : part[d] # None => d \in InConductor
  /\ \A d \in H1Dofs : d < k /\ d \in InConductor => part[d] # None
  /\ \A d \in H1Dofs \ stack : part[d] # None => \A e \in Neighbours(d) : part[e] = part[d]
  /\ \A d \in stack : part[d] = Len(grounded) - 1 /\ part[d] # None
  /\ \A c \in Parts : Grounded(c) <=> \E d \in essential \ stack : part[d] = c
  /\ \A c \in Parts : \E d \in H1Dofs : part[d] = c
  /\ \A S \in SUBSET H1Dofs : ClosedInConductor(S) =>
       \A d, e \in H1Dofs : part[d] = part[e] /\ part[d] # None => (d \in S <=> e \in S)

NoParts ==
  part = [d \in H1Dofs |-> None] /\ grounded = <<>> /\ stack = {}

PartInv ==
  IF call \in Early THEN NoParts
  ELSE /\ PartsNumbered(IF call = "parts" THEN counter ELSE NDof)
       /\ call # "parts" => stack = {}

\* The second union-find: the pieces that the parts of the essential degrees of freedom
\* below k join have one root, and no root is beyond what walls and conductor join.
GroupsJoined(k) ==
  /\ group \in [H1Dofs -> H1Dofs] /\ part_piece \in [H1Dofs -> Pieces \cup {None}]
  /\ \A q \in Pieces : group[q] \in Pieces /\ group[group[q]] = group[q]
  /\ \A e \in essential : e < k /\ part[e] # None =>
       /\ part_piece[part[e]] # None
       /\ group[part_piece[part[e]]] = group[wall_piece[e]]
  /\ \A S \in SUBSET H1Dofs : ClosedInWalls(S) /\ ClosedInConductor(S) =>
       /\ \A d, e \in essential :
            group[wall_piece[d]] = group[wall_piece[e]] => (d \in S <=> e \in S)
       /\ \A d \in essential, e \in H1Dofs :
            /\ part[e] # None /\ part_piece[part[e]] # None
            /\ group[wall_piece[d]] = group[part_piece[part[e]]]
            => (d \in S <=> e \in S)

NoGroups ==
  group = [d \in H1Dofs |-> d] /\ part_piece = [d \in H1Dofs |-> None]

GroupInv ==
  IF call \in {"groups", "gauge", "gauged"}
  THEN GroupsJoined(IF call = "groups" THEN counter ELSE NDof)
  ELSE NoGroups

\* What decides about the column of a degree of freedom: its group of walls, itself
\* alone, or its part.
WallKey(g) == <<"wall", g>>
OwnKey(d) == <<"own", d>>
PartKey(c) == <<"part", c>>
Key(d) ==
  IF d \in essential THEN WallKey(group[wall_piece[d]])
  ELSE IF part[d] = None THEN OwnKey(d)
  ELSE IF Grounded(part[d]) THEN WallKey(group[part_piece[part[d]]])
  ELSE PartKey(part[d])
Reference == WallKey(group[0])

\* The degrees of freedom below k have the columns of their keys.
ColumnsGiven(k) ==
  /\ multipliers \in Nat
  /\ gauge \in [H1Dofs -> (0 .. multipliers - 1) \cup {None}]
  /\ group_column \in [H1Dofs -> (0 .. multipliers - 1) \cup {None}]
  /\ part_column \in [H1Dofs -> (0 .. multipliers - 1) \cup {None}]
  /\ \A d \in H1Dofs : gauge[d] # None <=> d < k /\ Key(d) # Reference
  /\ \A d, e \in H1Dofs : d < k /\ e < k => (gauge[d] = gauge[e] <=> Key(d) = Key(e))
  /\ \A j \in 0 .. multipliers - 1 : \E d \in H1Dofs : gauge[d] = j
  /\ \A d \in H1Dofs : \A g \in H1Dofs :
       d < k /\ Key(d) = WallKey(g) /\ Key(d) # Reference => group_column[g] = gauge[d]
  /\ \A d \in H1Dofs : \A c \in H1Dofs :
       d < k /\ Key(d) = PartKey(c) => part_column[c] = gauge[d]
  /\ \A g \in H1Dofs : group_column[g] # None => \E d \in H1Dofs : d < k /\ Key(d) = WallKey(g)
  /\ \A c \in H1Dofs : part_column[c] # None => \E d \in H1Dofs : d < k /\ Key(d) = PartKey(c)
  /\ essential = {} /\ k > 0 => gauge[0] = 0

\* The gauge's space is exact.
GaugeExact ==
  /\ multipliers \in 0 .. NDof /\ gauge \in [H1Dofs -> (0 .. multipliers - 1) \cup {None}]
  /\ part_column \in [H1Dofs -> H1Dofs \cup {None}]
  /\ group_column \in [H1Dofs -> H1Dofs \cup {None}]
  /\ \A d, e \in H1Dofs : gauge[d] = gauge[e] <=> JoinedByEither(d, e)
  /\ gauge[Zero] = None
  /\ NoIdleColumn(gauge, multipliers)

NoColumns ==
  /\ multipliers = 0 /\ gauge = [d \in H1Dofs |-> None]
  /\ group_column = [d \in H1Dofs |-> None] /\ part_column = [d \in H1Dofs |-> None]

GaugeInv ==
  IF call = "gauged" THEN GaugeExact
  ELSE IF call = "gauge" THEN ColumnsGiven(counter)
  ELSE NoColumns

\* Each part with a degree of freedom below k that is not grounded has one pin there.
PinsSet(k) ==
  /\ pinned \subseteq Parts
  /\ \A d \in free : d \in H1Dofs /\ d < k /\ part[d] # None /\ d \notin essential
  /\ \A d \in H1Dofs : d < k /\ part[d] # None /\ d \notin essential =>
       d \in free \/ (~Grounded(part[d]) /\ part[d] \in pinned)
  /\ \A d \in free : Grounded(part[d]) \/ part[d] \in pinned
  /\ \A c \in pinned : \E p \in H1Dofs :
       /\ p < k /\ part[p] = c /\ p \notin free /\ ~Grounded(c)
       /\ \A d \in H1Dofs : d < k /\ part[d] = c /\ d # p => d \in free

PinInv ==
  IF call \in {"pins", "projected"} THEN PinsSet(IF call = "pins" THEN counter ELSE NDof)
  ELSE free = {} /\ pinned = {}

GInv ==
  /\ StagesInv /\ WallsInv /\ PieceInv /\ ColumnInv /\ PartInv /\ GroupInv /\ GaugeInv
  /\ PinInv

LEMMA WallsStart ==
  ASSUME SpaceAssumption, GInit PROVE WallsInv
<1>1. joined = [d \in H1Dofs |-> d] /\ call = "walls" /\ counter = 0 /\ mesh \in Meshes
  BY DEF GInit
<1>2. \A i \in Walls : i \in Nat \ {0}
  BY <1>1, CellsHaveDofs
<1>3. \A i \in Walls : ~(i <= counter)
  BY <1>1, <1>2
<1> QED BY <1>1, <1>3 DEF WallsInv

\* Joining one more boundary element.
LEMMA WallsMerge ==
  ASSUME SpaceAssumption, StagesInv, WallsInv, Merge PROVE WallsInv'
<1> DEFINE i == counter + 1
           V == Vertices(mesh.boundary[i])
           r == joined[mesh.boundary[i].dofs[1]]
<1>1. /\ UNCHANGED <<mesh, ess_bdr>> /\ call = "walls" /\ call' = "walls" /\ counter' = i
      /\ joined' = IF i \in Walls THEN JoinWall(i) ELSE joined
      /\ counter \in Nat /\ mesh \in Meshes
  BY DEF Merge, input, StagesInv
<1>2. /\ Walls' = Walls /\ \A S : ClosedInWalls(S)' <=> ClosedInWalls(S)
      /\ \A j \in Walls : Vertices(mesh.boundary[j])' = Vertices(mesh.boundary[j])
  BY <1>1, InputKept DEF Vertices
<1>3. \A j \in Walls : j \in Nat /\ Vertices(mesh.boundary[j]) \subseteq H1Dofs
  BY <1>1, CellsHaveDofs
<1>4. CASE i \notin Walls
  <2>1. joined' = joined /\ \A j \in Walls : j <= i => j <= counter
    BY <1>1, <1>3, <1>4
  <2> QED BY <1>1, <1>2, <2>1 DEF WallsInv
<1>5. CASE i \in Walls
  <2>1. V \subseteq H1Dofs /\ mesh.boundary[i].dofs[1] \in V
    BY <1>1, <1>5, CellsHaveDofs
  <2>2. \A d \in H1Dofs :
          joined'[d] = IF joined[d] \in {joined[e] : e \in V} THEN r ELSE joined[d]
    BY <1>1, <1>5 DEF JoinWall
  <2>3. joined \in [H1Dofs -> H1Dofs] /\ r \in H1Dofs
    BY <2>1 DEF WallsInv
  <2>4. joined' \in [H1Dofs -> H1Dofs]
    BY <1>1, <1>5, <2>3 DEF JoinWall
  <2>5. ASSUME NEW S \in SUBSET H1Dofs, ClosedInWalls(S), NEW d \in H1Dofs
        PROVE  d \in S <=> joined'[d] \in S
    <3>1. \A e \in H1Dofs : e \in S <=> joined[e] \in S
      BY <2>5 DEF WallsInv
    <3>2. \A e, f \in V : e \in S <=> f \in S
      BY <1>5, <2>5 DEF ClosedInWalls
    <3>3. CASE joined[d] \in {joined[e] : e \in V}
      <4>1. PICK e \in V : joined[d] = joined[e]
        BY <3>3
      <4>2. joined'[d] = r
        BY <2>2, <3>3
      <4>3. r \in S <=> mesh.boundary[i].dofs[1] \in S
        BY <2>1, <3>1
      <4> QED BY <2>1, <3>1, <3>2, <4>1, <4>2, <4>3
    <3>4. CASE joined[d] \notin {joined[e] : e \in V}
      BY <2>2, <3>1, <3>4
    <3> QED BY <3>3, <3>4
  <2>6. ASSUME NEW j \in Walls, j <= i, NEW d \in Vertices(mesh.boundary[j]),
               NEW e \in Vertices(mesh.boundary[j])
        PROVE  joined'[d] = joined'[e]
    <3>1. d \in H1Dofs /\ e \in H1Dofs
      BY <1>3
    <3>2. CASE j = i
      <4>1. joined'[d] = r /\ joined'[e] = r
        BY <2>2, <3>1, <3>2
      <4> QED BY <4>1
    <3>3. CASE j # i
      <4>1. joined[d] = joined[e]
        BY <1>1, <1>3, <2>6, <3>3 DEF WallsInv
      <4> QED BY <2>2, <3>1, <4>1
    <3> QED BY <3>2, <3>3
  <2>7. \A S \in SUBSET H1Dofs :
          ClosedInWalls(S)' => \A d \in H1Dofs : d \in S <=> joined'[d] \in S
    BY <1>2, <2>5
  <2>8. \A j \in Walls' : (call' = "walls" => j <= counter') =>
          \A d, e \in Vertices(mesh.boundary[j])' : joined'[d] = joined'[e]
    BY <1>1, <1>2, <2>6
  <2>9. H1Dofs' = H1Dofs
    OBVIOUS
  <2> QED BY <2>4, <2>7, <2>8 DEF WallsInv
<1> QED BY <1>4, <1>5

\* The map is complete when the loop is through, and nothing changes it then.
LEMMA WallsKept ==
  ASSUME SpaceAssumption, StagesInv, WallsInv, UNCHANGED <<mesh, ess_bdr, joined>>,
         \/ call = "walls" /\ counter = Len(mesh.boundary) /\ call' # "walls"
         \/ call # "walls" /\ call' # "walls"
         \/ UNCHANGED <<call, counter>>
  PROVE  WallsInv'
<1>1. /\ Walls' = Walls /\ \A S : ClosedInWalls(S)' <=> ClosedInWalls(S)
      /\ \A j \in Walls : Vertices(mesh.boundary[j])' = Vertices(mesh.boundary[j])
  BY InputKept DEF Vertices
<1>2. \A j \in Walls : j <= Len(mesh.boundary)
  BY CellsHaveDofs DEF StagesInv
<1>3. \A j \in Walls : (call' = "walls" => j <= counter') => (call = "walls" => j <= counter)
  BY <1>2
<1> QED BY <1>1, <1>3 DEF WallsInv

\* So it has one value on each connected piece of the walls, and no other's.
LEMMA WallsExact ==
  ASSUME SpaceAssumption, StagesInv, WallsInv, call # "walls"
  PROVE  \A d, e \in H1Dofs : joined[d] = joined[e] <=> JoinedByWalls(d, e)
<1> SUFFICES ASSUME NEW d \in H1Dofs, NEW e \in H1Dofs
             PROVE  joined[d] = joined[e] <=> JoinedByWalls(d, e)
  OBVIOUS
<1>1. ASSUME joined[d] = joined[e] PROVE JoinedByWalls(d, e)
  BY <1>1 DEF WallsInv, JoinedByWalls
<1>2. ASSUME JoinedByWalls(d, e) PROVE joined[d] = joined[e]
  <2> DEFINE S == {w \in H1Dofs : joined[w] = joined[d]}
  <2>1. \A i \in Walls : Vertices(mesh.boundary[i]) \subseteq H1Dofs
    BY CellsHaveDofs DEF StagesInv
  <2>2. ClosedInWalls(S)
    BY <2>1 DEF WallsInv, ClosedInWalls
  <2>3. S \in SUBSET H1Dofs /\ d \in S
    OBVIOUS
  <2>4. e \in S
    BY <1>2, <2>2, <2>3 DEF JoinedByWalls
  <2> QED BY <2>4
<1> QED BY <1>1, <1>2

LEMMA PiecesStart ==
  ASSUME SpaceAssumption, GInit PROVE PieceInv
<1>1. /\ call = "walls" /\ wall_pieces = 0 /\ mesh \in Meshes
      /\ wall_piece = [d \in H1Dofs |-> None] /\ root_piece = [d \in H1Dofs |-> None]
  BY DEF GInit
<1>2. Reached("pieces", {"walls"}) = 0
  BY <1>1 DEF Reached
<1>3. Pieces = {} /\ \A d \in H1Dofs : ~(d < 0)
  BY <1>1 DEF Pieces, H1Dofs
<1>4. essential \subseteq H1Dofs
  BY <1>1, CellsHaveDofs
<1>5. \A d \in H1Dofs : wall_piece[d] = None /\ root_piece[d] = None
  BY <1>1
<1>6. PiecesNumbered(0)
  BY <1>1, <1>3, <1>4, <1>5 DEF PiecesNumbered
<1> QED BY <1>2, <1>6 DEF PieceInv

\* Numbering the root of one more degree of freedom.
LEMMA PiecesNumber ==
  ASSUME SpaceAssumption, StagesInv, WallsInv, PieceInv, NumberPiece PROVE PieceInv'
<1>0. PICK k : k = counter
  OBVIOUS
<1> DEFINE r == joined[k]
<1>1. /\ call = "pieces" /\ k \in H1Dofs /\ counter' = k + 1 /\ call' = "pieces"
      /\ UNCHANGED <<mesh, ess_bdr, joined>> /\ mesh \in Meshes
      /\ k \in Nat
  BY <1>0 DEF NumberPiece, input, wall, StagesInv
<1>2. PiecesNumbered(k)
  BY <1>0, <1>1 DEF PieceInv, Reached
<1>3. /\ essential' = essential /\ essential \subseteq H1Dofs
      /\ \A d \in H1Dofs : d \in Nat
  BY <1>1, InputKept, CellsHaveDofs DEF H1Dofs
<1>4. SUFFICES PiecesNumbered(k + 1)'
  BY <1>1 DEF PieceInv, Reached
<1>5. \A d \in H1Dofs : d < k + 1 <=> d < k \/ d = k
  BY <1>1, <1>3
<1>6. joined \in [H1Dofs -> H1Dofs] /\ r \in H1Dofs
  BY <1>1 DEF WallsInv
<1>7. CASE k \notin essential
  <2>1. UNCHANGED <<wall_piece, wall_pieces, root_piece>>
    BY <1>0, <1>7 DEF NumberPiece, wall
  <2>2. \A d \in essential : d < k + 1 <=> d < k
    BY <1>3, <1>5, <1>7
  <2> QED BY <1>1, <1>2, <1>3, <2>1, <2>2 DEF PiecesNumbered, Pieces
<1>8. CASE k \in essential /\ root_piece[r] = None
  <2> DEFINE p == wall_pieces
  <2>1. /\ root_piece' = [root_piece EXCEPT ![r] = p] /\ wall_pieces' = p + 1
        /\ wall_piece' = [wall_piece EXCEPT ![k] = p]
    BY <1>0, <1>8 DEF NumberPiece
  <2>2. /\ p \in Nat
        /\ wall_piece \in [H1Dofs -> Pieces \cup {None}]
        /\ root_piece \in [H1Dofs -> Pieces \cup {None}]
    BY <1>2 DEF PiecesNumbered
  <2>3. Pieces' = Pieces \cup {p} /\ p \notin Pieces /\ p # None /\ None \notin Pieces
    BY <2>1, <2>2 DEF Pieces, None
  <2>4. /\ wall_piece' \in [H1Dofs -> Pieces' \cup {None}]
        /\ root_piece' \in [H1Dofs -> Pieces' \cup {None}]
        /\ \A d \in H1Dofs : wall_piece'[d] = IF d = k THEN p ELSE wall_piece[d]
        /\ \A d \in H1Dofs : root_piece'[d] = IF d = r THEN p ELSE root_piece[d]
    BY <1>1, <1>6, <2>1, <2>2, <2>3
  <2>5. \A d \in essential : d < k => joined[d] # r
    BY <1>3, <1>6, <1>8, <1>2 DEF PiecesNumbered
  <2>6. \A d \in H1Dofs :
          wall_piece'[d] = IF d \in essential /\ d < k + 1 THEN root_piece'[joined[d]] ELSE None
    <3> SUFFICES ASSUME NEW d \in H1Dofs
                 PROVE  wall_piece'[d] = IF d \in essential /\ d < k + 1
                                         THEN root_piece'[joined[d]] ELSE None
      OBVIOUS
    <3>1. wall_piece[d] = IF d \in essential /\ d < k THEN root_piece[joined[d]] ELSE None
      BY <1>2 DEF PiecesNumbered
    <3>2. joined[d] \in H1Dofs
      BY <1>6
    <3> QED BY <1>5, <1>8, <2>4, <2>5, <3>1, <3>2
  <2>7. \A s \in H1Dofs :
          root_piece'[s] # None <=> \E d \in essential : d < k + 1 /\ joined[d] = s
    <3> SUFFICES ASSUME NEW s \in H1Dofs
                 PROVE  root_piece'[s] # None <=> \E d \in essential : d < k + 1 /\ joined[d] = s
      OBVIOUS
    <3>1. root_piece[s] # None <=> \E d \in essential : d < k /\ joined[d] = s
      BY <1>2 DEF PiecesNumbered
    <3> QED BY <1>3, <1>5, <1>8, <2>3, <2>4, <3>1
  <2>8. \A s, t \in H1Dofs :
          root_piece'[s] = root_piece'[t] => s = t \/ root_piece'[s] = None
    <3>1. \A s \in H1Dofs : root_piece[s] # p
      BY <2>2, <2>3
    <3> QED BY <1>2, <2>4, <3>1 DEF PiecesNumbered
  <2>9. \A q \in Pieces' : \E s \in H1Dofs : root_piece'[s] = q
    <3>1. \A q \in Pieces : \E s \in H1Dofs : root_piece[s] = q /\ s # r
      BY <1>2, <1>8, <2>3 DEF PiecesNumbered
    <3> QED BY <1>6, <2>3, <2>4, <3>1
  <2>10. \A d \in essential : d < k + 1 /\ (\A e \in essential : d <= e) => wall_piece'[d] = 0
    <3> SUFFICES ASSUME NEW d \in essential, d < k + 1, \A e \in essential : d <= e
                 PROVE  wall_piece'[d] = 0
      OBVIOUS
    <3>1. CASE d = k
      <4>1. \A s \in H1Dofs : root_piece[s] = None
        <5>1. \A e \in essential : ~(e < k)
          <6> SUFFICES ASSUME NEW e \in essential PROVE ~(e < k)
            OBVIOUS
          <6>1. k \in Nat /\ e \in Nat /\ k <= e
            BY <1>1, <1>3, <3>1
          <6> QED BY <6>1
        <5> QED BY <1>2, <5>1 DEF PiecesNumbered
      <4>2. Pieces = {}
        BY <1>2, <2>3, <4>1 DEF PiecesNumbered
      <4>3. p = 0
        BY <2>2, <4>2 DEF Pieces
      <4> QED BY <1>1, <2>4, <3>1, <4>3
    <3>2. CASE d < k
      <4>1. wall_piece[d] = 0
        BY <1>2, <3>2 DEF PiecesNumbered
      <4> QED BY <1>1, <1>3, <2>4, <3>2, <4>1
    <3> QED BY <1>3, <1>5, <3>1, <3>2
  <2>11. wall_pieces' \in Nat
    BY <2>1, <2>2
  <2> HIDE DEF r, p
  <2> QED BY <1>1, <1>3, <2>4, <2>6, <2>7, <2>8, <2>9, <2>10, <2>11 DEF PiecesNumbered
<1>9. CASE k \in essential /\ root_piece[r] # None
  <2> DEFINE p == root_piece[r]
  <2>1. /\ root_piece' = [root_piece EXCEPT ![r] = p] /\ wall_pieces' = wall_pieces
        /\ wall_piece' = [wall_piece EXCEPT ![k] = p]
    BY <1>0, <1>9 DEF NumberPiece
  <2>2. /\ wall_piece \in [H1Dofs -> Pieces \cup {None}]
        /\ root_piece \in [H1Dofs -> Pieces \cup {None}]
    BY <1>2 DEF PiecesNumbered
  <2>3. Pieces' = Pieces /\ p \in Pieces /\ root_piece' = root_piece
    BY <1>6, <1>9, <2>1, <2>2 DEF Pieces
  <2>4. /\ wall_piece' \in [H1Dofs -> Pieces \cup {None}]
        /\ \A d \in H1Dofs : wall_piece'[d] = IF d = k THEN p ELSE wall_piece[d]
    BY <1>1, <2>1, <2>2, <2>3
  <2>5. PICK f \in essential : f < k /\ joined[f] = r
    BY <1>2, <1>6, <1>9 DEF PiecesNumbered
  <2>6. \A d \in H1Dofs :
          wall_piece'[d] = IF d \in essential /\ d < k + 1 THEN root_piece'[joined[d]] ELSE None
    BY <1>2, <1>5, <1>9, <2>3, <2>4 DEF PiecesNumbered
  <2>7. \A s \in H1Dofs :
          root_piece'[s] # None <=> \E d \in essential : d < k + 1 /\ joined[d] = s
    <3> SUFFICES ASSUME NEW s \in H1Dofs
                 PROVE  root_piece[s] # None <=> \E d \in essential : d < k + 1 /\ joined[d] = s
      BY <2>3
    <3>1. root_piece[s] # None <=> \E d \in essential : d < k /\ joined[d] = s
      BY <1>2 DEF PiecesNumbered
    <3> QED BY <1>3, <1>5, <1>9, <3>1
  <2>8. \A d \in essential : d < k + 1 /\ (\A e \in essential : d <= e) => wall_piece'[d] = 0
    <3> SUFFICES ASSUME NEW d \in essential, d < k + 1, \A e \in essential : d <= e
                 PROVE  wall_piece'[d] = 0
      OBVIOUS
    <3>1. d <= f /\ d \in Nat /\ f \in Nat
      BY <1>3, <2>5
    <3>2. d < k
      BY <1>1, <2>5, <3>1
    <3>3. wall_piece[d] = 0
      BY <1>2, <3>2 DEF PiecesNumbered
    <3>4. d \in H1Dofs /\ d # k
      BY <1>1, <1>3, <3>2
    <3> QED BY <2>4, <3>3, <3>4
  <2>9. /\ root_piece' \in [H1Dofs -> Pieces' \cup {None}]
        /\ wall_piece' \in [H1Dofs -> Pieces' \cup {None}]
        /\ \A q \in Pieces' : \E s \in H1Dofs : root_piece'[s] = q
        /\ \A s, u \in H1Dofs :
             root_piece'[s] = root_piece'[u] => s = u \/ root_piece'[s] = None
        /\ wall_pieces' \in Nat
    <3>1. Pieces' = Pieces /\ root_piece' = root_piece /\ wall_pieces' = wall_pieces
          /\ wall_piece' \in [H1Dofs -> Pieces \cup {None}]
      BY <2>1, <2>3, <2>4
    <3> QED BY <1>2, <3>1 DEF PiecesNumbered
  <2> HIDE DEF r, p
  <2> QED
    BY <1>1, <1>3, <2>6, <2>7, <2>8, <2>9 DEF PiecesNumbered
<1> QED BY <1>7, <1>8, <1>9

\* The numbers stay when the loop is through.
LEMMA PiecesKept ==
  ASSUME SpaceAssumption, StagesInv, PieceInv,
         UNCHANGED <<mesh, ess_bdr, joined, wall_piece, wall_pieces, root_piece>>,
         Reached("pieces", {"walls"})' = Reached("pieces", {"walls"})
  PROVE  PieceInv'
<1>1. essential' = essential
  BY InputKept
<1> DEFINE k == Reached("pieces", {"walls"})
<1>2. PiecesNumbered(k)
  BY DEF PieceInv
<1> HIDE DEF k
<1>3. PiecesNumbered(k)'
  <2>1. k' = k
    BY DEF k
  <2> QED BY <1>1, <1>2, <2>1 DEF PiecesNumbered, Pieces
<1> QED BY <1>3 DEF PieceInv, k

\* What the numbers say when the loop is through.
PiecesExact ==
  /\ wall_pieces \in 0 .. NDof /\ Pieces \subseteq H1Dofs
  /\ wall_piece \in [H1Dofs -> Pieces \cup {None}]
  /\ root_piece \in [H1Dofs -> Pieces \cup {None}]
  /\ \A d \in H1Dofs : wall_piece[d] # None <=> d \in essential
  /\ \A d, e \in essential : wall_piece[d] = wall_piece[e] <=> JoinedByWalls(d, e)
  /\ \A p \in Pieces : \E d \in essential : wall_piece[d] = p
  /\ \A d \in essential : (\A e \in essential : d <= e) => wall_piece[d] = 0

LEMMA PiecesDoneExact ==
  ASSUME SpaceAssumption, StagesInv, WallsInv, PieceInv,
         call # "walls", call = "pieces" => counter = NDof
  PROVE  PiecesExact
<1>1. PiecesNumbered(NDof)
  BY DEF PieceInv, Reached
<1>2. /\ essential \subseteq H1Dofs /\ \A d \in H1Dofs : d < NDof
      /\ joined \in [H1Dofs -> H1Dofs]
  BY CellsHaveDofs DEF StagesInv, H1Dofs, WallsInv
<1>3. \A d \in essential : wall_piece[d] = root_piece[joined[d]] /\ wall_piece[d] # None
  BY <1>1, <1>2 DEF PiecesNumbered
<1>4. \A d \in H1Dofs : d \notin essential => wall_piece[d] = None
  BY <1>1 DEF PiecesNumbered
<1>5. \A p \in Pieces : \E d \in essential : wall_piece[d] = p
  <2> SUFFICES ASSUME NEW p \in Pieces PROVE \E d \in essential : wall_piece[d] = p
    OBVIOUS
  <2>1. PICK s \in H1Dofs : root_piece[s] = p
    BY <1>1 DEF PiecesNumbered
  <2>2. root_piece[s] # None
    BY <2>1 DEF Pieces, None
  <2>3. PICK d \in essential : joined[d] = s
    BY <1>1, <2>2 DEF PiecesNumbered
  <2> QED BY <1>3, <2>1, <2>3
<1>6. wall_pieces \in 0 .. NDof
  <2>1. wall_pieces \in Nat /\ \A j \in 0 .. wall_pieces - 1 : \E d \in H1Dofs : wall_piece[d] = j
    BY <1>1, <1>2, <1>5 DEF Pieces, PiecesNumbered
  <2> QED BY <2>1, NoMoreThanDofs
<1>7. Pieces \subseteq H1Dofs
  BY <1>6 DEF Pieces, H1Dofs, SpaceAssumption
<1>8. \A d, e \in essential : wall_piece[d] = wall_piece[e] <=> JoinedByWalls(d, e)
  <2> SUFFICES ASSUME NEW d \in essential, NEW e \in essential
               PROVE  wall_piece[d] = wall_piece[e] <=> JoinedByWalls(d, e)
    OBVIOUS
  <2>1. joined[d] = joined[e] <=> JoinedByWalls(d, e)
    BY <1>2, WallsExact
  <2>2. root_piece[joined[d]] = root_piece[joined[e]] => joined[d] = joined[e]
    BY <1>1, <1>2, <1>3 DEF PiecesNumbered
  <2> QED BY <1>3, <2>1, <2>2
<1> QED
  BY <1>1, <1>2, <1>3, <1>4, <1>5, <1>6, <1>7, <1>8 DEF PiecesNumbered, PiecesExact

\* Off the walls a degree of freedom is joined to itself only.
LEMMA AloneOffWalls ==
  ASSUME NEW d \in H1Dofs, d \notin essential, NEW e \in H1Dofs
  PROVE  /\ JoinedByWalls(d, e) => e = d
         /\ JoinedByWalls(e, d) => e = d
<1>1. ClosedInWalls({d})
  BY DEF ClosedInWalls, essential
<1> QED BY <1>1 DEF JoinedByWalls

\* Where psi is zero.
LEMMA ZeroIsLeast ==
  ASSUME SpaceAssumption, mesh \in Meshes
  PROVE  /\ Zero \in H1Dofs
         /\ essential = {} => Zero = 0
         /\ essential # {} => Zero \in essential /\ \A e \in essential : Zero <= e
<1>1. essential \subseteq H1Dofs /\ 0 \in H1Dofs /\ H1Dofs \subseteq Nat
  BY CellsHaveDofs DEF H1Dofs
<1>2. CASE essential # {}
  <2>1. \E m \in essential : \A k \in essential : m <= k
    BY <1>1, <1>2, LeastNumber
  <2>2. Least(essential) \in essential /\ \A k \in essential : Least(essential) <= k
    BY <2>1 DEF Least
  <2> QED BY <1>1, <1>2, <2>2 DEF Zero
<1> QED BY <1>1, <1>2 DEF Zero

LEMMA ColumnsStart ==
  ASSUME SpaceAssumption, GInit PROVE ColumnInv
<1>1. call = "walls" /\ columns = 0 /\ column = [d \in H1Dofs |-> None]
  BY DEF GInit
<1>2. \A d \in H1Dofs : ~(d < 0) /\ column[d] = None
  BY <1>1 DEF H1Dofs
<1>3. ColumnsAssigned(0)
  BY <1>1, <1>2 DEF ColumnsAssigned
<1> QED BY <1>1, <1>3 DEF ColumnInv

\* A column for one more degree of freedom.
LEMMA ColumnsAssign ==
  ASSUME SpaceAssumption, StagesInv, ColumnInv, AssignColumn PROVE ColumnInv'
<1>0. PICK k : k = counter
  OBVIOUS
<1>1. /\ call = "columns" /\ k \in H1Dofs /\ counter' = k + 1 /\ call' = "columns"
      /\ UNCHANGED <<mesh, ess_bdr>> /\ k \in Nat
  BY <1>0 DEF AssignColumn, input, StagesInv
<1>2. ColumnsAssigned(k)
  BY <1>0, <1>1 DEF ColumnInv
<1>3. SUFFICES ColumnsAssigned(k + 1)'
  BY <1>1 DEF ColumnInv
<1>4. \A d \in H1Dofs : HasColumn(d)' <=> HasColumn(d)
  BY <1>1, InputKept DEF HasColumn
<1>5. \A d \in H1Dofs : d < k + 1 <=> d < k \/ d = k
  BY <1>1 DEF H1Dofs
<1>6. CASE ~HasColumn(k)
  <2>1. UNCHANGED <<column, columns>>
    BY <1>0, <1>6 DEF AssignColumn, space
  <2> QED BY <1>2, <1>4, <1>5, <1>6, <2>1 DEF ColumnsAssigned
<1>7. CASE HasColumn(k)
  <2>1. column' = [column EXCEPT ![k] = columns] /\ columns' = columns + 1
    BY <1>0, <1>7 DEF AssignColumn
  <2>2. /\ columns \in Nat /\ column \in [H1Dofs -> (0 .. columns - 1) \cup {None}]
        /\ \A d \in H1Dofs : column[d] # None <=> d < k /\ HasColumn(d)
        /\ \A d, e \in H1Dofs : column[d] = column[e] => d = e \/ column[d] = None
        /\ \A j \in 0 .. columns - 1 : \E d \in H1Dofs : column[d] = j
    BY <1>2 DEF ColumnsAssigned
  <2>3. /\ 0 .. columns' - 1 = (0 .. columns - 1) \cup {columns} /\ columns # None
        /\ columns \notin 0 .. columns - 1
    BY <2>1, <2>2 DEF None
  <2>4. /\ column' \in [H1Dofs -> (0 .. columns' - 1) \cup {None}]
        /\ \A d \in H1Dofs : column'[d] = IF d = k THEN columns ELSE column[d]
        /\ \A d \in H1Dofs : column[d] # columns
    BY <1>1, <2>1, <2>2, <2>3
  <2>5. columns' \in Nat
    BY <2>1, <2>2
  <2>6. column[k] = None
    BY <1>1, <2>2
  <2>7. \A j \in 0 .. columns' - 1 : \E d \in H1Dofs : column'[d] = j
    <3>1. \A j \in 0 .. columns - 1 : j # None
      BY <2>2 DEF None
    <3>2. \A j \in 0 .. columns - 1 : \E d \in H1Dofs : column[d] = j /\ d # k
      BY <2>2, <2>6, <3>1
    <3> QED BY <1>1, <2>3, <2>4, <3>2
  <2>8. \A d \in H1Dofs : column'[d] # None <=> d < k + 1 /\ HasColumn(d)
    BY <1>5, <1>7, <2>2, <2>3, <2>4
  <2>9. \A d, e \in H1Dofs : column'[d] = column'[e] => d = e \/ column'[d] = None
    BY <2>2, <2>4
  <2> QED BY <1>4, <2>4, <2>5, <2>7, <2>8, <2>9 DEF ColumnsAssigned
<1> QED BY <1>6, <1>7

\* With the columns of the pieces the space is exact.
LEMMA ColumnsDone ==
  ASSUME SpaceAssumption, StagesInv, PiecesExact, ColumnInv, AssignPieces
  PROVE  ReducedSpace'
<1>1. /\ call = "columns" /\ counter = NDof /\ UNCHANGED <<mesh, ess_bdr>>
      /\ column' = [d \in H1Dofs |-> IF d \in essential THEN PieceColumn(wall_piece[d])
                                                      ELSE column[d]]
      /\ columns' = IF wall_pieces = 0 THEN columns ELSE columns + wall_pieces - 1
  BY DEF AssignPieces, input
<1>2. /\ columns \in Nat /\ column \in [H1Dofs -> (0 .. columns - 1) \cup {None}]
      /\ \A d \in H1Dofs : column[d] # None <=> HasColumn(d)
      /\ \A d, e \in H1Dofs : column[d] = column[e] => d = e \/ column[d] = None
      /\ \A j \in 0 .. columns - 1 : \E d \in H1Dofs : column[d] = j
  <2>1. \A d \in H1Dofs : d < NDof
    BY DEF H1Dofs, SpaceAssumption
  <2> QED BY <1>1, <2>1 DEF ColumnInv, ColumnsAssigned
<1>3. /\ essential \subseteq H1Dofs /\ mesh \in Meshes /\ 0 \in H1Dofs
      /\ H1Dofs \subseteq Nat
  BY CellsHaveDofs DEF StagesInv, H1Dofs
<1>4. /\ wall_pieces \in Nat /\ Pieces = 0 .. wall_pieces - 1
      /\ \A d \in essential : wall_piece[d] \in Pieces
  <2>1. \A d \in essential : wall_piece[d] \in Pieces \cup {None} /\ wall_piece[d] # None
    BY <1>3 DEF PiecesExact
  <2> QED BY <2>1 DEF PiecesExact, Pieces, SpaceAssumption
<1>5. SUFFICES /\ columns' \in Nat
               /\ column' \in [H1Dofs -> (0 .. columns' - 1) \cup {None}]
               /\ \A d, e \in H1Dofs : column'[d] = column'[e] <=> JoinedByWalls(d, e)
               /\ column'[Zero] = None
               /\ \A j \in 0 .. columns' - 1 : \E d \in H1Dofs : column'[d] = j
  <2>1. columns' \in 0 .. NDof /\ NoIdleColumn(column', columns')
    BY NoMoreThanDofs
  <2>2. columns' \in 0 .. NDof
    BY <2>1
  <2>5. /\ \A d, e : JoinedByWalls(d, e)' <=> JoinedByWalls(d, e)
        /\ Zero' = Zero
    BY <1>1, InputKept DEF Zero
  <2>6. NoIdleColumn(column, columns)'
    BY <2>1
  <2> QED BY <2>2, <2>5, <2>6 DEF ReducedSpace
<1>6. \A d \in H1Dofs :
        column'[d] = IF d \in essential THEN PieceColumn(wall_piece[d]) ELSE column[d]
  BY <1>1
<1>7. \A d \in H1Dofs : JoinedByWalls(d, d)
  BY DEF JoinedByWalls
<1>8. CASE essential = {}
  <2>1. Pieces = {}
    BY <1>8 DEF PiecesExact
  <2>2. wall_pieces = 0
    BY <1>4, <2>1
  <2>3. columns' = columns /\ \A d \in H1Dofs : column'[d] = column[d]
    BY <1>1, <1>6, <1>8, <2>2
  <2>4. Zero = 0
    BY <1>3, <1>8, ZeroIsLeast
  <2>5. \A d \in H1Dofs : column[d] # None <=> d > 0
    BY <1>2, <1>8 DEF HasColumn
  <2>6. \A d, e \in H1Dofs : column[d] = column[e] <=> d = e
    BY <1>2, <1>3, <2>5
  <2>7. \A d, e \in H1Dofs : JoinedByWalls(d, e) <=> d = e
    BY <1>7, <1>8, AloneOffWalls
  <2>8. column' \in [H1Dofs -> (0 .. columns - 1) \cup {None}]
    BY <1>1, <1>2, <1>8
  <2> QED BY <1>2, <1>3, <2>3, <2>4, <2>5, <2>6, <2>7, <2>8
<1>9. CASE essential # {}
  <2>1. Zero \in essential /\ wall_piece[Zero] = 0
    BY <1>3, <1>9, ZeroIsLeast DEF PiecesExact
  <2>2. wall_pieces > 0 /\ columns' = columns + wall_pieces - 1
    BY <1>1, <1>4, <2>1
  <2>3. \A p \in Pieces : PieceColumn(p) = IF p = 0 THEN None ELSE columns + p - 1
    BY DEF PieceColumn
  <2>4. \A p \in Pieces : \/ p = 0 /\ PieceColumn(p) = None
                          \/ p # 0 /\ PieceColumn(p) \in columns .. columns' - 1
    BY <1>2, <1>4, <2>2, <2>3
  <2>5. \A p, q \in Pieces : PieceColumn(p) = PieceColumn(q) => p = q
    BY <1>2, <1>4, <2>3 DEF None
  <2>6. \A d \in H1Dofs \ essential : column'[d] = column[d] /\ column[d] \in 0 .. columns - 1
    BY <1>2, <1>6, <1>9 DEF HasColumn
  <2>7. \A d \in essential : /\ column'[d] = PieceColumn(wall_piece[d])
                             /\ column'[d] \in (columns .. columns' - 1) \cup {None}
    BY <1>3, <1>4, <1>6, <2>4
  <2>8. columns' \in Nat
    BY <1>2, <1>4, <2>2
  <2>9. /\ 0 .. columns' - 1 = (0 .. columns - 1) \cup (columns .. columns' - 1)
        /\ \A w \in 0 .. columns - 1 : w # None /\ w \notin columns .. columns' - 1
    BY <1>2, <1>4, <2>2 DEF None
  <2>10. column' \in [H1Dofs -> (0 .. columns' - 1) \cup {None}]
    <3>1. \A d \in H1Dofs : column'[d] \in (0 .. columns' - 1) \cup {None}
      BY <2>6, <2>7, <2>9
    <3> QED BY <1>1, <3>1
  <2>11. ASSUME NEW d \in H1Dofs, NEW e \in H1Dofs
         PROVE  column'[d] = column'[e] <=> JoinedByWalls(d, e)
    <3>1. CASE d \in essential /\ e \in essential
      <4>1. wall_piece[d] = wall_piece[e] <=> JoinedByWalls(d, e)
        BY <3>1 DEF PiecesExact
      <4> QED BY <1>4, <2>5, <2>7, <3>1, <4>1
    <3>2. CASE d \in essential /\ e \notin essential
      <4>1. ~JoinedByWalls(d, e)
        BY <3>2, AloneOffWalls
      <4> QED BY <2>6, <2>7, <2>9, <3>2, <4>1
    <3>3. CASE d \notin essential /\ e \in essential
      <4>1. ~JoinedByWalls(d, e)
        BY <3>3, AloneOffWalls
      <4> QED BY <2>6, <2>7, <2>9, <3>3, <4>1
    <3>4. CASE d \notin essential /\ e \notin essential
      <4>1. column[d] = column[e] <=> d = e
        BY <1>2, <2>6, <2>9, <3>4
      <4>2. JoinedByWalls(d, e) <=> d = e
        BY <1>7, <3>4, AloneOffWalls
      <4> QED BY <2>6, <3>4, <4>1, <4>2
    <3> QED BY <3>1, <3>2, <3>3, <3>4
  <2>12. column'[Zero] = None
    BY <1>4, <2>1, <2>4, <2>7
  <2>13. ASSUME NEW j \in 0 .. columns' - 1 PROVE \E d \in H1Dofs : column'[d] = j
    <3>1. CASE j \in 0 .. columns - 1
      <4>1. PICK d \in H1Dofs : column[d] = j
        BY <1>2, <3>1
      <4>2. d \notin essential
        BY <1>2, <2>9, <3>1, <4>1 DEF HasColumn
      <4> QED BY <2>6, <4>1, <4>2
    <3>2. CASE j \in columns .. columns' - 1
      <4>1. j - columns + 1 \in Pieces /\ j - columns + 1 # 0
        BY <1>2, <1>4, <2>2, <3>2
      <4>2. PICK d \in essential : wall_piece[d] = j - columns + 1
        BY <4>1 DEF PiecesExact
      <4>3. column'[d] = columns + (j - columns + 1) - 1
        BY <2>3, <2>7, <4>1, <4>2
      <4> QED BY <1>2, <1>3, <3>2, <4>3
    <3> QED BY <2>9, <3>1, <3>2
  <2> QED BY <2>8, <2>10, <2>11, <2>12, <2>13
<1> QED BY <1>8, <1>9

LEMMA ColumnsKept ==
  ASSUME SpaceAssumption, StagesInv, ColumnInv, UNCHANGED <<mesh, ess_bdr, column, columns>>,
         \/ call \in {"walls", "pieces"} /\ call' \in {"walls", "pieces"}
         \/ call = "pieces" /\ call' = "columns" /\ counter' = 0
         \/ call \notin {"walls", "pieces", "columns"} /\ call' \notin {"walls", "pieces", "columns"}
         \/ UNCHANGED <<call, counter>>
  PROVE  ColumnInv'
<1>1. /\ essential' = essential /\ \A d, e : JoinedByWalls(d, e)' <=> JoinedByWalls(d, e)
  BY InputKept
<1>2. \A d : HasColumn(d)' <=> HasColumn(d)
  BY <1>1 DEF HasColumn
<1>3. ASSUME NEW k, ColumnsAssigned(k) PROVE ColumnsAssigned(k)'
  BY <1>2, <1>3 DEF ColumnsAssigned
<1>4. ReducedSpace => ReducedSpace'
  BY <1>1 DEF ReducedSpace, Zero, NoIdleColumn
<1>5. PICK c : c = counter
  OBVIOUS
<1>6. CASE UNCHANGED <<call, counter>>
  BY <1>3, <1>4, <1>5, <1>6 DEF ColumnInv
<1> QED BY <1>3, <1>4, <1>6 DEF ColumnInv

\* Sharing an element goes both ways.
LEMMA NeighboursShare ==
  ASSUME SpaceAssumption, mesh \in Meshes
  PROVE  /\ InConductor \subseteq H1Dofs
         /\ \A d \in InConductor : d \in Neighbours(d)
         /\ \A d : \A e \in Neighbours(d) :
              e \in H1Dofs /\ d \in Neighbours(e) /\ d \in InConductor /\ e \in InConductor
         /\ \A S : ClosedInConductor(S) => \A d : \A e \in Neighbours(d) : d \in S <=> e \in S
<1>1. \A i \in Conducting : Vertices(mesh.elements[i]) \subseteq H1Dofs
  BY CellsHaveDofs
<1>2. \A d, e : e \in Neighbours(d) <=>
        \E i \in Conducting : d \in Vertices(mesh.elements[i]) /\ e \in Vertices(mesh.elements[i])
  BY DEF Neighbours
<1>3. \A d : d \in InConductor <=> \E i \in Conducting : d \in Vertices(mesh.elements[i])
  BY DEF InConductor
<1>4. \A S : ClosedInConductor(S) => \A d : \A e \in Neighbours(d) : d \in S <=> e \in S
  BY <1>2 DEF ClosedInConductor
<1> QED BY <1>1, <1>2, <1>3, <1>4

LEMMA PartsStart ==
  ASSUME GInit PROVE PartInv
BY DEF GInit, PartInv, NoParts, Early

\* A call starts without parts.
LEMMA PartsCalled ==
  ASSUME SpaceAssumption, StagesInv, PartInv, Call PROVE PartInv'
<1>1. /\ call \in Early /\ call' = "parts" /\ counter' = 0 /\ UNCHANGED <<part, grounded, stack>>
      /\ UNCHANGED <<mesh, ess_bdr>> /\ mesh \in Meshes
  BY DEF Call, parts, Early, StagesInv
<1>2. NoParts
  BY <1>1 DEF PartInv
<1>3. part' = [d \in H1Dofs |-> None] /\ grounded' = <<>> /\ stack' = {}
  BY <1>1, <1>2 DEF NoParts
<1>4. Parts' = {} /\ \A d \in H1Dofs : ~(d < 0)
  BY <1>3 DEF Parts, H1Dofs
<1>5. \A d \in H1Dofs : part'[d] = None
  BY <1>3
<1>6. PartsNumbered(0)'
  <2>1. /\ grounded' \in Seq(BOOLEAN) /\ stack' \subseteq H1Dofs
        /\ part' \in [H1Dofs -> Parts' \cup {None}]
    BY <1>3, <1>4
  <2> QED BY <1>3, <1>4, <1>5, <2>1 DEF PartsNumbered
<1>7. call' \notin Early
  BY <1>1 DEF Early
<1> QED BY <1>1, <1>6, <1>7 DEF PartInv

\* A part begun, or one more degree of freedom in none or in an earlier one.
LEMMA PartsBegin ==
  ASSUME SpaceAssumption, StagesInv, PartInv, StartPart PROVE PartInv'
<1>0. PICK k : k = counter
  OBVIOUS
<1>1. /\ call = "parts" /\ call' = "parts" /\ stack = {} /\ k \in H1Dofs /\ k \in Nat
      /\ UNCHANGED <<mesh, ess_bdr, conductor>> /\ mesh \in Meshes
  BY <1>0 DEF StartPart, input, StagesInv
<1>2. PartsNumbered(k)
  BY <1>0, <1>1 DEF PartInv, Early
<1>3. /\ essential' = essential /\ InConductor' = InConductor
      /\ \A d : Neighbours(d)' = Neighbours(d)
      /\ \A S : ClosedInConductor(S)' <=> ClosedInConductor(S)
  BY <1>1, InputKept
<1>4. /\ grounded \in Seq(BOOLEAN) /\ Len(grounded) \in Nat
      /\ Parts = 0 .. Len(grounded) - 1
      /\ part \in [H1Dofs -> Parts \cup {None}]
      /\ \A c \in Parts : c \in Nat
  BY <1>2 DEF PartsNumbered, Parts
<1>5. \A d \in H1Dofs : part[d] >= 0 <=> part[d] # None
  BY <1>4 DEF None
<1>6. CASE Neighbours(k) = {} \/ part[k] >= 0
  <2>1. counter' = k + 1 /\ UNCHANGED <<part, grounded, stack>>
    BY <1>0, <1>6 DEF StartPart, parts
  <2>2. k \in InConductor => part[k] # None
    BY <1>1, <1>5, <1>6, NeighboursShare
  <2>3. \A d \in H1Dofs : d < k + 1 /\ d \in InConductor => part[d] # None
    <3>1. \A d \in H1Dofs : d < k + 1 => d < k \/ d = k
      BY <1>1 DEF H1Dofs
    <3> QED BY <1>2, <2>2, <3>1 DEF PartsNumbered
  <2>4. PartsNumbered(k + 1)'
    BY <1>2, <1>3, <2>1, <2>3 DEF PartsNumbered, Parts, Grounded
  <2> QED BY <1>1, <2>1, <2>4 DEF PartInv, Early
<1>7. CASE ~(Neighbours(k) = {} \/ part[k] >= 0)
  <2> DEFINE c == Len(grounded)
  <2>1. /\ counter' = k /\ grounded' = Append(grounded, FALSE) /\ stack' = {k}
        /\ part' = [part EXCEPT ![k] = c]
    BY <1>0, <1>7 DEF StartPart
  <2>2. part[k] = None /\ k \in InConductor
    BY <1>1, <1>5, <1>7, NeighboursShare
  <2>3. /\ grounded' \in Seq(BOOLEAN) /\ Len(grounded') = c + 1
        /\ grounded'[c + 1] = FALSE
        /\ \A p \in Parts : grounded'[p + 1] = grounded[p + 1]
    <3>1. \A p \in Parts : p + 1 \in 1 .. Len(grounded)
      BY <1>4
    <3>2. grounded \in Seq(BOOLEAN) /\ grounded' = Append(grounded, FALSE) /\ FALSE \in BOOLEAN
      BY <1>4, <2>1
    <3>3. /\ grounded' \in Seq(BOOLEAN) /\ Len(grounded') = Len(grounded) + 1
          /\ grounded'[Len(grounded) + 1] = FALSE
          /\ \A i \in 1 .. Len(grounded) : grounded'[i] = grounded[i]
      BY <3>2, AppendProperties
    <3> QED BY <3>1, <3>3
  <2>4. Parts' = Parts \cup {c} /\ c \notin Parts /\ c # None /\ c \in Nat
    BY <1>4, <2>3 DEF Parts, None
  <2>5. /\ part' \in [H1Dofs -> Parts' \cup {None}]
        /\ \A d \in H1Dofs : part'[d] = IF d = k THEN c ELSE part[d]
        /\ \A d \in H1Dofs : part[d] # c
    BY <1>1, <1>4, <2>1, <2>4
  <2> HIDE DEF c
  <2>6. \A d \in H1Dofs : part'[d] # None => d \in InConductor
    BY <1>2, <2>2, <2>5 DEF PartsNumbered
  <2>7. \A d \in H1Dofs : d < k /\ d \in InConductor => part'[d] # None
    BY <1>2, <2>4, <2>5 DEF PartsNumbered
  <2>8. \A d \in H1Dofs \ stack' : part'[d] # None =>
          \A e \in Neighbours(d) : part'[e] = part'[d]
    <3> SUFFICES ASSUME NEW d \in H1Dofs, d # k, part[d] # None, NEW e \in Neighbours(d)
                 PROVE  part'[e] = part[d]
      BY <2>1, <2>5
    <3>1. e \in H1Dofs /\ part[e] = part[d]
      BY <1>1, <1>2, NeighboursShare DEF PartsNumbered
    <3> QED BY <2>2, <2>5, <3>1
  <2>9. \A d \in stack' : part'[d] = Len(grounded') - 1 /\ part'[d] # None
    BY <1>1, <2>1, <2>3, <2>4, <2>5
  <2>10. \A p \in Parts' : grounded'[p + 1] <=> \E d \in essential \ stack' : part'[d] = p
    <3> SUFFICES ASSUME NEW p \in Parts'
                 PROVE  grounded'[p + 1] <=> \E d \in essential \ stack' : part'[d] = p
      OBVIOUS
    <3>1. essential \subseteq H1Dofs
      BY <1>1, CellsHaveDofs
    <3>2. CASE p = c
      <4>1. \A d \in essential \ stack' : part'[d] # c
        BY <2>1, <2>5, <3>1
      <4> QED BY <2>3, <3>2, <4>1
    <3>3. CASE p \in Parts
      <4>1. p # c /\ p # None
        BY <1>4, <2>4, <3>3 DEF None
      <4>2. grounded[p + 1] <=> \E d \in essential : part[d] = p
        BY <1>1, <1>2, <3>3 DEF PartsNumbered, Grounded
      <4> QED BY <2>1, <2>2, <2>3, <2>5, <3>1, <3>3, <4>1, <4>2
    <3> QED BY <2>4, <3>2, <3>3
  <2>11. \A p \in Parts' : \E d \in H1Dofs : part'[d] = p
    <3> SUFFICES ASSUME NEW p \in Parts' PROVE \E d \in H1Dofs : part'[d] = p
      OBVIOUS
    <3>1. CASE p = c
      BY <1>1, <2>5, <3>1
    <3>2. CASE p \in Parts
      <4>1. p # None
        BY <1>4, <3>2 DEF None
      <4>2. PICK d \in H1Dofs : part[d] = p
        BY <1>2, <3>2 DEF PartsNumbered
      <4> QED BY <2>2, <2>5, <4>1, <4>2
    <3> QED BY <2>4, <3>1, <3>2
  <2>12. \A S \in SUBSET H1Dofs : ClosedInConductor(S) =>
           \A d, e \in H1Dofs : part'[d] = part'[e] /\ part'[d] # None => (d \in S <=> e \in S)
    BY <1>2, <2>5 DEF PartsNumbered
  <2>13. \A p \in Parts' : Grounded(p)' <=> grounded'[p + 1]
    BY DEF Grounded
  <2>14. stack' \subseteq H1Dofs
    BY <1>1, <2>1
  <2>15. PartsNumbered(k)'
    BY <1>3, <2>3, <2>5, <2>6, <2>7, <2>8, <2>9, <2>10, <2>11, <2>12, <2>13, <2>14
    DEF PartsNumbered, Grounded
  <2> QED BY <1>1, <2>1, <2>15 DEF PartInv, Early
<1> QED BY <1>6, <1>7

\* A degree of freedom taken from the stack, its neighbours found.
LEMMA PartsVisit ==
  ASSUME SpaceAssumption, StagesInv, PartInv, Visit PROVE PartInv'
<1>0. PICK k : k = counter
  OBVIOUS
<1>1. /\ call = "parts" /\ call' = "parts" /\ counter' = k
      /\ UNCHANGED <<mesh, ess_bdr, conductor>> /\ mesh \in Meshes
  BY <1>0 DEF Visit, input, StagesInv
<1>2. PartsNumbered(k)
  BY <1>0, <1>1 DEF PartInv, Early
<1>3. /\ essential' = essential /\ InConductor' = InConductor
      /\ \A d : Neighbours(d)' = Neighbours(d)
      /\ \A S : ClosedInConductor(S)' <=> ClosedInConductor(S)
  BY <1>1, InputKept
<1>4. /\ grounded \in Seq(BOOLEAN) /\ Len(grounded) \in Nat
      /\ Parts = 0 .. Len(grounded) - 1
      /\ part \in [H1Dofs -> Parts \cup {None}] /\ stack \subseteq H1Dofs
      /\ \A p \in Parts : p \in Nat /\ p # None
  BY <1>2 DEF PartsNumbered, Parts, None
<1>5. \A d \in H1Dofs : part[d] < 0 <=> part[d] = None
  BY <1>4 DEF None
<1> DEFINE c == Len(grounded) - 1
           Found(d) == {e \in Neighbours(d) : part[e] < 0}
<1>6. PICK v \in stack :
        /\ part' = [e \in H1Dofs |-> IF e \in Found(v) THEN c ELSE part[e]]
        /\ stack' = (stack \ {v}) \cup Found(v)
        /\ grounded' = [grounded EXCEPT ![c + 1] = @ \/ Grounds(v)]
  BY DEF Visit
<1>7. /\ v \in H1Dofs /\ part[v] = c /\ c \in Parts
      /\ \A d \in stack : part[d] = c
  BY <1>2, <1>4, <1>6 DEF PartsNumbered
<1>8. /\ Neighbours(v) \subseteq H1Dofs /\ Found(v) \subseteq H1Dofs
      /\ \A e \in H1Dofs : e \in Found(v) <=> e \in Neighbours(v) /\ part[e] = None
  BY <1>1, <1>5, NeighboursShare
<1>9. /\ grounded' \in Seq(BOOLEAN) /\ Len(grounded') = Len(grounded)
      /\ Parts' = Parts
      /\ grounded'[c + 1] <=> grounded[c + 1] \/ v \in essential
      /\ \A p \in Parts : p # c => grounded'[p + 1] = grounded[p + 1]
  <2>1. c + 1 \in 1 .. Len(grounded) /\ Grounds(v) \in BOOLEAN
    BY <1>4, <1>7 DEF Grounds
  <2>2. \A p \in Parts : p + 1 \in 1 .. Len(grounded) /\ (p + 1 = c + 1 => p = c)
    BY <1>4
  <2>3. grounded' \in Seq(BOOLEAN) /\ Len(grounded') = Len(grounded)
    BY <1>4, <1>6, <2>1
  <2>4. grounded'[c + 1] = (grounded[c + 1] \/ Grounds(v))
    BY <1>4, <1>6, <2>1
  <2>5. \A p \in Parts : p # c => grounded'[p + 1] = grounded[p + 1]
    BY <1>4, <1>6, <2>1, <2>2
  <2> QED BY <2>3, <2>4, <2>5 DEF Parts, Grounds
<1> DEFINE F == Found(v)
<1>10. \A d \in H1Dofs : part'[d] = IF d \in F THEN c ELSE part[d]
  BY <1>6
<1>11. /\ stack' = (stack \ {v}) \cup F /\ c = Len(grounded') - 1
  BY <1>6, <1>9
<1>12. part' \in [H1Dofs -> Parts' \cup {None}]
  <2>1. part' = [e \in H1Dofs |-> IF e \in F THEN c ELSE part[e]]
    BY <1>6
  <2>2. c \in Parts' /\ \A e \in H1Dofs : part[e] \in Parts' \cup {None}
    BY <1>4, <1>7, <1>9
  <2> HIDE DEF F, c
  <2> QED BY <2>1, <2>2
<1> HIDE DEF F, c
\* What a neighbour in a part is in.
<1>13. \A e \in Neighbours(v) : part[e] # None => part[e] = c
  <2> SUFFICES ASSUME NEW e \in Neighbours(v), part[e] # None PROVE part[e] = c
    OBVIOUS
  <2>1. e \in H1Dofs /\ v \in Neighbours(e)
    BY <1>1, NeighboursShare
  <2>2. CASE e \in stack
    BY <1>7, <2>2
  <2>3. CASE e \notin stack
    BY <1>2, <1>7, <2>1, <2>3 DEF PartsNumbered
  <2> QED BY <2>2, <2>3
<1>14. /\ F \subseteq Neighbours(v) /\ F \subseteq H1Dofs
       /\ \A e \in H1Dofs : e \in F <=> e \in Neighbours(v) /\ part[e] = None
       /\ \A e \in F : e \notin stack /\ part[e] = None /\ e # v
  BY <1>4, <1>7, <1>8 DEF F
<1>15. c \in Parts /\ c # None /\ v \in stack /\ v \in H1Dofs /\ part[v] = c
  BY <1>4, <1>6, <1>7
<1>16. \A d \in H1Dofs : part'[d] # None => d \in InConductor
  BY <1>1, <1>2, <1>10, <1>14, NeighboursShare DEF PartsNumbered
<1>17. \A d \in H1Dofs : d < k /\ d \in InConductor => part'[d] # None
  BY <1>2, <1>10, <1>15 DEF PartsNumbered
<1>18. \A d \in H1Dofs \ stack' : part'[d] # None => \A e \in Neighbours(d) : part'[e] = part'[d]
  <2> SUFFICES ASSUME NEW d \in H1Dofs \ stack', part'[d] # None, NEW e \in Neighbours(d)
               PROVE  part'[e] = part'[d]
    OBVIOUS
  <2>1. d \notin F /\ part'[d] = part[d] /\ e \in H1Dofs
    BY <1>1, <1>10, <1>11, NeighboursShare
  <2>2. CASE d = v
    BY <1>10, <1>13, <1>14, <1>15, <2>1, <2>2
  <2>3. CASE d # v
    <3>1. d \notin stack
      BY <1>11, <2>3
    <3>2. part[e] = part[d]
      BY <1>2, <2>1, <3>1 DEF PartsNumbered
    <3>3. e \notin F
      BY <1>14, <2>1, <3>2
    <3> QED BY <1>10, <2>1, <3>2, <3>3
  <2> QED BY <2>2, <2>3
<1>19. \A d \in stack' : part'[d] = Len(grounded') - 1 /\ part'[d] # None
  BY <1>4, <1>7, <1>10, <1>11, <1>14, <1>15
<1>20. \A p \in Parts' : grounded'[p + 1] <=> \E d \in essential \ stack' : part'[d] = p
  <2> SUFFICES ASSUME NEW p \in Parts
               PROVE  grounded'[p + 1] <=> \E d \in essential \ stack' : part'[d] = p
    BY <1>9
  <2>1. essential \subseteq H1Dofs
    BY <1>1, CellsHaveDofs
  <2>2. grounded[p + 1] <=> \E d \in essential \ stack : part[d] = p
    BY <1>2 DEF PartsNumbered, Grounded
  <2>3. p # None
    BY <1>4
  <2>4. \A d \in essential : d \notin stack' <=> (d \notin stack \/ d = v) /\ d \notin F
    BY <1>11, <1>15, <1>14
  <2>5. \A d \in essential : d \notin F => part'[d] = part[d]
    BY <1>10, <2>1
  <2>6. \A d \in essential : d \in F => part[d] # p
    BY <1>14, <2>3
  <2>7. (\E d \in essential \ stack' : part'[d] = p)
        <=> (\E d \in essential \ stack : part[d] = p) \/ (v \in essential /\ p = c)
    <3>1. ASSUME NEW d \in essential \ stack', part'[d] = p
          PROVE  (\E f \in essential \ stack : part[f] = p) \/ (v \in essential /\ p = c)
      BY <1>15, <2>4, <2>5, <3>1
    <3>2. ASSUME NEW d \in essential \ stack, part[d] = p
          PROVE  \E f \in essential \ stack' : part'[f] = p
      BY <2>4, <2>5, <2>6, <3>2
    <3>3. ASSUME v \in essential, p = c
          PROVE  \E f \in essential \ stack' : part'[f] = p
      BY <1>14, <1>15, <2>4, <2>5, <3>3
    <3> QED BY <3>1, <3>2, <3>3
  <2> QED BY <1>9, <2>2, <2>7
<1>21. \A p \in Parts' : \E d \in H1Dofs : part'[d] = p
  <2> SUFFICES ASSUME NEW p \in Parts PROVE \E d \in H1Dofs : part'[d] = p
    BY <1>9
  <2>1. PICK d \in H1Dofs : part[d] = p
    BY <1>2 DEF PartsNumbered
  <2> QED BY <1>4, <1>10, <1>14, <2>1
<1>22. \A S \in SUBSET H1Dofs : ClosedInConductor(S) =>
         \A d, e \in H1Dofs : part'[d] = part'[e] /\ part'[d] # None => (d \in S <=> e \in S)
  <2> SUFFICES ASSUME NEW S \in SUBSET H1Dofs, ClosedInConductor(S), NEW d \in H1Dofs,
                      NEW e \in H1Dofs, part'[d] = part'[e], part'[d] # None
               PROVE  d \in S <=> e \in S
    OBVIOUS
  <2>1. \A w \in F : v \in S <=> w \in S
    BY <1>1, <1>14, NeighboursShare
  <2>2. \A w, y \in H1Dofs : part[w] = part[y] /\ part[w] # None => (w \in S <=> y \in S)
    BY <1>2 DEF PartsNumbered
  <2>3. CASE d \in F /\ e \in F
    BY <2>1, <2>3
  <2>4. CASE d \in F /\ e \notin F
    <3>1. part[e] = part[v]
      BY <1>10, <1>15, <2>4
    <3> QED BY <1>15, <2>1, <2>2, <2>4, <3>1
  <2>5. CASE d \notin F /\ e \in F
    <3>1. part[d] = part[v]
      BY <1>10, <1>15, <2>5
    <3> QED BY <1>15, <2>1, <2>2, <2>5, <3>1
  <2>6. CASE d \notin F /\ e \notin F
    BY <1>10, <2>2, <2>6
  <2> QED BY <2>3, <2>4, <2>5, <2>6
<1>23. stack' \subseteq H1Dofs
  BY <1>4, <1>11, <1>14
<1>24. PartsNumbered(k)'
  BY <1>3, <1>9, <1>12, <1>16, <1>17, <1>18, <1>19, <1>20, <1>21, <1>22, <1>23
  DEF PartsNumbered, Grounded
<1> QED BY <1>1, <1>24 DEF PartInv, Early

\* The parts stay when the search is through.
LEMMA PartsKept ==
  ASSUME SpaceAssumption, StagesInv, PartInv,
         UNCHANGED <<mesh, ess_bdr, part, grounded, stack>>,
         \/ call \in Early /\ call' \in Early
         \/ /\ call = "parts" /\ call' \notin Early \cup {"parts"} /\ counter = NDof /\ stack = {}
            /\ conductor' = conductor
         \/ /\ call \notin Early \cup {"parts"} /\ call' \notin Early \cup {"parts"}
            /\ conductor' = conductor
         \/ UNCHANGED <<call, counter, conductor>>
  PROVE  PartInv'
<1>1. PICK c : c = counter
  OBVIOUS
<1>2. ASSUME conductor' = conductor, NEW k, PartsNumbered(k) PROVE PartsNumbered(k)'
  <2>1. /\ essential' = essential /\ InConductor' = InConductor
        /\ \A d : Neighbours(d)' = Neighbours(d)
        /\ \A S : ClosedInConductor(S)' <=> ClosedInConductor(S)
    BY <1>2, InputKept
  <2> QED BY <1>2, <2>1 DEF PartsNumbered, Parts, Grounded
<1>3. CASE call \in Early /\ call' \in Early
  BY <1>3 DEF PartInv, NoParts
<1>4. CASE /\ call = "parts" /\ call' \notin Early \cup {"parts"} /\ counter = NDof /\ stack = {}
           /\ conductor' = conductor
  <2>1. PartsNumbered(NDof) /\ "parts" \notin Early
    BY <1>4 DEF PartInv, Early
  <2> QED BY <1>2, <1>4, <2>1 DEF PartInv
<1>5. CASE /\ call \notin Early \cup {"parts"} /\ call' \notin Early \cup {"parts"}
           /\ conductor' = conductor
  <2>1. PartsNumbered(NDof) /\ stack = {}
    BY <1>5 DEF PartInv
  <2> QED BY <1>2, <1>5, <2>1 DEF PartInv
<1>6. CASE UNCHANGED <<call, counter, conductor>>
  <2>1. CASE call = "parts"
    <3>1. PartsNumbered(c)
      BY <1>1, <2>1 DEF PartInv, Early
    <3> QED BY <1>1, <1>2, <1>6, <2>1, <3>1 DEF PartInv, Early
  <2> QED BY <1>3, <1>5, <1>6, <2>1
<1> QED BY <1>3, <1>4, <1>5, <1>6

\* What the parts are when the search is through.
PartsExact ==
  /\ grounded \in Seq(BOOLEAN) /\ Parts \subseteq H1Dofs
  /\ part \in [H1Dofs -> Parts \cup {None}]
  /\ \A d \in H1Dofs : part[d] # None <=> d \in InConductor
  /\ \A c \in Parts : Grounded(c) <=> \E d \in essential : part[d] = c
  /\ \A i \in Conducting : \A d, e \in Vertices(mesh.elements[i]) : part[d] = part[e]
  /\ \A S \in SUBSET H1Dofs : ClosedInConductor(S) =>
       \A d, e \in H1Dofs : part[d] = part[e] /\ part[d] # None => (d \in S <=> e \in S)

LEMMA PartsDoneExact ==
  ASSUME SpaceAssumption, StagesInv, PartInv, call \notin Early,
         call = "parts" => stack = {} /\ counter = NDof
  PROVE  PartsExact
<1>1. PartsNumbered(NDof) /\ stack = {} /\ mesh \in Meshes
  BY DEF PartInv, StagesInv
<1>2. \A d \in H1Dofs : d < NDof
  BY DEF H1Dofs, SpaceAssumption
<1>3. Parts \subseteq H1Dofs
  <2>1. Len(grounded) \in Nat /\ \A c \in 0 .. Len(grounded) - 1 : \E d \in H1Dofs : part[d] = c
    BY <1>1 DEF PartsNumbered, Parts
  <2>2. Len(grounded) \in 0 .. NDof
    BY <2>1, NoMoreThanDofs
  <2> QED BY <2>2 DEF Parts, H1Dofs, SpaceAssumption
<1>4. \A i \in Conducting : \A d, e \in Vertices(mesh.elements[i]) : part[d] = part[e]
  <2> SUFFICES ASSUME NEW i \in Conducting, NEW d \in Vertices(mesh.elements[i]),
                      NEW e \in Vertices(mesh.elements[i])
               PROVE  part[d] = part[e]
    OBVIOUS
  <2>1. d \in H1Dofs /\ d \in InConductor /\ e \in Neighbours(d)
    BY <1>1, CellsHaveDofs DEF InConductor, Neighbours
  <2>2. part[d] # None
    BY <1>1, <1>2, <2>1 DEF PartsNumbered
  <2> QED BY <1>1, <2>1, <2>2 DEF PartsNumbered
<1> QED BY <1>1, <1>2, <1>3, <1>4 DEF PartsNumbered, PartsExact

LEMMA GroupsStart ==
  ASSUME GInit PROVE GroupInv
BY DEF GInit, GroupInv, NoGroups

\* What the loops over groups do not change.
LEMMA GroupsFrame ==
  ASSUME UNCHANGED <<mesh, ess_bdr, conductor, wall_piece, wall_pieces, part, grounded>>
  PROVE  /\ essential' = essential /\ Pieces' = Pieces /\ Parts' = Parts
         /\ wall_piece' = wall_piece /\ part' = part
         /\ \A S : ClosedInWalls(S)' <=> ClosedInWalls(S)
         /\ \A S : ClosedInConductor(S)' <=> ClosedInConductor(S)
BY InputKept DEF Pieces, Parts

\* Every piece is a group at first.
LEMMA GroupsBegin ==
  ASSUME SpaceAssumption, StagesInv, PiecesExact, PartsExact, GroupInv, PartsDone
  PROVE  GroupInv'
<1>1. /\ call = "parts" /\ call' \in {"groups", "pins"} /\ counter' = 0
      /\ UNCHANGED <<mesh, ess_bdr, conductor, wall_piece, wall_pieces, part, grounded>>
      /\ UNCHANGED <<group, part_piece>> /\ mesh \in Meshes
  BY DEF PartsDone, input, wall, parts, joint, StagesInv
<1>2. NoGroups
  BY <1>1 DEF GroupInv
<1>3. CASE call' = "pins"
  BY <1>1, <1>2, <1>3 DEF GroupInv, NoGroups
<1>4. CASE call' = "groups"
  <2>1. essential \subseteq H1Dofs /\ \A d \in H1Dofs : ~(d < 0)
    BY <1>1, CellsHaveDofs DEF H1Dofs
  <2>2. /\ group \in [H1Dofs -> H1Dofs] /\ part_piece \in [H1Dofs -> Pieces \cup {None}]
        /\ \A q \in H1Dofs : group[q] = q /\ part_piece[q] = None
    BY <1>2 DEF NoGroups
  <2>3. Pieces \subseteq H1Dofs /\ \A d \in essential : wall_piece[d] \in H1Dofs
    BY <2>1 DEF PiecesExact
  <2>4. ASSUME NEW S \in SUBSET H1Dofs, ClosedInWalls(S), NEW d \in essential, NEW e \in essential,
               group[wall_piece[d]] = group[wall_piece[e]]
        PROVE  d \in S <=> e \in S
    <3>1. JoinedByWalls(d, e)
      BY <2>2, <2>3, <2>4 DEF PiecesExact
    <3> QED BY <2>1, <2>4, <3>1 DEF JoinedByWalls
  <2>5. \A e \in H1Dofs : part[e] # None => part_piece[part[e]] = None
    BY <2>2 DEF PartsExact
  <2>6. GroupsJoined(0)
    BY <2>1, <2>2, <2>3, <2>4, <2>5 DEF GroupsJoined
  <2>7. GroupsJoined(0)'
    BY <1>1, <2>6, GroupsFrame DEF GroupsJoined
  <2> QED BY <1>1, <1>4, <2>7 DEF GroupInv
<1> QED BY <1>1, <1>3, <1>4

\* A part joins the groups of the pieces it meets.
LEMMA GroupsMeet ==
  ASSUME SpaceAssumption, StagesInv, PiecesExact, PartsExact, GroupInv, GroupPieces
  PROVE  GroupInv'
<1>0. PICK k : k = counter
  OBVIOUS
<1> DEFINE c == part[k]
           p == group[wall_piece[k]]
<1>1. /\ call = "groups" /\ call' = "groups" /\ counter' = k + 1 /\ k \in H1Dofs /\ k \in Nat
      /\ UNCHANGED <<mesh, ess_bdr, conductor, wall_piece, wall_pieces, part, grounded>>
      /\ mesh \in Meshes
  BY <1>0 DEF GroupPieces, input, wall, parts, StagesInv
<1>2. GroupsJoined(k)
  BY <1>0, <1>1 DEF GroupInv
<1>3. SUFFICES GroupsJoined(k + 1)'
  BY <1>1 DEF GroupInv
<1>4. /\ essential \subseteq H1Dofs /\ \A d \in H1Dofs : d < k + 1 <=> d < k \/ d = k
  BY <1>1, CellsHaveDofs DEF H1Dofs
<1>5. /\ part \in [H1Dofs -> Parts \cup {None}] /\ Parts \subseteq H1Dofs
      /\ \A e \in H1Dofs : part[e] # None => part[e] \in H1Dofs
      /\ \A e \in H1Dofs : part[e] < 0 <=> part[e] = None
  BY DEF PartsExact, Parts, None
<1>6. /\ Pieces \subseteq H1Dofs /\ \A q \in Pieces : q # None /\ ~(q < 0)
      /\ \A d \in essential : wall_piece[d] \in Pieces
      /\ \A q \in Pieces : \E d \in essential : wall_piece[d] = q
  <2>1. \A d \in essential : wall_piece[d] \in Pieces \cup {None} /\ wall_piece[d] # None
    BY <1>4 DEF PiecesExact
  <2> QED BY <2>1 DEF PiecesExact, Pieces, None
<1>7. /\ group \in [H1Dofs -> H1Dofs] /\ part_piece \in [H1Dofs -> Pieces \cup {None}]
      /\ \A q \in Pieces : group[q] \in Pieces /\ group[group[q]] = group[q]
      /\ \A e \in essential : e < k /\ part[e] # None =>
           /\ part_piece[part[e]] # None
           /\ group[part_piece[part[e]]] = group[wall_piece[e]]
  BY <1>2 DEF GroupsJoined
<1>8. ASSUME NEW S \in SUBSET H1Dofs, ClosedInWalls(S), ClosedInConductor(S)
      PROVE  /\ \A d, e \in essential :
                  group[wall_piece[d]] = group[wall_piece[e]] => (d \in S <=> e \in S)
             /\ \A d \in essential, e \in H1Dofs :
                  /\ part[e] # None /\ part_piece[part[e]] # None
                  /\ group[wall_piece[d]] = group[part_piece[part[e]]]
                  => (d \in S <=> e \in S)
             /\ \A d, e \in H1Dofs : part[d] = part[e] /\ part[d] # None => (d \in S <=> e \in S)
  BY <1>2, <1>8 DEF GroupsJoined, PartsExact
<1>9. CASE k \notin essential \/ c = None
  <2>1. UNCHANGED <<group, part_piece>>
    BY <1>0, <1>1, <1>5, <1>9 DEF GroupPieces, joint
  <2>2. GroupsJoined(k + 1)
    BY <1>2, <1>4, <1>9 DEF GroupsJoined
  <2> QED BY <1>1, <2>1, <2>2, GroupsFrame DEF GroupsJoined
<1>10. CASE k \in essential /\ c # None /\ part_piece[c] = None
  <2>1. part_piece' = [part_piece EXCEPT ![c] = p] /\ group' = group
    <3>1. part_piece[c] < 0
      BY <1>10 DEF None
    <3>2. ~(counter \notin essential \/ c < 0)
      BY <1>0, <1>1, <1>5, <1>10
    <3> QED BY <1>0, <3>1, <3>2 DEF GroupPieces
  <2>2. c \in H1Dofs /\ p \in Pieces /\ group[p] = p /\ p # None
    BY <1>1, <1>5, <1>6, <1>7, <1>10
  <2>3. part_piece' \in [H1Dofs -> Pieces \cup {None}]
    BY <1>7, <2>1, <2>2
  <2>4. \A w \in H1Dofs : part_piece'[w] = IF w = c THEN p ELSE part_piece[w]
    BY <1>7, <2>1
  <2>5. \A e \in essential : e < k + 1 /\ part[e] # None =>
          /\ part_piece'[part[e]] # None
          /\ group[part_piece'[part[e]]] = group[wall_piece[e]]
    <3> SUFFICES ASSUME NEW e \in essential, e < k + 1, part[e] # None
                 PROVE  /\ part_piece'[part[e]] # None
                        /\ group[part_piece'[part[e]]] = group[wall_piece[e]]
      OBVIOUS
    <3>1. CASE e = k
      BY <2>2, <2>4, <3>1
    <3>2. CASE e < k
      <4>1. part[e] # c
        BY <1>7, <1>10, <3>2
      <4> QED BY <1>4, <1>5, <1>7, <2>4, <3>2, <4>1
    <3> QED BY <1>4, <3>1, <3>2
  <2>6. ASSUME NEW S \in SUBSET H1Dofs, ClosedInWalls(S), ClosedInConductor(S),
               NEW d \in essential, NEW e \in H1Dofs, part[e] # None,
               group[wall_piece[d]] = group[part_piece'[part[e]]], part_piece'[part[e]] # None
        PROVE  d \in S <=> e \in S
    <3>1. CASE part[e] = c
      <4>1. group[wall_piece[d]] = group[wall_piece[k]]
        BY <2>2, <2>4, <2>6, <3>1
      <4>2. d \in S <=> k \in S
        BY <1>8, <1>10, <2>6, <4>1
      <4> QED BY <1>1, <1>8, <2>6, <3>1, <4>2
    <3>2. CASE part[e] # c
      BY <1>5, <1>8, <2>4, <2>6, <3>2
    <3> QED BY <3>1, <3>2
  <2>7. \A S \in SUBSET H1Dofs : ClosedInWalls(S) /\ ClosedInConductor(S) =>
          /\ \A d, e \in essential :
               group[wall_piece[d]] = group[wall_piece[e]] => (d \in S <=> e \in S)
          /\ \A d \in essential, e \in H1Dofs :
               /\ part[e] # None /\ part_piece'[part[e]] # None
               /\ group[wall_piece[d]] = group[part_piece'[part[e]]]
               => (d \in S <=> e \in S)
    BY <1>8, <2>6
  <2> HIDE DEF c, p
  <2> QED BY <1>1, <1>7, <2>1, <2>3, <2>5, <2>7, GroupsFrame DEF GroupsJoined
<1>11. CASE k \in essential /\ c # None /\ part_piece[c] # None
  <2> DEFINE a == group[part_piece[c]]
             g == [q \in H1Dofs |-> IF group[q] = a THEN p ELSE group[q]]
  <2>1. c \in H1Dofs /\ p \in Pieces /\ group[p] = p /\ part_piece[c] \in Pieces /\ a \in Pieces
    <3>1. c \in H1Dofs /\ wall_piece[k] \in Pieces
      BY <1>1, <1>5, <1>6, <1>11
    <3>2. part_piece[c] \in Pieces
      BY <1>7, <1>11, <3>1
    <3> QED BY <1>7, <3>1, <3>2
  <2>2. group' = g /\ part_piece' = part_piece
    <3>1. ~(part_piece[c] < 0)
      BY <1>6, <2>1
    <3>2. ~(counter \notin essential \/ c < 0)
      BY <1>0, <1>1, <1>5, <1>11
    <3> QED BY <1>0, <3>1, <3>2 DEF GroupPieces, JoinPieces
  <2>3. g \in [H1Dofs -> H1Dofs] /\ \A q \in H1Dofs : g[q] = IF group[q] = a THEN p ELSE group[q]
    BY <1>6, <1>7, <2>1
  <2> HIDE DEF g
  <2>4. \A q \in Pieces : g[q] \in Pieces /\ g[g[q]] = g[q]
    BY <1>6, <1>7, <2>1, <2>3
  <2>5. \A e \in essential : e < k + 1 /\ part[e] # None =>
          part_piece[part[e]] # None /\ g[part_piece[part[e]]] = g[wall_piece[e]]
    <3> SUFFICES ASSUME NEW e \in essential, e < k + 1, part[e] # None
                 PROVE  part_piece[part[e]] # None /\ g[part_piece[part[e]]] = g[wall_piece[e]]
      OBVIOUS
    <3>1. wall_piece[e] \in H1Dofs
      BY <1>6
    <3>2. CASE e = k
      BY <1>6, <1>11, <2>1, <2>3, <3>1, <3>2
    <3>3. CASE e < k
      <4>1. part_piece[part[e]] # None /\ group[part_piece[part[e]]] = group[wall_piece[e]]
        BY <1>7, <3>3
      <4>2. part[e] \in H1Dofs
        BY <1>4, <1>5
      <4>3. part_piece[part[e]] \in H1Dofs
        BY <1>6, <1>7, <4>1, <4>2
      <4> QED BY <2>3, <3>1, <4>1, <4>3
    <3> QED BY <1>4, <3>2, <3>3
  <2>6. ASSUME NEW S \in SUBSET H1Dofs, ClosedInWalls(S), ClosedInConductor(S)
        PROVE  /\ \A d, e \in essential :
                    g[wall_piece[d]] = g[wall_piece[e]] => (d \in S <=> e \in S)
               /\ \A d \in essential, e \in H1Dofs :
                    /\ part[e] # None /\ part_piece[part[e]] # None
                    /\ g[wall_piece[d]] = g[part_piece[part[e]]]
                    => (d \in S <=> e \in S)
    <3> DEFINE In(q) == group[q] \in {a, p}
    <3>1. \A q, r \in Pieces : g[q] = g[r] => group[q] = group[r] \/ (In(q) /\ In(r))
      BY <1>6, <2>3
    <3>2. PICK f \in essential : wall_piece[f] = part_piece[c]
      BY <1>6, <2>1
    <3>3. k \in S <=> f \in S
      BY <1>1, <1>8, <1>11, <2>6, <3>2
    <3>4. \A d \in essential : In(wall_piece[d]) => (d \in S <=> k \in S)
      BY <1>8, <1>11, <2>6, <3>2, <3>3
    <3>5. \A e \in H1Dofs : part[e] # None /\ part_piece[part[e]] # None /\ In(part_piece[part[e]])
            => (e \in S <=> k \in S)
      BY <1>8, <1>11, <2>6, <3>2, <3>3
    <3>6. \A e \in H1Dofs : part[e] # None /\ part_piece[part[e]] # None => part_piece[part[e]] \in Pieces
      BY <1>5, <1>7
    <3> HIDE DEF In
    <3>7. \A d, e \in essential : g[wall_piece[d]] = g[wall_piece[e]] => (d \in S <=> e \in S)
      BY <1>6, <1>8, <2>6, <3>1, <3>4
    <3>8. \A d \in essential, e \in H1Dofs :
            /\ part[e] # None /\ part_piece[part[e]] # None
            /\ g[wall_piece[d]] = g[part_piece[part[e]]]
            => (d \in S <=> e \in S)
      BY <1>6, <1>8, <2>6, <3>1, <3>4, <3>5, <3>6
    <3> QED BY <3>7, <3>8
  <2> HIDE DEF c, p, a
  <2>7. \A S \in SUBSET H1Dofs : ClosedInWalls(S) /\ ClosedInConductor(S) =>
          /\ \A d, e \in essential :
               g[wall_piece[d]] = g[wall_piece[e]] => (d \in S <=> e \in S)
          /\ \A d \in essential, e \in H1Dofs :
               /\ part[e] # None /\ part_piece[part[e]] # None
               /\ g[wall_piece[d]] = g[part_piece[part[e]]]
               => (d \in S <=> e \in S)
    BY <2>6
  <2> QED BY <1>1, <1>7, <2>2, <2>3, <2>4, <2>5, <2>7, GroupsFrame DEF GroupsJoined
<1> QED BY <1>9, <1>10, <1>11

\* The groups stay otherwise.
LEMMA GroupsKept ==
  ASSUME SpaceAssumption, StagesInv, GroupInv, UNCHANGED <<group, part_piece>>,
         \/ call \notin {"groups", "gauge", "gauged"} /\ call' \notin {"groups", "gauge", "gauged"}
         \/ /\ UNCHANGED <<mesh, ess_bdr, conductor, wall_piece, wall_pieces, part, grounded>>
            /\ \/ UNCHANGED <<call, counter>>
               \/ call = "groups" /\ counter = NDof /\ call' = "gauge"
               \/ call = "gauge" /\ call' \in {"gauge", "gauged"}
  PROVE  GroupInv'
<1>0. PICK k : k = counter
  OBVIOUS
<1>1. ASSUME UNCHANGED <<mesh, ess_bdr, conductor, wall_piece, wall_pieces, part, grounded>>,
             NEW n, GroupsJoined(n)
      PROVE  GroupsJoined(n)'
  BY <1>1, GroupsFrame DEF GroupsJoined
<1>2. CASE call \notin {"groups", "gauge", "gauged"} /\ call' \notin {"groups", "gauge", "gauged"}
  BY <1>2 DEF GroupInv, NoGroups
<1>3. CASE /\ UNCHANGED <<mesh, ess_bdr, conductor, wall_piece, wall_pieces, part, grounded>>
           /\ \/ call = "groups" /\ counter = NDof /\ call' = "gauge"
              \/ call = "gauge" /\ call' \in {"gauge", "gauged"}
              \/ call = "gauged" /\ call' = "gauged"
  <2>1. GroupsJoined(NDof)
    BY <1>3 DEF GroupInv
  <2> QED BY <1>1, <1>3, <2>1 DEF GroupInv
<1>4. CASE /\ UNCHANGED <<mesh, ess_bdr, conductor, wall_piece, wall_pieces, part, grounded>>
           /\ UNCHANGED <<call, counter>>
  <2>1. CASE call = "groups"
    <3>1. GroupsJoined(k)
      BY <1>0, <2>1 DEF GroupInv
    <3> QED BY <1>0, <1>1, <1>4, <2>1, <3>1 DEF GroupInv
  <2> QED BY <1>2, <1>3, <1>4, <2>1
<1> QED BY <1>2, <1>3, <1>4

LEMMA GaugeStart ==
  ASSUME GInit PROVE GaugeInv
BY DEF GInit, GaugeInv, NoColumns

\* Keys are alike only if what they are made from is.
LEMMA KeysDiffer ==
  /\ \A w, y : WallKey(w) = WallKey(y) => w = y
  /\ \A w, y : OwnKey(w) = OwnKey(y) => w = y
  /\ \A w, y : PartKey(w) = PartKey(y) => w = y
  /\ \A w, y : WallKey(w) # OwnKey(y) /\ WallKey(w) # PartKey(y) /\ OwnKey(w) # PartKey(y)
<1>1. \A a, w, b, y : <<a, w>> = <<b, y>> => a = b /\ w = y
  <2> SUFFICES ASSUME NEW a, NEW w, NEW b, NEW y, <<a, w>> = <<b, y>> PROVE a = b /\ w = y
    OBVIOUS
  <2>1. <<a, w>>[1] = <<b, y>>[1] /\ <<a, w>>[2] = <<b, y>>[2]
    OBVIOUS
  <2> QED BY <2>1
<1>2. "wall" # "own" /\ "wall" # "part" /\ "own" # "part"
  OBVIOUS
<1> QED BY <1>1, <1>2, Zenon DEF WallKey, OwnKey, PartKey

\* What a key is.
LEMMA KeyTypes ==
  ASSUME SpaceAssumption, mesh \in Meshes, PiecesExact, PartsExact, GroupsJoined(NDof)
  PROVE  /\ \A d \in H1Dofs : part[d] < 0 <=> part[d] = None
         /\ \A d \in essential : wall_piece[d] \in Pieces /\ group[wall_piece[d]] \in H1Dofs
         /\ \A d \in H1Dofs : part[d] # None => part[d] \in H1Dofs /\ part[d] \in Parts
         /\ \A d \in H1Dofs : d \notin essential /\ part[d] # None /\ Grounded(part[d]) =>
              part_piece[part[d]] \in Pieces /\ group[part_piece[part[d]]] \in H1Dofs
         /\ \A e \in essential : part[e] # None =>
              part_piece[part[e]] # None /\ group[part_piece[part[e]]] = group[wall_piece[e]]
<1>1. essential \subseteq H1Dofs /\ \A d \in H1Dofs : d < NDof
  BY CellsHaveDofs DEF H1Dofs, SpaceAssumption
<1>2. /\ \A d \in H1Dofs : part[d] < 0 <=> part[d] = None
      /\ \A d \in H1Dofs : part[d] # None => part[d] \in H1Dofs /\ part[d] \in Parts
  BY DEF PartsExact, Parts, None
<1>3. Pieces \subseteq H1Dofs /\ \A d \in essential : wall_piece[d] \in Pieces
  <2>1. \A d \in essential : wall_piece[d] \in Pieces \cup {None} /\ wall_piece[d] # None
    BY <1>1 DEF PiecesExact
  <2> QED BY <2>1 DEF PiecesExact
<1>4. /\ group \in [H1Dofs -> H1Dofs] /\ part_piece \in [H1Dofs -> Pieces \cup {None}]
      /\ \A e \in essential : part[e] # None =>
           part_piece[part[e]] # None /\ group[part_piece[part[e]]] = group[wall_piece[e]]
  BY <1>1 DEF GroupsJoined
<1>5. \A d \in H1Dofs : part[d] # None /\ Grounded(part[d]) => part_piece[part[d]] \in Pieces
  <2> SUFFICES ASSUME NEW d \in H1Dofs, part[d] # None, Grounded(part[d])
               PROVE  part_piece[part[d]] \in Pieces
    OBVIOUS
  <2>1. PICK e \in essential : part[e] = part[d]
    BY <1>2 DEF PartsExact
  <2>2. part_piece[part[d]] # None
    BY <1>4, <2>1
  <2> QED BY <1>2, <1>4, <2>2
<1> QED BY <1>2, <1>3, <1>4, <1>5

\* Off walls and conductor a degree of freedom is joined to itself only, and so in the
\* conductor alone off the conductor.
LEMMA AloneOutside ==
  ASSUME NEW d \in H1Dofs, d \notin InConductor, NEW e \in H1Dofs
  PROVE  /\ JoinedByConductor(d, e) => e = d
         /\ d \notin essential /\ JoinedByEither(d, e) => e = d
<1>1. ClosedInConductor({d})
  BY DEF ClosedInConductor, InConductor
<1>2. d \notin essential => ClosedInWalls({d})
  BY DEF ClosedInWalls, essential
<1> QED BY <1>1, <1>2 DEF JoinedByConductor, JoinedByEither

\* Two degrees of freedom have one key just if walls and conductor join them.
LEMMA KeysExact ==
  ASSUME SpaceAssumption, mesh \in Meshes, PiecesExact, PartsExact, GroupsJoined(NDof),
         NEW d \in H1Dofs, NEW e \in H1Dofs
  PROVE  Key(d) = Key(e) <=> JoinedByEither(d, e)
<1>1. ASSUME Key(d) = Key(e), NEW S \in SUBSET H1Dofs, ClosedInWalls(S), ClosedInConductor(S)
      PROVE  d \in S <=> e \in S
  <2>1. /\ \A w, y \in essential :
             group[wall_piece[w]] = group[wall_piece[y]] => (w \in S <=> y \in S)
        /\ \A w \in essential, y \in H1Dofs :
             /\ part[y] # None /\ part_piece[part[y]] # None
             /\ group[wall_piece[w]] = group[part_piece[part[y]]]
             => (w \in S <=> y \in S)
        /\ \A w, y \in H1Dofs : part[w] = part[y] /\ part[w] # None => (w \in S <=> y \in S)
    BY <1>1 DEF GroupsJoined, PartsExact
  \* Who stands for the wall a key names.
  <2> DEFINE InPart(w) == w \notin essential /\ part[w] # None /\ Grounded(part[w])
  <2>2. ASSUME NEW w \in H1Dofs, InPart(w)
        PROVE  \E f \in essential : /\ (f \in S <=> w \in S)
                                    /\ group[wall_piece[f]] = group[part_piece[part[w]]]
    <3>1. part[w] \in Parts /\ essential \subseteq H1Dofs
      BY <2>2, KeyTypes, CellsHaveDofs
    <3>2. PICK f \in essential : part[f] = part[w]
      BY <2>2, <3>1 DEF PartsExact
    <3>3. group[part_piece[part[f]]] = group[wall_piece[f]]
      BY <2>2, <3>2, KeyTypes
    <3> QED BY <2>1, <2>2, <3>1, <3>2, <3>3
  <2>3. \A w \in H1Dofs : InPart(w) => Key(w) = WallKey(group[part_piece[part[w]]])
    BY DEF Key
  <2>4. \A w \in essential : Key(w) = WallKey(group[wall_piece[w]])
    BY DEF Key
  <2>5. \A w \in H1Dofs : w \notin essential /\ part[w] = None => Key(w) = OwnKey(w)
    BY DEF Key
  <2>6. \A w \in H1Dofs : w \notin essential /\ part[w] # None /\ ~Grounded(part[w]) =>
          Key(w) = PartKey(part[w])
    BY DEF Key
  <2>7. \A w \in H1Dofs : w \in essential \/ InPart(w) =>
          \E f \in essential : (f \in S <=> w \in S) /\ Key(w) = WallKey(group[wall_piece[f]])
    BY <2>2, <2>3, <2>4
  <2> HIDE DEF InPart
  <2>8. CASE d \in essential \/ InPart(d)
    <3>1. PICK f \in essential : (f \in S <=> d \in S) /\ Key(d) = WallKey(group[wall_piece[f]])
      BY <2>7, <2>8
    <3>2. e \in essential \/ InPart(e)
      BY <1>1, <2>5, <2>6, <3>1, KeysDiffer DEF InPart
    <3>3. PICK w \in essential : (w \in S <=> e \in S) /\ Key(e) = WallKey(group[wall_piece[w]])
      BY <2>7, <3>2
    <3>4. group[wall_piece[f]] = group[wall_piece[w]]
      BY <1>1, <3>1, <3>3, KeysDiffer
    <3> QED BY <2>1, <3>1, <3>3, <3>4
  <2>9. CASE ~(d \in essential \/ InPart(d))
    <3>1. ~(e \in essential \/ InPart(e))
      <4>1. PICK y : Key(d) = OwnKey(y) \/ Key(d) = PartKey(y)
        BY <2>5, <2>6, <2>9 DEF InPart
      <4>2. ASSUME e \in essential \/ InPart(e) PROVE FALSE
        <5>1. PICK z : Key(e) = WallKey(z)
          BY <2>7, <4>2
        <5> QED BY <1>1, <4>1, <5>1, KeysDiffer
      <4> QED BY <4>2
    <3>2. CASE part[d] = None
      <4>1. Key(d) = OwnKey(d)
        BY <2>5, <2>9, <3>2
      <4>2. part[e] = None
        BY <1>1, <2>6, <3>1, <4>1, KeysDiffer DEF InPart
      <4>3. Key(e) = OwnKey(e)
        BY <2>5, <3>1, <4>2
      <4>4. d = e
        BY <1>1, <4>1, <4>3, KeysDiffer
      <4> QED BY <4>4
    <3>3. CASE part[d] # None
      <4>1. Key(d) = PartKey(part[d])
        BY <2>6, <2>9, <3>3 DEF InPart
      <4>2. part[e] # None
        <5>1. OwnKey(e) # PartKey(part[d]) /\ e \notin essential
          BY <3>1, KeysDiffer
        <5>2. part[e] = None => Key(e) = OwnKey(e)
          BY <2>5, <5>1
        <5> QED BY <1>1, <4>1, <5>1, <5>2
      <4>3. Key(e) = PartKey(part[e])
        BY <2>6, <3>1, <4>2 DEF InPart
      <4>4. part[d] = part[e]
        BY <1>1, <4>1, <4>3, KeysDiffer
      <4> QED BY <2>1, <3>3, <4>4
    <3> QED BY <3>2, <3>3
  <2> QED BY <2>8, <2>9
<1>2. ASSUME JoinedByEither(d, e) PROVE Key(d) = Key(e)
  <2> DEFINE S == {w \in H1Dofs : Key(w) = Key(d)}
  <2>1. ClosedInWalls(S)
    <3> SUFFICES ASSUME NEW i \in Walls, NEW w \in Vertices(mesh.boundary[i]),
                        NEW y \in Vertices(mesh.boundary[i])
                 PROVE  w \in H1Dofs /\ y \in H1Dofs /\ Key(w) = Key(y)
      BY DEF ClosedInWalls
    <3>1. w \in essential /\ y \in essential /\ essential \subseteq H1Dofs
      BY CellsHaveDofs DEF essential
    <3>2. JoinedByWalls(w, y)
      BY DEF JoinedByWalls, ClosedInWalls
    <3>3. wall_piece[w] = wall_piece[y]
      BY <3>1, <3>2 DEF PiecesExact
    <3> QED BY <3>1, <3>3 DEF Key
  <2>2. ClosedInConductor(S)
    <3> SUFFICES ASSUME NEW i \in Conducting, NEW w \in Vertices(mesh.elements[i]),
                        NEW y \in Vertices(mesh.elements[i])
                 PROVE  w \in H1Dofs /\ y \in H1Dofs /\ Key(w) = Key(y)
      BY DEF ClosedInConductor
    <3>1. /\ w \in InConductor /\ y \in InConductor /\ w \in H1Dofs /\ y \in H1Dofs
          /\ part[w] = part[y]
      BY CellsHaveDofs DEF InConductor, PartsExact
    <3>2. part[w] # None /\ part[y] # None
      BY <3>1 DEF PartsExact
    <3>3. \A z \in H1Dofs : part[z] # None /\ z \in essential =>
            Grounded(part[z]) /\ Key(z) = WallKey(group[part_piece[part[z]]])
      BY KeyTypes DEF Key, PartsExact
    <3>4. \A z \in H1Dofs : part[z] # None /\ Grounded(part[z]) =>
            Key(z) = WallKey(group[part_piece[part[z]]])
      BY <3>3 DEF Key
    <3>5. \A z \in H1Dofs : part[z] # None /\ ~Grounded(part[z]) => Key(z) = PartKey(part[z])
      BY <3>3 DEF Key
    <3> QED BY <3>1, <3>2, <3>4, <3>5
  <2>3. S \in SUBSET H1Dofs /\ d \in S
    OBVIOUS
  <2>4. e \in S
    BY <1>2, <2>1, <2>2, <2>3 DEF JoinedByEither
  <2> QED BY <2>4
<1> QED BY <1>1, <1>2 DEF JoinedByEither

\* The keys stay as long as walls, parts and groups do.
LEMMA KeysKept ==
  ASSUME UNCHANGED <<mesh, ess_bdr, wall_piece, part, grounded, group, part_piece>>
  PROVE  /\ \A d : Key(d)' = Key(d)
         /\ Reference' = Reference
<1>1. essential' = essential
  BY InputKept
<1> QED BY <1>1 DEF Key, Reference, Grounded, WallKey, OwnKey, PartKey

\* Only a wall has a wall's key, and only one degree of freedom its own.
LEMMA KeyKinds ==
  ASSUME SpaceAssumption, mesh \in Meshes, PiecesExact, PartsExact, GroupsJoined(NDof)
  PROVE  /\ essential = {} => \A d \in H1Dofs : \A g : Key(d) # WallKey(g)
         /\ \A d \in H1Dofs : \A e : Key(d) = OwnKey(e) => d = e
<1>1. \A d \in H1Dofs : part[d] # None => part[d] \in Parts
  BY KeyTypes
<1>2. \A d \in H1Dofs : part[d] # None /\ Grounded(part[d]) => essential # {}
  BY <1>1 DEF PartsExact
<1> QED BY <1>2, KeysDiffer DEF Key

\* Before the loop no degree of freedom has a column.
LEMMA GaugeBegin ==
  ASSUME SpaceAssumption, StagesInv, GaugeInv, GroupsDone PROVE GaugeInv'
<1>1. /\ call = "groups" /\ call' = "gauge" /\ counter' = 0
      /\ UNCHANGED <<gauge, multipliers, group_column, part_column>>
  BY DEF GroupsDone, multi
<1>2. NoColumns
  BY <1>1 DEF GaugeInv
<1>3. \A d \in H1Dofs : ~(d < 0)
  BY DEF H1Dofs
<1>4. /\ multipliers' = 0 /\ 0 .. multipliers' - 1 = {}
      /\ gauge' = [d \in H1Dofs |-> None]
      /\ group_column' = [d \in H1Dofs |-> None] /\ part_column' = [d \in H1Dofs |-> None]
  BY <1>1, <1>2 DEF NoColumns
<1>5. /\ \A d \in H1Dofs : gauge'[d] = None /\ group_column'[d] = None /\ part_column'[d] = None
      /\ gauge' \in [H1Dofs -> (0 .. multipliers' - 1) \cup {None}]
      /\ group_column' \in [H1Dofs -> (0 .. multipliers' - 1) \cup {None}]
      /\ part_column' \in [H1Dofs -> (0 .. multipliers' - 1) \cup {None}]
  BY <1>4
<1>6. ColumnsGiven(0)'
  BY <1>3, <1>4, <1>5 DEF ColumnsGiven
<1> QED BY <1>1, <1>6 DEF GaugeInv

\* What the loop does with one more degree of freedom: nothing at the reference, else it
\* gives a new column to a new key, or the column its key has.
LEMMA GaugeOutcomes ==
  ASSUME SpaceAssumption, StagesInv, PiecesExact, PartsExact, GroupsJoined(NDof),
         NEW k \in H1Dofs, k = counter, ColumnsGiven(k), AssignMultiplier
  PROVE  \/ /\ Key(k) = Reference
            /\ UNCHANGED <<gauge, multipliers, group_column, part_column>>
         \/ /\ Key(k) # Reference /\ \A d \in H1Dofs : d < k => Key(d) # Key(k)
            /\ gauge' = [gauge EXCEPT ![k] = multipliers] /\ multipliers' = multipliers + 1
            /\ \/ \E g \in H1Dofs : /\ Key(k) = WallKey(g) /\ part_column' = part_column
                                    /\ group_column' = [group_column EXCEPT ![g] = multipliers]
               \/ Key(k) = OwnKey(k) /\ UNCHANGED <<group_column, part_column>>
               \/ \E c \in H1Dofs : /\ Key(k) = PartKey(c) /\ group_column' = group_column
                                    /\ part_column' = [part_column EXCEPT ![c] = multipliers]
         \/ /\ Key(k) # Reference /\ UNCHANGED <<multipliers, group_column, part_column>>
            /\ \E f \in H1Dofs : /\ f < k /\ Key(f) = Key(k)
                                 /\ gauge' = [gauge EXCEPT ![k] = gauge[f]]
<1> DEFINE
     New == gauge' = [gauge EXCEPT ![k] = multipliers] /\ multipliers' = multipliers + 1
     Fresh == \A d \in H1Dofs : d < k => Key(d) # Key(k)
     Alike == \E f \in H1Dofs : f < k /\ Key(f) = Key(k) /\ gauge' = [gauge EXCEPT ![k] = gauge[f]]
<1>1. mesh \in Meshes /\ k < NDof
  BY DEF StagesInv, H1Dofs, SpaceAssumption
<1>2. /\ group_column \in [H1Dofs -> (0 .. multipliers - 1) \cup {None}]
      /\ part_column \in [H1Dofs -> (0 .. multipliers - 1) \cup {None}] /\ multipliers \in Nat
      /\ \A d \in H1Dofs : gauge[d] # None <=> d < k /\ Key(d) # Reference
  BY DEF ColumnsGiven
<1>3. \A g \in H1Dofs : /\ group_column[g] < 0 <=> group_column[g] = None
                        /\ part_column[g] < 0 <=> part_column[g] = None
  BY <1>2 DEF None
<1>4. ASSUME NEW piece, group[piece] \in H1Dofs, Key(k) = WallKey(group[piece]), WallColumn(piece)
      PROVE  \/ Key(k) = Reference /\ UNCHANGED <<gauge, multipliers, group_column, part_column>>
             \/ /\ Key(k) # Reference /\ Fresh /\ New
                /\ \E g \in H1Dofs : /\ Key(k) = WallKey(g) /\ part_column' = part_column
                                     /\ group_column' = [group_column EXCEPT ![g] = multipliers]
             \/ /\ Key(k) # Reference /\ UNCHANGED <<multipliers, group_column, part_column>>
                /\ Alike
  <2>1. IsReference(piece) <=> Key(k) = Reference
    BY <1>4, KeysDiffer DEF IsReference, Reference
  <2>2. CASE Key(k) = Reference
    BY <1>4, <2>1, <2>2 DEF WallColumn
  <2>3. CASE Key(k) # Reference /\ group_column[group[piece]] = None
    <3>1. /\ gauge' = [gauge EXCEPT ![counter] = multipliers] /\ multipliers' = multipliers + 1
          /\ group_column' = [group_column EXCEPT ![group[piece]] = multipliers]
          /\ part_column' = part_column
      BY <1>3, <1>4, <2>1, <2>3 DEF WallColumn, NewColumn
    <3>2. ASSUME NEW d \in H1Dofs, d < k, Key(d) = Key(k) PROVE FALSE
      <4>1. group_column[group[piece]] = gauge[d]
        BY <1>4, <2>3, <3>2 DEF ColumnsGiven
      <4> QED BY <1>2, <2>3, <3>2, <4>1
    <3> QED BY <1>4, <2>3, <3>1, <3>2
  <2>4. CASE Key(k) # Reference /\ group_column[group[piece]] # None
    <3>1. /\ gauge' = [gauge EXCEPT ![counter] = group_column[group[piece]]]
          /\ UNCHANGED <<multipliers, group_column, part_column>>
      BY <1>3, <1>4, <2>1, <2>4 DEF WallColumn
    <3>2. PICK f \in H1Dofs : f < k /\ Key(f) = WallKey(group[piece])
      BY <1>4, <2>4 DEF ColumnsGiven
    <3>3. group_column[group[piece]] = gauge[f]
      BY <1>4, <2>4, <3>2 DEF ColumnsGiven
    <3> QED BY <1>4, <2>4, <3>1, <3>2, <3>3
  <2> QED BY <2>2, <2>3, <2>4
<1>5. IF k \in essential THEN WallColumn(wall_piece[k])
      ELSE IF part[k] < 0 THEN NewColumn /\ UNCHANGED <<group_column, part_column>>
      ELSE IF TouchesWall(part[k]) THEN WallColumn(part_piece[part[k]])
      ELSE PartColumn(part[k])
  BY DEF AssignMultiplier
<1>6. CASE k \in essential
  <2>1. WallColumn(wall_piece[k]) /\ Key(k) = WallKey(group[wall_piece[k]])
    BY <1>5, <1>6 DEF Key
  <2>2. group[wall_piece[k]] \in H1Dofs
    BY <1>1, <1>6, KeyTypes
  <2> QED BY <1>4, <2>1, <2>2
<1>7. CASE k \notin essential /\ part[k] = None
  <2>1. NewColumn /\ UNCHANGED <<group_column, part_column>> /\ Key(k) = OwnKey(k)
    BY <1>5, <1>7 DEF Key, None
  <2>2. Key(k) # Reference
    BY <2>1, KeysDiffer DEF Reference
  <2>3. ASSUME NEW d \in H1Dofs, d < k, Key(d) = Key(k) PROVE FALSE
    <3>1. d = k
      BY <1>1, <2>1, <2>3, KeyKinds
    <3> QED BY <2>3, <3>1 DEF H1Dofs
  <2> QED BY <2>1, <2>2, <2>3 DEF NewColumn
<1>8. CASE k \notin essential /\ part[k] # None /\ Grounded(part[k])
  <2>1. WallColumn(part_piece[part[k]]) /\ Key(k) = WallKey(group[part_piece[part[k]]])
    BY <1>1, <1>5, <1>8, KeyTypes DEF Key, TouchesWall
  <2>2. group[part_piece[part[k]]] \in H1Dofs
    BY <1>1, <1>8, KeyTypes
  <2> QED BY <1>4, <2>1, <2>2
<1>9. CASE k \notin essential /\ part[k] # None /\ ~Grounded(part[k])
  <2> DEFINE c == part[k]
  <2>1. PartColumn(c) /\ Key(k) = PartKey(c) /\ c \in H1Dofs
    BY <1>1, <1>5, <1>9, KeyTypes DEF Key, TouchesWall
  <2>2. Key(k) # Reference
    BY <2>1, KeysDiffer DEF Reference
  <2> HIDE DEF c
  <2>3. CASE part_column[c] = None
    <3>1. /\ gauge' = [gauge EXCEPT ![counter] = multipliers] /\ multipliers' = multipliers + 1
          /\ part_column' = [part_column EXCEPT ![c] = multipliers]
          /\ group_column' = group_column
      BY <1>3, <2>1, <2>3 DEF PartColumn, NewColumn
    <3>2. ASSUME NEW d \in H1Dofs, d < k, Key(d) = Key(k) PROVE FALSE
      <4>1. part_column[c] = gauge[d]
        BY <2>1, <3>2 DEF ColumnsGiven
      <4> QED BY <1>2, <2>2, <2>3, <3>2, <4>1
    <3> QED BY <2>1, <2>2, <3>1, <3>2
  <2>4. CASE part_column[c] # None
    <3>1. /\ gauge' = [gauge EXCEPT ![counter] = part_column[c]]
          /\ UNCHANGED <<multipliers, group_column, part_column>>
      BY <1>3, <2>1, <2>4 DEF PartColumn
    <3>2. PICK f \in H1Dofs : f < k /\ Key(f) = PartKey(c)
      BY <2>1, <2>4 DEF ColumnsGiven
    <3>3. part_column[c] = gauge[f]
      BY <2>1, <3>2 DEF ColumnsGiven
    <3> QED BY <2>1, <2>2, <3>1, <3>2, <3>3
  <2> QED BY <2>3, <2>4
<1> QED BY <1>6, <1>7, <1>8, <1>9

\* One more degree of freedom has the column of its key.
LEMMA GaugeAssign ==
  ASSUME SpaceAssumption, StagesInv, PiecesExact, PartsExact, GroupsJoined(NDof), GaugeInv,
         AssignMultiplier
  PROVE  GaugeInv'
<1>0. PICK k : k = counter
  OBVIOUS
<1>1. /\ call = "gauge" /\ call' = "gauge" /\ k \in H1Dofs /\ counter' = k + 1 /\ k \in Nat
      /\ UNCHANGED <<mesh, ess_bdr, wall_piece, part, grounded, group, part_piece>>
      /\ mesh \in Meshes
  BY <1>0 DEF AssignMultiplier, input, wall, parts, joint, StagesInv
<1>2. ColumnsGiven(k)
  BY <1>0, <1>1 DEF GaugeInv
<1>3. SUFFICES ColumnsGiven(k + 1)'
  BY <1>1 DEF GaugeInv
<1>4. Reference' = Reference /\ essential' = essential /\ \A d : Key(d)' = Key(d)
  BY <1>1, KeysKept, InputKept
<1>5. \A d \in H1Dofs : d < k + 1 <=> d < k \/ d = k
  BY <1>1 DEF H1Dofs
<1>6. ~(k < k) /\ 0 \in H1Dofs /\ H1Dofs \subseteq Nat
  BY <1>1, CellsHaveDofs DEF H1Dofs
<1>7. /\ multipliers \in Nat /\ gauge \in [H1Dofs -> (0 .. multipliers - 1) \cup {None}]
      /\ group_column \in [H1Dofs -> (0 .. multipliers - 1) \cup {None}]
      /\ part_column \in [H1Dofs -> (0 .. multipliers - 1) \cup {None}]
      /\ \A d \in H1Dofs : gauge[d] # None <=> d < k /\ Key(d) # Reference
      /\ \A d, e \in H1Dofs : d < k /\ e < k => (gauge[d] = gauge[e] <=> Key(d) = Key(e))
      /\ \A j \in 0 .. multipliers - 1 : \E d \in H1Dofs : gauge[d] = j
      /\ \A d \in H1Dofs : \A g \in H1Dofs :
           d < k /\ Key(d) = WallKey(g) /\ Key(d) # Reference => group_column[g] = gauge[d]
      /\ \A d \in H1Dofs : \A c \in H1Dofs :
           d < k /\ Key(d) = PartKey(c) => part_column[c] = gauge[d]
      /\ \A g \in H1Dofs : group_column[g] # None => \E d \in H1Dofs : d < k /\ Key(d) = WallKey(g)
      /\ \A c \in H1Dofs : part_column[c] # None => \E d \in H1Dofs : d < k /\ Key(d) = PartKey(c)
      /\ essential = {} /\ k > 0 => gauge[0] = 0
  BY <1>2 DEF ColumnsGiven
<1>8. gauge[k] = None
  BY <1>1, <1>6, <1>7
<1>10. ColumnsGiven(k + 1)' <=>
        /\ multipliers' \in Nat /\ gauge' \in [H1Dofs -> (0 .. multipliers' - 1) \cup {None}]
        /\ group_column' \in [H1Dofs -> (0 .. multipliers' - 1) \cup {None}]
        /\ part_column' \in [H1Dofs -> (0 .. multipliers' - 1) \cup {None}]
        /\ \A d \in H1Dofs : gauge'[d] # None <=> d < k + 1 /\ Key(d) # Reference
        /\ \A d, e \in H1Dofs : d < k + 1 /\ e < k + 1 => (gauge'[d] = gauge'[e] <=> Key(d) = Key(e))
        /\ \A j \in 0 .. multipliers' - 1 : \E d \in H1Dofs : gauge'[d] = j
        /\ \A d \in H1Dofs : \A g \in H1Dofs :
             d < k + 1 /\ Key(d) = WallKey(g) /\ Key(d) # Reference => group_column'[g] = gauge'[d]
        /\ \A d \in H1Dofs : \A c \in H1Dofs :
             d < k + 1 /\ Key(d) = PartKey(c) => part_column'[c] = gauge'[d]
        /\ \A g \in H1Dofs :
             group_column'[g] # None => \E d \in H1Dofs : d < k + 1 /\ Key(d) = WallKey(g)
        /\ \A c \in H1Dofs :
             part_column'[c] # None => \E d \in H1Dofs : d < k + 1 /\ Key(d) = PartKey(c)
        /\ essential = {} /\ k + 1 > 0 => gauge'[0] = 0
  BY <1>4 DEF ColumnsGiven, WallKey, PartKey
<1>9. CASE Key(k) = Reference /\ UNCHANGED <<gauge, multipliers, group_column, part_column>>
  <2>1. \A d \in H1Dofs : gauge'[d] # None <=> d < k + 1 /\ Key(d) # Reference
    BY <1>5, <1>7, <1>8, <1>9
  <2>2. ASSUME NEW d \in H1Dofs, NEW e \in H1Dofs, d < k + 1, e < k + 1
        PROVE  gauge'[d] = gauge'[e] <=> Key(d) = Key(e)
    BY <1>5, <1>7, <1>8, <1>9, <2>2
  <2>3. /\ \A d \in H1Dofs : \A g \in H1Dofs :
             d < k + 1 /\ Key(d) = WallKey(g) /\ Key(d) # Reference => group_column'[g] = gauge'[d]
        /\ \A d \in H1Dofs : \A c \in H1Dofs :
             d < k + 1 /\ Key(d) = PartKey(c) => part_column'[c] = gauge'[d]
    BY <1>5, <1>7, <1>9, KeysDiffer DEF Reference
  <2>4. /\ \A g \in H1Dofs :
             group_column'[g] # None => \E d \in H1Dofs : d < k + 1 /\ Key(d) = WallKey(g)
        /\ \A c \in H1Dofs :
             part_column'[c] # None => \E d \in H1Dofs : d < k + 1 /\ Key(d) = PartKey(c)
    BY <1>5, <1>7, <1>9
  <2>5. essential = {} /\ k + 1 > 0 => gauge'[0] = 0
    <3>1. essential # {}
      BY <1>1, <1>9, KeyKinds DEF Reference
    <3> QED BY <3>1
  <2> QED BY <1>7, <1>9, <1>10, <2>1, <2>2, <2>3, <2>4, <2>5
<1>11. CASE \E f \in H1Dofs : /\ f < k /\ Key(f) = Key(k) /\ Key(k) # Reference
                              /\ gauge' = [gauge EXCEPT ![k] = gauge[f]]
                              /\ UNCHANGED <<multipliers, group_column, part_column>>
  <2>1. PICK f \in H1Dofs : /\ f < k /\ Key(f) = Key(k) /\ Key(k) # Reference
                            /\ gauge' = [gauge EXCEPT ![k] = gauge[f]]
                            /\ UNCHANGED <<multipliers, group_column, part_column>>
    BY <1>11
  <2>2. \A d \in H1Dofs : gauge'[d] = IF d = k THEN gauge[f] ELSE gauge[d]
    BY <1>7, <2>1
  <2>3. gauge' \in [H1Dofs -> (0 .. multipliers' - 1) \cup {None}]
    BY <1>7, <2>1
  <2>4. \A d \in H1Dofs : gauge'[d] # None <=> d < k + 1 /\ Key(d) # Reference
    BY <1>1, <1>5, <1>6, <1>7, <2>1, <2>2
  <2>5. \A d, e \in H1Dofs : d < k + 1 /\ e < k + 1 => (gauge'[d] = gauge'[e] <=> Key(d) = Key(e))
    BY <1>1, <1>5, <1>6, <1>7, <2>1, <2>2
  <2>6. \A j \in 0 .. multipliers' - 1 : \E d \in H1Dofs : gauge'[d] = j
    <3>1. \A j \in 0 .. multipliers - 1 : j # None
      BY <1>7 DEF None
    <3>2. \A j \in 0 .. multipliers - 1 : \E d \in H1Dofs : gauge[d] = j /\ d # k
      BY <1>7, <1>8, <3>1
    <3> QED BY <2>1, <2>2, <3>2
  <2>7. \A d \in H1Dofs : d < k + 1 => \E e \in H1Dofs : e < k /\ Key(e) = Key(d) /\ gauge'[d] = gauge[e]
    BY <1>5, <1>6, <2>1, <2>2
  <2>8. /\ \A d \in H1Dofs : \A g \in H1Dofs :
             d < k + 1 /\ Key(d) = WallKey(g) /\ Key(d) # Reference => group_column'[g] = gauge'[d]
        /\ \A d \in H1Dofs : \A c \in H1Dofs :
             d < k + 1 /\ Key(d) = PartKey(c) => part_column'[c] = gauge'[d]
    BY <1>7, <2>1, <2>7
  <2>9. /\ \A g \in H1Dofs :
             group_column'[g] # None => \E d \in H1Dofs : d < k + 1 /\ Key(d) = WallKey(g)
        /\ \A c \in H1Dofs :
             part_column'[c] # None => \E d \in H1Dofs : d < k + 1 /\ Key(d) = PartKey(c)
    BY <1>5, <1>7, <2>1
  <2>10. essential = {} /\ k + 1 > 0 => gauge'[0] = 0
    <3>1. k > 0 /\ 0 # k
      BY <1>1, <1>6, <2>1
    <3> QED BY <1>6, <1>7, <2>2, <3>1
  <2> QED BY <1>7, <1>10, <2>1, <2>3, <2>4, <2>5, <2>6, <2>8, <2>9, <2>10
<1>12. CASE /\ Key(k) # Reference /\ \A d \in H1Dofs : d < k => Key(d) # Key(k)
            /\ gauge' = [gauge EXCEPT ![k] = multipliers] /\ multipliers' = multipliers + 1
            /\ \/ \E g \in H1Dofs : /\ Key(k) = WallKey(g) /\ part_column' = part_column
                                    /\ group_column' = [group_column EXCEPT ![g] = multipliers]
               \/ Key(k) = OwnKey(k) /\ UNCHANGED <<group_column, part_column>>
               \/ \E c \in H1Dofs : /\ Key(k) = PartKey(c) /\ group_column' = group_column
                                    /\ part_column' = [part_column EXCEPT ![c] = multipliers]
  <2>1. /\ 0 .. multipliers' - 1 = (0 .. multipliers - 1) \cup {multipliers} /\ multipliers # None
        /\ multipliers \notin 0 .. multipliers - 1 /\ multipliers' \in Nat
    BY <1>7, <1>12 DEF None
  <2>2. /\ gauge' \in [H1Dofs -> (0 .. multipliers' - 1) \cup {None}]
        /\ \A d \in H1Dofs : gauge'[d] = IF d = k THEN multipliers ELSE gauge[d]
        /\ \A d \in H1Dofs : gauge[d] # multipliers
    BY <1>1, <1>7, <1>12, <2>1
  <2>3. /\ group_column' \in [H1Dofs -> (0 .. multipliers' - 1) \cup {None}]
        /\ part_column' \in [H1Dofs -> (0 .. multipliers' - 1) \cup {None}]
    BY <1>7, <1>12, <2>1
  <2>4. /\ \A g \in H1Dofs : group_column'[g] = IF Key(k) = WallKey(g) THEN multipliers
                                                ELSE group_column[g]
        /\ \A c \in H1Dofs : part_column'[c] = IF Key(k) = PartKey(c) THEN multipliers
                                               ELSE part_column[c]
    <3>1. CASE \E g \in H1Dofs : /\ Key(k) = WallKey(g) /\ part_column' = part_column
                                 /\ group_column' = [group_column EXCEPT ![g] = multipliers]
      <4>1. PICK g \in H1Dofs : /\ Key(k) = WallKey(g) /\ part_column' = part_column
                                /\ group_column' = [group_column EXCEPT ![g] = multipliers]
        BY <3>1
      <4>2. \A h \in H1Dofs : group_column'[h] = IF h = g THEN multipliers ELSE group_column[h]
        BY <1>7, <4>1
      <4>3. \A h \in H1Dofs : (Key(k) = WallKey(h) <=> h = g) /\ Key(k) # PartKey(h)
        BY <4>1, KeysDiffer
      <4> QED BY <4>1, <4>2, <4>3
    <3>2. CASE Key(k) = OwnKey(k) /\ UNCHANGED <<group_column, part_column>>
      BY <3>2, KeysDiffer
    <3>3. CASE \E c \in H1Dofs : /\ Key(k) = PartKey(c) /\ group_column' = group_column
                                 /\ part_column' = [part_column EXCEPT ![c] = multipliers]
      <4>1. PICK c \in H1Dofs : /\ Key(k) = PartKey(c) /\ group_column' = group_column
                                /\ part_column' = [part_column EXCEPT ![c] = multipliers]
        BY <3>3
      <4>2. \A h \in H1Dofs : part_column'[h] = IF h = c THEN multipliers ELSE part_column[h]
        BY <1>7, <4>1
      <4>3. \A h \in H1Dofs : (Key(k) = PartKey(h) <=> h = c) /\ Key(k) # WallKey(h)
        BY <4>1, KeysDiffer
      <4> QED BY <4>1, <4>2, <4>3
    <3> QED BY <1>12, <3>1, <3>2, <3>3
  <2>5. \A d \in H1Dofs : gauge'[d] # None <=> d < k + 1 /\ Key(d) # Reference
    BY <1>1, <1>5, <1>6, <1>7, <1>12, <2>1, <2>2
  <2>6. \A d, e \in H1Dofs : d < k + 1 /\ e < k + 1 => (gauge'[d] = gauge'[e] <=> Key(d) = Key(e))
    BY <1>1, <1>5, <1>6, <1>7, <1>12, <2>2
  <2>7. \A j \in 0 .. multipliers' - 1 : \E d \in H1Dofs : gauge'[d] = j
    <3>1. \A j \in 0 .. multipliers - 1 : j # None
      BY <1>7 DEF None
    <3>2. \A j \in 0 .. multipliers - 1 : \E d \in H1Dofs : gauge[d] = j /\ d # k
      BY <1>7, <1>8, <3>1
    <3> QED BY <1>1, <2>1, <2>2, <3>2
  <2>8. /\ \A d \in H1Dofs : \A g \in H1Dofs :
             d < k + 1 /\ Key(d) = WallKey(g) /\ Key(d) # Reference => group_column'[g] = gauge'[d]
        /\ \A d \in H1Dofs : \A c \in H1Dofs :
             d < k + 1 /\ Key(d) = PartKey(c) => part_column'[c] = gauge'[d]
    BY <1>1, <1>5, <1>6, <1>7, <1>12, <2>2, <2>4
  <2>9. /\ \A g \in H1Dofs :
             group_column'[g] # None => \E d \in H1Dofs : d < k + 1 /\ Key(d) = WallKey(g)
        /\ \A c \in H1Dofs :
             part_column'[c] # None => \E d \in H1Dofs : d < k + 1 /\ Key(d) = PartKey(c)
    BY <1>1, <1>5, <1>7, <2>4
  <2>10. essential = {} /\ k + 1 > 0 => gauge'[0] = 0
    <3>1. CASE k > 0
      BY <1>6, <1>7, <2>2, <3>1
    <3>2. CASE k = 0
      <4>1. \A d \in H1Dofs : gauge[d] = None
        BY <1>6, <1>7, <3>2
      <4>2. multipliers = 0
        <5>1. multipliers > 0 => 0 \in 0 .. multipliers - 1 /\ 0 # None
          BY <1>7 DEF None
        <5> QED BY <1>7, <4>1, <5>1
      <4> QED BY <1>6, <2>2, <3>2, <4>2
    <3> QED BY <1>1, <3>1, <3>2
  <2> QED BY <1>10, <2>1, <2>2, <2>3, <2>5, <2>6, <2>7, <2>8, <2>9, <2>10
<1> QED
  BY <1>0, <1>1, <1>2, <1>9, <1>11, <1>12, GaugeOutcomes

\* Without the constant's column, where psi has no reference, the space is exact.
LEMMA GaugeDrop ==
  ASSUME SpaceAssumption, StagesInv, PiecesExact, PartsExact, GroupsJoined(NDof), GaugeInv,
         DropConstant
  PROVE  GaugeExact'
<1>1. /\ call = "gauge" /\ counter = NDof /\ mesh \in Meshes /\ UNCHANGED <<mesh, ess_bdr, conductor>>
      /\ IF essential = {} /\ multipliers > 0
         THEN /\ gauge' = [d \in H1Dofs |-> Dropped(gauge[d])]
              /\ multipliers' = multipliers - 1
         ELSE UNCHANGED <<gauge, multipliers>>
      /\ UNCHANGED <<part_column, group_column>>
  BY DEF DropConstant, input, StagesInv
<1>2. \A d \in H1Dofs : d < NDof
  BY DEF H1Dofs, SpaceAssumption
<1>3. /\ multipliers \in Nat /\ gauge \in [H1Dofs -> (0 .. multipliers - 1) \cup {None}]
      /\ group_column \in [H1Dofs -> (0 .. multipliers - 1) \cup {None}]
      /\ part_column \in [H1Dofs -> (0 .. multipliers - 1) \cup {None}]
      /\ \A d \in H1Dofs : gauge[d] # None <=> Key(d) # Reference
      /\ \A d, e \in H1Dofs : gauge[d] = gauge[e] <=> Key(d) = Key(e)
      /\ \A j \in 0 .. multipliers - 1 : \E d \in H1Dofs : gauge[d] = j
      /\ essential = {} => gauge[0] = 0
  <2>1. ColumnsGiven(NDof) /\ NDof > 0
    BY <1>1 DEF GaugeInv, SpaceAssumption
  <2> QED BY <1>2, <2>1 DEF ColumnsGiven
<1>4. multipliers \in 0 .. NDof
  BY <1>3, NoMoreThanDofs
<1>5. /\ part_column' \in [H1Dofs -> H1Dofs \cup {None}]
      /\ group_column' \in [H1Dofs -> H1Dofs \cup {None}]
  <2>1. 0 .. multipliers - 1 \subseteq H1Dofs
    BY <1>4 DEF H1Dofs, SpaceAssumption
  <2> QED BY <1>1, <1>3, <2>1
<1>6. \A d, e \in H1Dofs : gauge[d] = gauge[e] <=> JoinedByEither(d, e)
  BY <1>1, <1>3, KeysExact
<1>7. Zero \in H1Dofs /\ Zero' = Zero
  BY <1>1, ZeroIsLeast, InputKept DEF Zero
<1>8. /\ multipliers' \in 0 .. NDof
      /\ gauge' \in [H1Dofs -> (0 .. multipliers' - 1) \cup {None}]
      /\ \A d, e \in H1Dofs : gauge'[d] = gauge'[e] <=> gauge[d] = gauge[e]
      /\ gauge'[Zero] = None
      /\ \A j \in 0 .. multipliers' - 1 : \E d \in H1Dofs : gauge'[d] = j
  <2>1. CASE essential = {}
    <3>1. Zero = 0 /\ gauge[0] = 0
      BY <1>1, <1>3, <2>1, ZeroIsLeast
    <3>2. \A d \in H1Dofs : gauge[d] \in 0 .. multipliers - 1
      <4>1. \A d \in H1Dofs : Key(d) # Reference
        BY <1>1, <2>1, KeyKinds DEF Reference
      <4> QED BY <1>3, <4>1
    <3>3. multipliers > 0
      BY <1>3, <1>7, <3>1, <3>2
    <3>4. /\ gauge' = [d \in H1Dofs |-> Dropped(gauge[d])]
          /\ multipliers' = multipliers - 1
      BY <1>1, <2>1, <3>3
    <3>5. \A j \in 0 .. multipliers - 1 : /\ Dropped(j) = j - 1
                                          /\ Dropped(j) \in (0 .. multipliers' - 1) \cup {None}
      BY <1>3, <3>3, <3>4 DEF Dropped, None
    <3>6. \A d \in H1Dofs : gauge'[d] = gauge[d] - 1 /\ gauge[d] \in Nat
      BY <1>3, <3>2, <3>4, <3>5
    <3>7. gauge' \in [H1Dofs -> (0 .. multipliers' - 1) \cup {None}]
      BY <3>2, <3>4, <3>5
    <3>8. ASSUME NEW j \in 0 .. multipliers' - 1 PROVE \E d \in H1Dofs : gauge'[d] = j
      <4>1. j + 1 \in 0 .. multipliers - 1
        BY <1>3, <3>3, <3>4
      <4>2. PICK d \in H1Dofs : gauge[d] = j + 1
        BY <1>3, <4>1
      <4>3. gauge'[d] = (j + 1) - 1 /\ j \in Int
        BY <3>6, <4>2
      <4> QED BY <4>3
    <3>9. gauge'[Zero] = None
      BY <1>7, <3>1, <3>6 DEF None
    <3>10. \A d, e \in H1Dofs : gauge'[d] = gauge'[e] <=> gauge[d] = gauge[e]
      BY <3>6
    <3> QED BY <1>4, <3>3, <3>4, <3>7, <3>8, <3>9, <3>10 DEF SpaceAssumption
  <2>2. CASE essential # {}
    <3>1. UNCHANGED <<gauge, multipliers>>
      BY <1>1, <2>2
    <3>2. wall_piece[Zero] = 0 /\ Zero \in essential
      BY <1>1, <2>2, ZeroIsLeast DEF PiecesExact
    <3>3. Key(Zero) = Reference
      BY <3>2 DEF Key, Reference
    <3> QED BY <1>3, <1>4, <1>7, <3>1, <3>3
  <2> QED BY <2>1, <2>2
<1>9. NoIdleColumn(gauge', multipliers')
  <2>1. PICK m, f : m = multipliers' /\ f = gauge'
    OBVIOUS
  <2>2. m \in Nat
    BY <1>8, <2>1 DEF SpaceAssumption
  <2>3. NoIdleColumn(f, m)
    BY <1>8, <2>1, <2>2, NoMoreThanDofs
  <2> QED BY <2>1, <2>3
<1>10. /\ NoIdleColumn(gauge, multipliers)' /\ (gauge[Zero])' = None
       /\ \A d, e \in H1Dofs : gauge'[d] = gauge'[e] <=> JoinedByEither(d, e)'
  BY <1>1, <1>6, <1>7, <1>8, <1>9, InputKept DEF NoIdleColumn
<1> QED BY <1>5, <1>8, <1>10 DEF GaugeExact

\* The columns stay otherwise.
LEMMA GaugeKept ==
  ASSUME GaugeInv, UNCHANGED <<gauge, multipliers, group_column, part_column>>,
         \/ call \notin {"gauge", "gauged"} /\ call' \notin {"gauge", "gauged"}
         \/ UNCHANGED gvars
  PROVE  GaugeInv'
<1>1. CASE call \notin {"gauge", "gauged"} /\ call' \notin {"gauge", "gauged"}
  BY <1>1 DEF GaugeInv, NoColumns
<1>2. CASE UNCHANGED gvars
  <2>1. /\ UNCHANGED <<mesh, ess_bdr, conductor, wall_piece, part, grounded, group, part_piece>>
        /\ UNCHANGED <<call, counter>>
    BY <1>2 DEF gvars, input, wall, parts, joint
  <2>2. PICK k : k = counter
    OBVIOUS
  <2>3. Reference' = Reference /\ essential' = essential /\ \A d : Key(d)' = Key(d)
    BY <2>1, KeysKept, InputKept
  <2>4. \A d, e : JoinedByEither(d, e)' <=> JoinedByEither(d, e)
    BY <2>1, InputKept
  <2>5. GaugeExact => GaugeExact'
    BY <2>3, <2>4 DEF GaugeExact, Zero, NoIdleColumn
  <2>6. ColumnsGiven(k) => ColumnsGiven(k)'
    BY <2>3 DEF ColumnsGiven, WallKey, PartKey
  <2>7. NoColumns => NoColumns'
    BY DEF NoColumns
  <2> QED BY <2>1, <2>2, <2>5, <2>6, <2>7 DEF GaugeInv
<1> QED BY <1>1, <1>2

LEMMA PinsStart ==
  ASSUME GInit PROVE PinInv
BY DEF GInit, PinInv

\* Before the loop nothing is free and nothing pinned.
LEMMA PinsBegin ==
  ASSUME PinInv, PartsDone PROVE PinInv'
<1>1. /\ call = "parts" /\ call' \in {"groups", "pins"} /\ counter' = 0
      /\ UNCHANGED <<free, pinned>>
  BY DEF PartsDone, pins
<1>2. free' = {} /\ pinned' = {}
  BY <1>1 DEF PinInv
<1>3. \A d \in H1Dofs : ~(d < 0)
  BY DEF H1Dofs
<1>4. PinsSet(0)'
  BY <1>2, <1>3 DEF PinsSet
<1> QED BY <1>1, <1>2, <1>4 DEF PinInv

\* One more degree of freedom is free, or the pin of its part.
LEMMA PinsStep ==
  ASSUME SpaceAssumption, StagesInv, PartsExact, PinInv, FreeOrPin PROVE PinInv'
<1>0. PICK k : k = counter
  OBVIOUS
<1>1. /\ call = "pins" /\ call' = "pins" /\ k \in H1Dofs /\ counter' = k + 1 /\ k \in Nat
      /\ UNCHANGED <<mesh, ess_bdr, part, grounded>> /\ mesh \in Meshes
  BY <1>0 DEF FreeOrPin, input, parts, StagesInv
<1>2. PinsSet(k)
  BY <1>0, <1>1 DEF PinInv
<1>3. SUFFICES PinsSet(k + 1)'
  BY <1>1 DEF PinInv
<1>4. /\ essential' = essential /\ Parts' = Parts /\ part' = part
      /\ \A c : Grounded(c)' = Grounded(c)
  BY <1>1, InputKept DEF Parts, Grounded
<1>5. /\ \A d \in H1Dofs : d < k + 1 <=> d < k \/ d = k
      /\ ~(k < k)
  BY <1>1 DEF H1Dofs
<1>6. /\ \A d \in H1Dofs : part[d] < 0 <=> part[d] = None
      /\ \A d \in H1Dofs : part[d] # None => part[d] \in Parts
  BY DEF PartsExact, Parts, None
<1>7. \A d \in H1Dofs : d \in essential /\ part[d] # None => Grounded(part[d])
  BY <1>6 DEF PartsExact
<1>8. /\ pinned \subseteq Parts
      /\ \A d \in free : d \in H1Dofs /\ d < k /\ part[d] # None /\ d \notin essential
      /\ \A d \in H1Dofs : d < k /\ part[d] # None /\ d \notin essential =>
           d \in free \/ (~Grounded(part[d]) /\ part[d] \in pinned)
      /\ \A d \in free : Grounded(part[d]) \/ part[d] \in pinned
      /\ \A c \in pinned : \E p \in H1Dofs :
           /\ p < k /\ part[p] = c /\ p \notin free /\ ~Grounded(c)
           /\ \A d \in H1Dofs : d < k /\ part[d] = c /\ d # p => d \in free
  BY <1>2 DEF PinsSet
<1>9. SUFFICES
        /\ pinned' \subseteq Parts
        /\ \A d \in free' : d \in H1Dofs /\ d < k + 1 /\ part[d] # None /\ d \notin essential
        /\ \A d \in H1Dofs : d < k + 1 /\ part[d] # None /\ d \notin essential =>
             d \in free' \/ (~Grounded(part[d]) /\ part[d] \in pinned')
        /\ \A d \in free' : Grounded(part[d]) \/ part[d] \in pinned'
        /\ \A c \in pinned' : \E p \in H1Dofs :
             /\ p < k + 1 /\ part[p] = c /\ p \notin free' /\ ~Grounded(c)
             /\ \A d \in H1Dofs : d < k + 1 /\ part[d] = c /\ d # p => d \in free'
  BY <1>4 DEF PinsSet
<1>10. IF part[k] < 0 \/ k \in essential THEN UNCHANGED <<free, pinned>>
       ELSE IF NeedsPin(part[k]) THEN pinned' = pinned \cup {part[k]} /\ UNCHANGED free
       ELSE free' = free \cup {k} /\ UNCHANGED pinned
  BY <1>0 DEF FreeOrPin, pins
<1>11. CASE part[k] = None \/ k \in essential
  <2>1. UNCHANGED <<free, pinned>>
    BY <1>1, <1>6, <1>10, <1>11
  <2>2. ASSUME NEW c \in pinned
        PROVE  \E p \in H1Dofs :
                 /\ p < k + 1 /\ part[p] = c /\ p \notin free /\ ~Grounded(c)
                 /\ \A d \in H1Dofs : d < k + 1 /\ part[d] = c /\ d # p => d \in free
    <3>1. PICK p \in H1Dofs :
             /\ p < k /\ part[p] = c /\ p \notin free /\ ~Grounded(c)
             /\ \A d \in H1Dofs : d < k /\ part[d] = c /\ d # p => d \in free
      BY <1>8
    <3>2. c # None
      BY <1>8 DEF Parts, None
    <3>3. part[k] # c
      BY <1>1, <1>7, <1>11, <3>1, <3>2
    <3> QED BY <1>5, <3>1, <3>3
  <2> QED BY <1>5, <1>8, <1>11, <2>1, <2>2
<1>12. CASE ~(part[k] = None \/ k \in essential) /\ NeedsPin(part[k])
  <2>1. pinned' = pinned \cup {part[k]} /\ free' = free
    BY <1>1, <1>6, <1>10, <1>12
  <2>2. ~Grounded(part[k]) /\ part[k] \notin pinned /\ part[k] \in Parts
    BY <1>1, <1>6, <1>12 DEF NeedsPin
  <2>3. ASSUME NEW c \in pinned
        PROVE  \E p \in H1Dofs :
                 /\ p < k + 1 /\ part[p] = c /\ p \notin free /\ ~Grounded(c)
                 /\ \A d \in H1Dofs : d < k + 1 /\ part[d] = c /\ d # p => d \in free
    <3>1. PICK p \in H1Dofs :
             /\ p < k /\ part[p] = c /\ p \notin free /\ ~Grounded(c)
             /\ \A d \in H1Dofs : d < k /\ part[d] = c /\ d # p => d \in free
      BY <1>8
    <3>2. part[k] # c
      BY <2>2
    <3> QED BY <1>5, <3>1, <3>2
  <2>4. /\ k < k + 1 /\ k \notin free
        /\ \A d \in H1Dofs : d < k + 1 /\ part[d] = part[k] /\ d # k => d \in free
    BY <1>1, <1>5, <1>7, <1>8, <1>12, <2>2
  <2>5. \A d \in H1Dofs : d < k + 1 /\ part[d] # None /\ d \notin essential =>
             d \in free' \/ (~Grounded(part[d]) /\ part[d] \in pinned')
    BY <1>5, <1>8, <2>1, <2>2
  <2>6. ASSUME NEW c \in pinned'
        PROVE  \E p \in H1Dofs :
                 /\ p < k + 1 /\ part[p] = c /\ p \notin free /\ ~Grounded(c)
                 /\ \A d \in H1Dofs : d < k + 1 /\ part[d] = c /\ d # p => d \in free
    <3>1. CASE c = part[k]
      BY <1>1, <2>2, <2>4, <3>1
    <3> QED BY <2>1, <2>3, <2>6, <3>1
  <2>7. /\ \A d \in free' : d \in H1Dofs /\ d < k + 1 /\ part[d] # None /\ d \notin essential
        /\ \A d \in free' : Grounded(part[d]) \/ part[d] \in pinned'
    BY <1>5, <1>8, <2>1
  <2> QED BY <1>8, <2>1, <2>2, <2>5, <2>6, <2>7
<1>13. CASE ~(part[k] = None \/ k \in essential) /\ ~NeedsPin(part[k])
  <2>1. free' = free \cup {k} /\ pinned' = pinned
    BY <1>1, <1>6, <1>10, <1>13
  <2>2. ASSUME NEW c \in pinned
        PROVE  \E p \in H1Dofs :
                 /\ p < k + 1 /\ part[p] = c /\ p \notin free' /\ ~Grounded(c)
                 /\ \A d \in H1Dofs : d < k + 1 /\ part[d] = c /\ d # p => d \in free'
    <3>1. PICK p \in H1Dofs :
             /\ p < k /\ part[p] = c /\ p \notin free /\ ~Grounded(c)
             /\ \A d \in H1Dofs : d < k /\ part[d] = c /\ d # p => d \in free
      BY <1>8
    <3> QED BY <1>5, <2>1, <3>1
  <2>3. /\ \A d \in free' : d \in H1Dofs /\ d < k + 1 /\ part[d] # None /\ d \notin essential
        /\ \A d \in free' : Grounded(part[d]) \/ part[d] \in pinned'
    BY <1>1, <1>5, <1>8, <1>13, <2>1 DEF NeedsPin
  <2> QED BY <1>5, <1>8, <1>13, <2>1, <2>2, <2>3
<1> QED BY <1>11, <1>12, <1>13

\* Free and pinned stay otherwise.
LEMMA PinsKept ==
  ASSUME SpaceAssumption, PinInv, UNCHANGED <<free, pinned>>,
         \/ call \notin {"pins", "projected"} /\ call' \notin {"pins", "projected"}
         \/ /\ UNCHANGED <<mesh, ess_bdr, part, grounded>>
            /\ \/ UNCHANGED <<call, counter>>
               \/ call = "pins" /\ counter = NDof /\ call' = "projected"
  PROVE  PinInv'
<1>1. CASE call \notin {"pins", "projected"} /\ call' \notin {"pins", "projected"}
  BY <1>1 DEF PinInv
<1>2. CASE /\ UNCHANGED <<mesh, ess_bdr, part, grounded>>
           /\ \/ UNCHANGED <<call, counter>>
              \/ call = "pins" /\ counter = NDof /\ call' = "projected"
  <2>1. PICK k : k = counter
    OBVIOUS
  <2>2. /\ essential' = essential /\ Parts' = Parts /\ \A c : Grounded(c)' = Grounded(c)
    BY <1>2, InputKept DEF Parts, Grounded
  <2>3. (PinsSet(k) => PinsSet(k)') /\ (PinsSet(NDof) => PinsSet(NDof)')
    BY <1>2, <2>2 DEF PinsSet
  <2> QED BY <1>1, <1>2, <2>1, <2>3 DEF PinInv
<1> QED BY <1>1, <1>2

\* The conductor joins two of its degrees of freedom just if they are of one part.
LEMMA PartsJoin ==
  ASSUME SpaceAssumption, mesh \in Meshes, PartsExact, NEW d \in InConductor, NEW e \in H1Dofs
  PROVE  JoinedByConductor(d, e) <=> part[e] = part[d]
<1>1. d \in H1Dofs /\ part[d] # None
  BY NeighboursShare DEF PartsExact
<1>2. ASSUME part[e] = part[d] PROVE JoinedByConductor(d, e)
  BY <1>1, <1>2 DEF PartsExact, JoinedByConductor
<1>3. ASSUME JoinedByConductor(d, e) PROVE part[e] = part[d]
  <2> DEFINE S == {w \in H1Dofs : part[w] = part[d]}
  <2>1. ClosedInConductor(S)
    BY CellsHaveDofs DEF ClosedInConductor, PartsExact
  <2>2. S \in SUBSET H1Dofs /\ d \in S
    BY <1>1
  <2>3. e \in S
    BY <1>3, <2>1, <2>2 DEF JoinedByConductor
  <2> QED BY <2>3
<1> QED BY <1>2, <1>3

\* When the loop is through, psi is fixed on the wall in a part that meets it, and at the
\* pin alone in a part that does not.
LEMMA PinsExact ==
  ASSUME SpaceAssumption, mesh \in Meshes, PartsExact, PinsSet(NDof)
  PROVE  /\ free \subseteq InConductor \ essential
         /\ \A d \in InConductor :
              LET fixed == {e \in InConductor \ free : JoinedByConductor(d, e)} IN
              \/ fixed # {} /\ fixed \subseteq essential
              \/ Cardinality(fixed) = 1 /\ \A e \in essential : ~JoinedByConductor(d, e)
<1>1. /\ \A d \in H1Dofs : d < NDof
      /\ essential \subseteq H1Dofs /\ InConductor \subseteq H1Dofs
  BY CellsHaveDofs, NeighboursShare DEF H1Dofs, SpaceAssumption
<1>2. /\ \A d \in free : d \in H1Dofs /\ part[d] # None /\ d \notin essential
      /\ \A d \in H1Dofs : part[d] # None /\ d \notin essential =>
           d \in free \/ (~Grounded(part[d]) /\ part[d] \in pinned)
      /\ \A d \in free : Grounded(part[d]) \/ part[d] \in pinned
      /\ \A c \in pinned : \E p \in H1Dofs :
           /\ part[p] = c /\ p \notin free
           /\ \A d \in H1Dofs : part[d] = c /\ d # p => d \in free
  BY <1>1 DEF PinsSet
<1>3. /\ \A d \in H1Dofs : part[d] # None <=> d \in InConductor
      /\ \A d \in InConductor : Grounded(part[d]) <=> \E e \in essential : part[e] = part[d]
  BY <1>1 DEF PartsExact
<1>4. ASSUME NEW d \in InConductor,
             NEW F, F = {e \in InConductor \ free : JoinedByConductor(d, e)}
      PROVE  \/ F # {} /\ F \subseteq essential
             \/ Cardinality(F) = 1 /\ \A e \in essential : ~JoinedByConductor(d, e)
  <2>1. /\ \A e : e \in F <=> e \in InConductor /\ e \notin free /\ part[e] = part[d]
        /\ \A e \in H1Dofs : JoinedByConductor(d, e) <=> part[e] = part[d]
    BY <1>1, <1>4, PartsJoin
  <2>2. CASE Grounded(part[d])
    <3>1. PICK f \in essential : part[f] = part[d]
      BY <1>3, <2>2
    <3>2. f \in F
      BY <1>1, <1>2, <1>3, <2>1, <3>1
    <3>3. F \subseteq essential
      BY <1>1, <1>2, <1>3, <2>1, <2>2
    <3> QED BY <3>2, <3>3
  <2>3. CASE ~Grounded(part[d])
    <3>1. part[d] \in pinned
      BY <1>1, <1>2, <1>3, <2>3
    <3>2. PICK p \in H1Dofs : /\ part[p] = part[d] /\ p \notin free
                              /\ \A e \in H1Dofs : part[e] = part[d] /\ e # p => e \in free
      BY <1>2, <3>1
    <3>3. F = {p}
      BY <1>1, <1>3, <2>1, <3>2
    <3>4. Cardinality(F) = 1
      BY <3>3, FS_Singleton
    <3>5. \A e \in essential : ~JoinedByConductor(d, e)
      BY <1>1, <1>3, <2>1, <2>3
    <3> QED BY <3>4, <3>5
  <2> QED BY <2>2, <2>3
<1>5. free \subseteq InConductor \ essential
  BY <1>2, <1>3
<1> QED BY <1>4, <1>5

\* Every step leaves the loops in order.
LEMMA StagesNext ==
  ASSUME SpaceAssumption, StagesInv, GNext PROVE StagesInv'
<1>1. /\ NDof \in Nat /\ \A d \in H1Dofs : d + 1 \in Nat /\ d + 1 <= NDof
      /\ Len(mesh.boundary) \in Nat
  BY CellsHaveDofs DEF StagesInv, H1Dofs, SpaceAssumption
<1>2. CASE Merge
  BY <1>1, <1>2 DEF Merge, input, StagesInv, Early
<1>3. CASE UniteDone
  BY <1>1, <1>3 DEF UniteDone, input, StagesInv, Early
<1>4. CASE NumberPiece
  BY <1>1, <1>4 DEF NumberPiece, input, StagesInv, Early
<1>5. CASE PiecesDone
  BY <1>1, <1>5 DEF PiecesDone, input, StagesInv, Early
<1>6. CASE AssignColumn
  BY <1>1, <1>6 DEF AssignColumn, input, StagesInv, Early
<1>7. CASE AssignPieces
  BY <1>1, <1>7 DEF AssignPieces, input, StagesInv, Early
<1>8. CASE Call
  BY <1>1, <1>8 DEF Call, StagesInv, Early
<1>9. CASE StartPart
  <2>1. counter' = counter \/ (counter \in H1Dofs /\ counter' = counter + 1)
    BY <1>9 DEF StartPart
  <2> QED BY <1>1, <1>9, <2>1 DEF StartPart, input, StagesInv, Early
<1>10. CASE Visit
  BY <1>1, <1>10 DEF Visit, input, StagesInv, Early
<1>11. CASE PartsDone
  BY <1>1, <1>11 DEF PartsDone, input, StagesInv, Early
<1>12. CASE GroupPieces
  BY <1>1, <1>12 DEF GroupPieces, input, StagesInv, Early
<1>13. CASE GroupsDone
  BY <1>1, <1>13 DEF GroupsDone, input, StagesInv, Early
<1>14. CASE AssignMultiplier
  BY <1>1, <1>14 DEF AssignMultiplier, input, StagesInv, Early
<1>15. CASE DropConstant
  BY <1>1, <1>15 DEF DropConstant, input, StagesInv, Early
<1>16. CASE FreeOrPin
  BY <1>1, <1>16 DEF FreeOrPin, input, StagesInv, Early
<1>17. CASE PinsDone
  BY <1>1, <1>17 DEF PinsDone, input, StagesInv, Early
<1> QED
  BY <1>2, <1>3, <1>4, <1>5, <1>6, <1>7, <1>8, <1>9, <1>10, <1>11, <1>12, <1>13, <1>14, <1>15,
     <1>16, <1>17 DEF GNext

\* The constructor's loops.
Construct == Merge \/ UniteDone \/ NumberPiece \/ PiecesDone \/ AssignColumn \/ AssignPieces

LEMMA ConstructNext ==
  ASSUME SpaceAssumption, GInv, Construct PROVE GInv'
<1>1. /\ StagesInv /\ WallsInv /\ PieceInv /\ ColumnInv /\ PartInv /\ GroupInv /\ GaugeInv /\ PinInv
      /\ NDof \in Nat /\ mesh \in Meshes
  BY DEF GInv, SpaceAssumption, StagesInv
<1>2. /\ UNCHANGED <<mesh, ess_bdr, conductor, part, grounded, stack, group, part_piece, gauge,
                    multipliers, group_column, part_column, free, pinned>>
      /\ call \in {"walls", "pieces", "columns"} /\ call' \in Early
  BY DEF Construct, Merge, UniteDone, NumberPiece, PiecesDone, AssignColumn, AssignPieces, input,
         parts, joint, multi, pins, Early
<1>3. StagesInv'
  BY <1>1, StagesNext DEF Construct, GNext
<1>4. PartInv'
  BY <1>1, <1>2, PartsKept DEF Early
<1>5. /\ call \notin {"groups", "gauge", "gauged", "pins", "projected"}
      /\ call' \notin {"groups", "gauge", "gauged", "pins", "projected"}
  BY <1>2 DEF Early
<1>6. GroupInv' /\ GaugeInv' /\ PinInv'
  BY <1>1, <1>2, <1>5, GroupsKept, GaugeKept, PinsKept
<1>7. CASE Merge
  <2>1. /\ call = "walls" /\ call' = "walls"
        /\ UNCHANGED <<wall_piece, wall_pieces, root_piece, column, columns>>
    BY <1>7 DEF Merge, space
  <2>2. WallsInv'
    BY <1>1, <1>7, WallsMerge
  <2>3. Reached("pieces", {"walls"}) = 0 /\ Reached("pieces", {"walls"})' = 0
    BY <2>1 DEF Reached
  <2>4. PieceInv'
    <3>1. essential' = essential
      BY <1>2, InputKept
    <3>2. PiecesNumbered(0)
      BY <1>1, <2>3 DEF PieceInv
    <3>3. \A d \in H1Dofs : ~(d < 0)
      BY DEF H1Dofs
    <3>4. essential \subseteq H1Dofs
      BY <1>1, CellsHaveDofs
    <3>5. PiecesNumbered(0)'
      BY <2>1, <3>1, <3>2, <3>3, <3>4 DEF PiecesNumbered, Pieces
    <3> QED BY <2>3, <3>5 DEF PieceInv
  <2>5. ColumnInv'
    BY <1>1, <1>2, <2>1, ColumnsKept
  <2> QED BY <1>3, <1>4, <1>6, <2>2, <2>4, <2>5 DEF GInv
<1>8. CASE UniteDone
  <2>1. /\ call = "walls" /\ call' = "pieces" /\ counter = Len(mesh.boundary) /\ counter' = 0
        /\ UNCHANGED <<joined, wall_piece, wall_pieces, root_piece, column, columns>>
    BY <1>8 DEF UniteDone, wall, space
  <2>2. Reached("pieces", {"walls"})' = Reached("pieces", {"walls"})
    BY <2>1 DEF Reached
  <2> QED
    BY <1>1, <1>2, <1>3, <1>4, <1>6, <2>1, <2>2, WallsKept, PiecesKept, ColumnsKept DEF GInv
<1>9. CASE NumberPiece
  <2>1. /\ call = "pieces" /\ call' = "pieces" /\ UNCHANGED <<joined, column, columns>>
    BY <1>9 DEF NumberPiece, wall, space
  <2> QED
    BY <1>1, <1>2, <1>3, <1>4, <1>6, <1>9, <2>1, WallsKept, PiecesNumber, ColumnsKept DEF GInv
<1>10. CASE PiecesDone
  <2>1. /\ call = "pieces" /\ call' = "columns" /\ counter = NDof /\ counter' = 0
        /\ UNCHANGED <<joined, wall_piece, wall_pieces, root_piece, column, columns>>
    BY <1>10 DEF PiecesDone, wall, space
  <2>2. Reached("pieces", {"walls"})' = Reached("pieces", {"walls"})
    BY <2>1 DEF Reached
  <2> QED
    BY <1>1, <1>2, <1>3, <1>4, <1>6, <2>1, <2>2, WallsKept, PiecesKept, ColumnsKept DEF GInv
<1>11. CASE AssignColumn
  <2>1. /\ call = "columns" /\ call' = "columns"
        /\ UNCHANGED <<joined, wall_piece, wall_pieces, root_piece>>
    BY <1>11 DEF AssignColumn, wall
  <2>2. Reached("pieces", {"walls"})' = Reached("pieces", {"walls"})
    BY <2>1 DEF Reached
  <2> QED
    BY <1>1, <1>2, <1>3, <1>4, <1>6, <1>11, <2>1, <2>2, WallsKept, PiecesKept, ColumnsAssign
    DEF GInv
<1>12. CASE AssignPieces
  <2>1. /\ call = "columns" /\ call' = "built"
        /\ UNCHANGED <<joined, wall_piece, wall_pieces, root_piece>>
    BY <1>12 DEF AssignPieces, wall
  <2>2. Reached("pieces", {"walls"})' = Reached("pieces", {"walls"})
    BY <2>1 DEF Reached
  <2>3. ReducedSpace'
    BY <1>1, <1>12, <2>1, PiecesDoneExact, ColumnsDone
  <2>4. ColumnInv'
    BY <2>1, <2>3 DEF ColumnInv
  <2> QED
    BY <1>1, <1>2, <1>3, <1>4, <1>6, <2>1, <2>2, <2>4, WallsKept, PiecesKept DEF GInv
<1> QED BY <1>7, <1>8, <1>9, <1>10, <1>11, <1>12 DEF Construct

\* What the constructor has built when a call begins, its search ends, and its groups are
\* joined.
LEMMA BuiltExact ==
  ASSUME SpaceAssumption, GInv
  PROVE  /\ call \notin {"walls", "pieces"} => PiecesExact
         /\ call \notin Early /\ (call = "parts" => stack = {} /\ counter = NDof) => PartsExact
         /\ call \in {"gauge", "gauged"} => GroupsJoined(NDof)
<1>1. StagesInv /\ WallsInv /\ PieceInv /\ PartInv /\ GroupInv
  BY DEF GInv
<1> QED BY <1>1, PiecesDoneExact, PartsDoneExact DEF GroupInv

\* The calls.
LEMMA CallNext ==
  ASSUME SpaceAssumption, GInv, GNext, ~Construct PROVE GInv'
<1>1. /\ StagesInv /\ WallsInv /\ PieceInv /\ ColumnInv /\ PartInv /\ GroupInv /\ GaugeInv /\ PinInv
      /\ NDof \in Nat /\ mesh \in Meshes
  BY DEF GInv, SpaceAssumption, StagesInv
<1>2. \/ Call \/ StartPart \/ Visit \/ PartsDone \/ GroupPieces \/ GroupsDone \/ AssignMultiplier
      \/ DropConstant \/ FreeOrPin \/ PinsDone
  BY DEF GNext, Construct
<1>3. /\ UNCHANGED <<mesh, ess_bdr, joined, wall_piece, wall_pieces, root_piece, column, columns>>
      /\ call \notin {"walls", "pieces", "columns"} /\ call' \notin Early
  BY <1>2 DEF Call, StartPart, Visit, PartsDone, GroupPieces, GroupsDone, AssignMultiplier,
     DropConstant, FreeOrPin, PinsDone, input, wall, space, Early
<1>4. StagesInv'
  BY <1>1, StagesNext
<1>5. WallsInv'
  BY <1>1, <1>3, WallsKept DEF Early
<1>6. Reached("pieces", {"walls"})' = Reached("pieces", {"walls"})
  BY <1>3 DEF Reached, Early
<1>7. PieceInv'
  BY <1>1, <1>3, <1>6, PiecesKept
<1>8. ColumnInv'
  BY <1>1, <1>3, ColumnsKept DEF Early
<1>9. PiecesExact
  BY <1>3, BuiltExact
<1>10. SUFFICES PartInv' /\ GroupInv' /\ GaugeInv' /\ PinInv'
  BY <1>4, <1>5, <1>7, <1>8 DEF GInv
<1>11. CASE Call
  <2>1. /\ call = "built" /\ call' = "parts"
        /\ UNCHANGED <<group, part_piece, gauge, multipliers, group_column, part_column, free, pinned>>
    BY <1>11 DEF Call, joint, multi, pins
  <2>2. PartInv'
    BY <1>1, <1>11, PartsCalled
  <2> QED BY <1>1, <2>1, <2>2, GroupsKept, GaugeKept, PinsKept
<1>12. CASE StartPart \/ Visit
  <2>1. /\ call = "parts" /\ call' = "parts"
        /\ UNCHANGED <<group, part_piece, gauge, multipliers, group_column, part_column, free, pinned>>
    BY <1>12 DEF StartPart, Visit, joint, multi, pins
  <2>2. PartInv'
    BY <1>1, <1>12, PartsBegin, PartsVisit
  <2> QED BY <1>1, <2>1, <2>2, GroupsKept, GaugeKept, PinsKept
<1>13. CASE PartsDone
  <2>1. /\ call = "parts" /\ call' \in {"groups", "pins"} /\ stack = {} /\ counter = NDof
        /\ UNCHANGED <<conductor, part, grounded, stack, gauge, multipliers, group_column,
                       part_column>>
    BY <1>13 DEF PartsDone, input, parts, multi
  <2>2. PartsExact
    BY <2>1, BuiltExact DEF Early
  <2>3. PartInv'
    BY <1>1, <1>3, <2>1, PartsKept DEF Early
  <2>4. GroupInv'
    BY <1>1, <1>9, <1>13, <2>2, GroupsBegin
  <2> QED BY <1>1, <1>13, <2>1, <2>3, <2>4, GaugeKept, PinsBegin
<1>14. CASE \/ GroupPieces \/ GroupsDone \/ AssignMultiplier \/ DropConstant \/ FreeOrPin \/ PinsDone
  <2>1. /\ call \notin Early \cup {"parts"} /\ call' \notin Early \cup {"parts"}
        /\ UNCHANGED <<conductor, part, grounded, stack>>
    BY <1>14 DEF GroupPieces, GroupsDone, AssignMultiplier, DropConstant, FreeOrPin, PinsDone,
       input, parts, Early
  <2>2. PartsExact /\ PartInv'
    BY <1>1, <1>3, <2>1, BuiltExact, PartsKept
  <2>3. CASE GroupPieces
    <3>1. /\ call = "groups" /\ call' = "groups"
          /\ UNCHANGED <<gauge, multipliers, group_column, part_column, free, pinned>>
      BY <2>3 DEF GroupPieces, multi, pins
    <3> QED BY <1>1, <1>9, <2>2, <2>3, <3>1, GroupsMeet, GaugeKept, PinsKept
  <2>4. CASE GroupsDone
    <3>1. /\ call = "groups" /\ call' = "gauge" /\ counter = NDof
          /\ UNCHANGED <<group, part_piece, free, pinned>>
      BY <2>4 DEF GroupsDone, joint, pins
    <3> QED BY <1>1, <1>3, <2>1, <2>2, <2>4, <3>1, GroupsKept, GaugeBegin, PinsKept
  <2>5. CASE AssignMultiplier
    <3>1. /\ call = "gauge" /\ call' = "gauge"
          /\ UNCHANGED <<group, part_piece, free, pinned>>
      BY <2>5 DEF AssignMultiplier, joint, pins
    <3>2. GroupsJoined(NDof)
      BY <3>1, BuiltExact
    <3>3. GaugeInv'
      BY <1>1, <1>9, <2>2, <2>5, <3>2, GaugeAssign
    <3> QED BY <1>1, <1>3, <2>1, <2>2, <3>1, <3>3, GroupsKept, PinsKept
  <2>6. CASE DropConstant
    <3>1. /\ call = "gauge" /\ call' = "gauged"
          /\ UNCHANGED <<group, part_piece, free, pinned>>
      BY <2>6 DEF DropConstant, joint, pins
    <3>2. GroupsJoined(NDof)
      BY <3>1, BuiltExact
    <3>3. GaugeInv'
      BY <1>1, <1>9, <2>2, <2>6, <3>1, <3>2, GaugeDrop DEF GaugeInv
    <3> QED BY <1>1, <1>3, <2>1, <2>2, <3>1, <3>3, GroupsKept, PinsKept
  <2>7. CASE FreeOrPin
    <3>1. /\ call = "pins" /\ call' = "pins"
          /\ UNCHANGED <<group, part_piece, gauge, multipliers, group_column, part_column>>
      BY <2>7 DEF FreeOrPin, joint, multi
    <3> QED BY <1>1, <2>2, <2>7, <3>1, GroupsKept, GaugeKept, PinsStep
  <2>8. CASE PinsDone
    <3>1. /\ call = "pins" /\ call' = "projected" /\ counter = NDof
          /\ UNCHANGED <<group, part_piece, gauge, multipliers, group_column, part_column,
                         free, pinned>>
      BY <2>8 DEF PinsDone, joint, multi, pins
    <3> QED BY <1>1, <1>3, <2>1, <2>2, <3>1, GroupsKept, GaugeKept, PinsKept
  <2> QED BY <1>14, <2>3, <2>4, <2>5, <2>6, <2>7, <2>8
<1> QED BY <1>2, <1>11, <1>12, <1>13, <1>14

LEMMA GInvInit ==
  ASSUME SpaceAssumption, GInit PROVE GInv
<1>1. StagesInv
  <2>1. mesh \in Meshes
    BY DEF GInit
  <2>2. Len(mesh.boundary) \in Nat
    BY <2>1, CellsHaveDofs
  <2> QED BY <2>2 DEF GInit, StagesInv, Early
<1> QED
  BY <1>1, WallsStart, PiecesStart, ColumnsStart, PartsStart, GroupsStart, GaugeStart, PinsStart
  DEF GInv

LEMMA GInvNext ==
  ASSUME SpaceAssumption, GInv, [GNext]_gvars PROVE GInv'
<1>1. CASE GNext
  BY <1>1, ConstructNext, CallNext
<1>2. CASE UNCHANGED gvars
  <2>1. /\ UNCHANGED <<mesh, ess_bdr, conductor, call, counter, joined, wall_piece, wall_pieces,
                       root_piece, column, columns>>
        /\ UNCHANGED <<part, grounded, stack, group, part_piece, gauge, multipliers, group_column,
                       part_column, free, pinned>>
    BY <1>2 DEF gvars, input, wall, space, parts, joint, multi, pins
  <2>2. /\ StagesInv /\ WallsInv /\ PieceInv /\ ColumnInv /\ PartInv /\ GroupInv /\ GaugeInv /\ PinInv
    BY DEF GInv
  <2>3. StagesInv'
    BY <2>1, <2>2 DEF StagesInv
  <2>4. Reached("pieces", {"walls"})' = Reached("pieces", {"walls"})
    BY <2>1 DEF Reached
  <2>5. WallsInv' /\ PieceInv' /\ ColumnInv' /\ PartInv'
    BY <2>1, <2>2, <2>4, WallsKept, PiecesKept, ColumnsKept, PartsKept
  <2>6. PinInv' /\ GaugeInv'
    BY <1>2, <2>1, <2>2, GaugeKept, PinsKept
  <2>7. GroupInv'
    BY <2>1, <2>2, GroupsKept
  <2> QED BY <2>3, <2>5, <2>6, <2>7 DEF GInv
<1> QED BY <1>1, <1>2

\* The invariant has every variable in its type.
LEMMA GInvTypes ==
  ASSUME SpaceAssumption, GInv PROVE GTypeOK
<1>1. /\ StagesInv /\ WallsInv /\ PieceInv /\ ColumnInv /\ PartInv /\ GroupInv /\ GaugeInv /\ PinInv
      /\ NDof \in Nat /\ 0 \in 0 .. NDof
  BY DEF GInv, SpaceAssumption
<1>2. /\ wall_pieces \in 0 .. NDof
      /\ wall_piece \in [H1Dofs -> Pieces \cup {None}]
      /\ root_piece \in [H1Dofs -> Pieces \cup {None}]
  <2>1. /\ wall_pieces \in Nat
        /\ wall_piece \in [H1Dofs -> Pieces \cup {None}]
        /\ root_piece \in [H1Dofs -> Pieces \cup {None}]
        /\ \A p \in 0 .. wall_pieces - 1 : \E r \in H1Dofs : root_piece[r] = p
    BY <1>1 DEF PieceInv, PiecesNumbered, Pieces
  <2> QED BY <2>1, NoMoreThanDofs
<1>3. columns \in 0 .. NDof /\ column \in [H1Dofs -> (0 .. columns - 1) \cup {None}]
  <2>1. CASE call \in {"walls", "pieces", "columns"}
    <3>1. /\ columns \in Nat /\ column \in [H1Dofs -> (0 .. columns - 1) \cup {None}]
          /\ \A j \in 0 .. columns - 1 : \E d \in H1Dofs : column[d] = j
      BY <1>1, <2>1 DEF ColumnInv, ColumnsAssigned
    <3> QED BY <3>1, NoMoreThanDofs
  <2> QED BY <1>1, <2>1 DEF ColumnInv, ReducedSpace
<1>4. grounded \in Seq(BOOLEAN) /\ part \in [H1Dofs -> Parts \cup {None}] /\ stack \subseteq H1Dofs
  <2>1. CASE NoParts
    <3>1. part = [d \in H1Dofs |-> None] /\ grounded = <<>> /\ stack = {}
      BY <2>1 DEF NoParts
    <3> QED BY <3>1
  <2>2. CASE ~NoParts
    BY <1>1, <2>2 DEF PartInv, PartsNumbered
  <2> QED BY <2>1, <2>2
<1>5. group \in [H1Dofs -> H1Dofs] /\ part_piece \in [H1Dofs -> Pieces \cup {None}]
  BY <1>1 DEF GroupInv, GroupsJoined, NoGroups
<1>6. /\ multipliers \in 0 .. NDof /\ gauge \in [H1Dofs -> (0 .. multipliers - 1) \cup {None}]
      /\ part_column \in [H1Dofs -> H1Dofs \cup {None}]
      /\ group_column \in [H1Dofs -> H1Dofs \cup {None}]
  <2>1. CASE call = "gauged"
    BY <1>1, <2>1 DEF GaugeInv, GaugeExact
  <2>2. CASE call = "gauge"
    <3>1. /\ multipliers \in Nat /\ gauge \in [H1Dofs -> (0 .. multipliers - 1) \cup {None}]
          /\ group_column \in [H1Dofs -> (0 .. multipliers - 1) \cup {None}]
          /\ part_column \in [H1Dofs -> (0 .. multipliers - 1) \cup {None}]
          /\ \A j \in 0 .. multipliers - 1 : \E d \in H1Dofs : gauge[d] = j
      BY <1>1, <2>2 DEF GaugeInv, ColumnsGiven
    <3>2. multipliers \in 0 .. NDof
      BY <3>1, NoMoreThanDofs
    <3>3. 0 .. multipliers - 1 \subseteq H1Dofs
      BY <1>1, <3>2 DEF H1Dofs
    <3> QED BY <3>1, <3>2, <3>3
  <2>3. CASE call \notin {"gauge", "gauged"}
    BY <1>1, <2>3 DEF GaugeInv, NoColumns
  <2> QED BY <2>1, <2>2, <2>3
<1>7. free \subseteq H1Dofs /\ pinned \subseteq Parts
  BY <1>1 DEF PinInv, PinsSet
<1>8. /\ mesh \in Meshes /\ ess_bdr \in EssBdrs /\ conductor \in Conductors \cup {{}}
      /\ call \in {"walls", "pieces", "columns", "built", "parts", "groups", "gauge",
                 "gauged", "pins", "projected"}
      /\ counter \in Nat
  BY <1>1 DEF StagesInv, Early
<1>9. joined \in [H1Dofs -> H1Dofs]
  BY <1>1 DEF WallsInv
<1> QED BY <1>2, <1>3, <1>4, <1>5, <1>6, <1>7, <1>8, <1>9 DEF GTypeOK

\* What GInv says at the end of each call.
LEMMA GInvExact ==
  ASSUME SpaceAssumption, GInv PROVE SpacesAreExact
<1>1. /\ StagesInv /\ ColumnInv /\ GaugeInv /\ PinInv /\ mesh \in Meshes
  BY DEF GInv, StagesInv
<1>2. ReducedSpaceExact
  BY <1>1 DEF ReducedSpaceExact, ColumnInv, ReducedSpace
<1>3. GaugeColumnsExact
  BY <1>1 DEF GaugeColumnsExact, GaugeInv, GaugeExact
<1>4. OnePinPerPart
  <2>1. call = "projected" => PinsSet(NDof) /\ PartsExact
    BY <1>1, BuiltExact DEF PinInv, Early
  <2> QED BY <1>1, <2>1, PinsExact DEF OnePinPerPart
<1> QED BY <1>2, <1>3, <1>4, GInvTypes DEF SpacesAreExact

\* Both union-finds hold at every step the classes of what they have been given, the numbers
\* of pieces, parts and columns have no gap, and a key stands for each class.
THEOREM SpacesInvariance == GSpec => []GInv
<1>1. GInit => GInv
  BY GInvInit, SpaceAssumption
<1>2. GInv /\ [GNext]_gvars => GInv'
  BY GInvNext, SpaceAssumption
<1> QED BY <1>1, <1>2, PTL DEF GSpec

\* On every mesh, with any boundary essential and any conductor, the gauge removes each
\* gradient the system leaves undetermined, once: in the constructor's P, in
\* GaugeConstraint's columns and in ProjectWithin's pins.
THEOREM SpacesExact == GSpec => []SpacesAreExact
<1>1. GInv => SpacesAreExact
  BY GInvExact, SpaceAssumption
<1> QED BY <1>1, SpacesInvariance, PTL
==============================================================================
