----------------------------- MODULE MqsOperators -----------------------------
(***************************************************************************)
(* The discrete system of the 2D magnetoquasistatic solver                 *)
(* (MagnetoquasistaticSolver with what it inherits from MagneticSolver and  *)
(* PhysicsSolver): the objects built for one mesh, those valid for one      *)
(* mesh and one frequency, and the caches over them.                        *)
(*                                                                         *)
(* A matrix, a vector or a field is represented by what it was made from:   *)
(* the refinement sequence of the mesh and the angular frequency.  Reading  *)
(* a cache therefore yields the provenance of what it holds, and a stale    *)
(* read is visible as a provenance that is not the current one.             *)
(*                                                                         *)
(* A unique_ptr is a set of at most one element, null being {}.             *)
(*                                                                         *)
(* The client may call the operations in any order the phases allow; the    *)
(* driver of PhysicsSolver::Run (module MqsRun) follows one of them.        *)
(***************************************************************************)
EXTENDS Integers, Counting

CONSTANTS
  NTerminals,   \* |config.Terminals|; a std::map, so 1..NTerminals is name order
  NOpen,        \* number of regions whose current constraint is Open
  Frequencies,  \* the frequencies scenarios may have; stands for omega as well
  Addresses,    \* where the allocator may place a finite-element space
  MaxSequence   \* bound on the mesh refinements of a behaviour

ASSUME TerminalsAssumption == NTerminals \in Nat /\ NOpen \in Nat
\* config_validator.hpp:1160-1165 rejects any other frequency.
ASSUME FrequenciesAssumption == Frequencies \subseteq Nat \ {0}
\* make_unique allocates the new space before the old one is released.
ASSUME AddressesAssumption == /\ Addresses \subseteq Nat \ {0}
                              /\ \A a \in Addresses : Addresses \ {a} # {}
ASSUME MaxSequenceAssumption == MaxSequence \in Nat

Terminals == 1..NTerminals
Solvers == {"Direct", "Iterative"}
Phases == {"constructed", "ready", "imprinted", "solved", "refined", "failed"}

VARIABLES
  massive,               \* config: the terminals with a Massive conductor
  linear_solver,         \* config.LinearSolver
  phase,                 \* what the client did last
  sequence,              \* mesh.GetSequence()
  fespace,               \* {} or {[mesh, at]}
  S_AA,                  \* {} or {mesh its two matrices are assembled on}
  port_operator,         \* {} or {[mesh, ports, active_omega, scale, corner]}
  omega,                 \* 0 until Setup
  direct_solver,         \* {} or {the system its factors are of}
  factored_omega,
  preconditioner,        \* {} or {the system it approximates}
  preconditioned_omega,
  terminal_areas,        \* entries [terminal, mesh]
  winding_functionals,   \* entries [terminal, mesh, area]
  cached_sequence,
  energy_form,           \* {} or {mesh it is assembled on}
  energy_fes,            \* address of the space it was built for, 0 for nullptr
  energy_sequence,
  b_combined,            \* {} or {right-hand side}
  answer,                \* {} after *A = 0, else {[factors, applied, rhs]}
  port_values,           \* {} or {[mesh, ports]}: Re/Im_port_values
  column,                \* readings [row, of, mesh, omega] of the last gather
  losses                 \* {} or {[mesh, omega, drive]} of the last recovery

config == <<massive, linear_solver>>
operators == <<fespace, S_AA, port_operator, omega>>
factors == <<direct_solver, factored_omega, preconditioner, preconditioned_omega>>
mesh_caches == <<terminal_areas, winding_functionals, cached_sequence>>
energy == <<energy_form, energy_fes, energy_sequence>>
results == <<answer, port_values, column, losses>>
opvars == <<config, phase, sequence, operators, factors, mesh_caches, energy,
            b_combined, results>>

\* The complex block system of one mesh at one frequency: the sigma-mass block
\* is scaled by omega, the port corner by 1/omega.
System(m, w) == [mesh |-> m, mass |-> w, corner |-> w]

-----------------------------------------------------------------------------
(* The port numbering.  Terminal t is named t, open region j NTerminals + j. *)

\* The massive terminals M in name order, then the open regions in theirs.
PortOrder(M) ==
  InOrder(M, NTerminals) \o [j \in 1..NOpen |-> NTerminals + j]

CollectMassivePorts == PortOrder(massive)

\* The counter the loops over config.Terminals keep beside the terminal: it
\* moves on massive terminals only.
PortIndex(t) == Passed(massive, t)

\* Faulty: the counter moves on every terminal.
PortDrives_EveryTerminal(driven) == {<<t, t>> : t \in driven \cap massive}

\* The port slots a scenario's right-hand side fills, with the terminal whose
\* current goes there.
PortDrives(driven) == {<<PortIndex(t), t>> : t \in driven \cap massive}

\* BuildDriveTables: the voltage written on the elements of each port's region.
DriveTable(voltages) ==
  {<<CollectMassivePorts[p], voltages[p]>> : p \in DOMAIN CollectMassivePorts}

-----------------------------------------------------------------------------
(* MqsMassivePortOperator.                                                 *)

\* SetOmega rescales the matrix-free blocks and records the frequency that
\* AssemblePackedMatrix uses.
SetOmega(P, w) == {[o EXCEPT !.active_omega = w, !.scale = w, !.corner = w] : o \in P}

\* AssemblePackedMatrix, and what complex_system applies matrix-free.
Assembled(o) == System(o.mesh, o.active_omega)
Applied(o) == [mesh |-> o.mesh, mass |-> o.scale, corner |-> o.corner]

-----------------------------------------------------------------------------
(* Setup and BuildOperators.                                               *)

\* Faulty: the reset is missing.
DropPreconditioner_Kept == UNCHANGED preconditioner

\* It refers to the matrices about to be replaced.
DropPreconditioner == preconditioner' = {}

\* Faulty: the reset is missing.
DropFactors_Kept == UNCHANGED <<direct_solver, factored_omega>>

\* Factors of a previous mesh refer to the old DOF numbering.
DropFactors == direct_solver' = {} /\ factored_omega' = 0

\* Everything bound to the mesh, built with the frequency w active.  The new
\* space never has the address of the one it replaces.
BuildOperators(w) ==
  /\ \E a \in Addresses \ {s.at : s \in fespace} :
        fespace' = {[mesh |-> sequence, at |-> a]}
  /\ S_AA' = {sequence}
  /\ port_operator' = {[mesh |-> sequence, ports |-> CollectMassivePorts,
                        active_omega |-> w, scale |-> w, corner |-> w]}
  /\ omega' = w
  /\ DropPreconditioner
  /\ DropFactors
  /\ answer' = {}
  /\ phase' = "ready"
  /\ UNCHANGED <<config, sequence, preconditioned_omega, mesh_caches, energy,
                 b_combined, port_values, column, losses>>

\* The frequency is the first scenario's.
Setup(f) ==
  /\ phase = "constructed"
  /\ BuildOperators(f)

Rebuild ==
  /\ phase = "refined"
  /\ BuildOperators(omega)

\* A port is rejected (ValidateMassiveConductor, MassiveConductance) after the
\* space and the forms were replaced and before the operator over them is.
BuildFails(w) ==
  /\ phase \in {"constructed", "refined"}
  /\ CollectMassivePorts # <<>>
  /\ \E a \in Addresses \ {s.at : s \in fespace} :
        fespace' = {[mesh |-> sequence, at |-> a]}
  /\ S_AA' = {sequence}
  /\ omega' = w
  /\ DropPreconditioner
  /\ phase' = "failed"
  /\ UNCHANGED <<config, sequence, port_operator, direct_solver, factored_omega,
                 preconditioned_omega, mesh_caches, energy, b_combined, results>>

\* amr::RefineConforming, which leaves everything built for the old mesh behind.
RefineConforming ==
  /\ phase \in {"ready", "solved"}
  /\ sequence < MaxSequence
  /\ sequence' = sequence + 1
  /\ phase' = "refined"
  /\ UNCHANGED <<config, operators, factors, mesh_caches, energy, b_combined, results>>

\* It throws on a mesh with other elements than simplices, or on a refined mesh
\* that has become non-conforming.
RefineFails ==
  /\ phase \in {"ready", "solved"}
  /\ sequence < MaxSequence
  /\ sequence' \in {sequence, sequence + 1}
  /\ phase' = "failed"
  /\ UNCHANGED <<config, operators, factors, mesh_caches, energy, b_combined, results>>

-----------------------------------------------------------------------------
(* The per-mesh caches of terminal areas and winding functionals.          *)

\* ForgetMeshCachesOnRefinement
Kept(cache) == IF cached_sequence = sequence THEN cache ELSE {}
Found(cache) == {e.terminal : e \in cache}

\* terminal_areas after TerminalArea was asked for every terminal of T.
AreasWith(T) ==
  Kept(terminal_areas) \cup
    {[terminal |-> t, mesh |-> s.mesh] :
        t \in T \ Found(Kept(terminal_areas)), s \in fespace}

\* The source density of the stranded terminals T is I / area.
MeasureAreas(T) ==
  IF T = {}
  THEN UNCHANGED mesh_caches
  ELSE /\ terminal_areas' = AreasWith(T)
       /\ winding_functionals' = Kept(winding_functionals)
       /\ cached_sequence' = sequence

\* The winding functionals of the terminals T, each over its terminal's area.
WindingsFor(T) ==
  {[terminal |-> e.terminal, mesh |-> s.mesh, area |-> e.mesh] :
     e \in {e \in AreasWith(T) : e.terminal \in T}, s \in fespace}

\* WindingFunctional for every terminal of T, assembling what is not cached.
AssembleWindings(T) ==
  LET missing == T \ Found(Kept(winding_functionals))
  IN IF T = {}
     THEN UNCHANGED mesh_caches
     ELSE /\ terminal_areas' = AreasWith(missing)
          /\ winding_functionals' = Kept(winding_functionals) \cup WindingsFor(missing)
          /\ cached_sequence' = sequence

-----------------------------------------------------------------------------
(* One solve.                                                              *)

\* ImprintScenario, with ActivateFrequency: zero A, re-imprint the background
\* boundary data (ImprintMode::Field only), and assemble the right-hand side from
\* the driven terminals.
ImprintScenario(f, driven, background) ==
  /\ phase \in {"ready", "imprinted", "solved"}
  /\ omega' = f
  /\ port_operator' = SetOmega(port_operator, f)
  /\ MeasureAreas(driven \ massive)
  /\ b_combined' =
       {[mesh |-> s.mesh, omega |-> f, background |-> background,
         areas |-> {e \in AreasWith(driven \ massive) : e.terminal \in driven \ massive},
         ports |-> PortDrives(driven)] : s \in fespace}
  /\ answer' = {}
  /\ column' = {}
  /\ losses' = {}
  /\ phase' = "imprinted"
  /\ UNCHANGED <<config, sequence, fespace, S_AA, factors, energy, port_values>>

\* Faulty: compared with a value that never equals it, as hertz with rad/s.
FactorizationHit_Never == FALSE

FactorizationHit == direct_solver # {} /\ factored_omega = omega

EnsureFactorizationForActiveFrequency ==
  IF FactorizationHit
  THEN UNCHANGED <<direct_solver, factored_omega>>
  ELSE /\ direct_solver' = {Assembled(o) : o \in port_operator}
       /\ factored_omega' = omega

PreconditionerHit == preconditioner # {} /\ preconditioned_omega = omega

EnsurePreconditionerForActiveFrequency ==
  IF PreconditionerHit
  THEN UNCHANGED <<preconditioner, preconditioned_omega>>
  ELSE /\ preconditioner' = {System(m, omega) : m \in S_AA}
       /\ preconditioned_omega' = omega

\* SolveSystem with RecoverSolvedUnknowns.  FormLinearSystem eliminates the
\* essential values with the matrix-free operator on either path; the direct
\* path then solves with the stored factors, the iterative one iterates on that
\* operator with the stored preconditioner.
SolveSystem ==
  /\ phase = "imprinted"
  /\ \/ /\ linear_solver = "Direct"
        /\ EnsureFactorizationForActiveFrequency
        /\ answer' = {[factors |-> d, applied |-> Applied(o), rhs |-> b] :
                         d \in direct_solver', o \in port_operator, b \in b_combined}
        /\ UNCHANGED <<preconditioner, preconditioned_omega>>
     \/ /\ linear_solver = "Iterative"
        /\ EnsurePreconditionerForActiveFrequency
        /\ answer' = {[factors |-> p, applied |-> Applied(o), rhs |-> b] :
                         p \in preconditioner', o \in port_operator, b \in b_combined}
        /\ UNCHANGED <<direct_solver, factored_omega>>
  /\ port_values' = {[mesh |-> o.mesh, ports |-> o.ports] : o \in port_operator}
  /\ phase' = "solved"
  /\ UNCHANGED <<config, sequence, operators, mesh_caches, energy, b_combined,
                 column, losses>>

\* ComplexDirectSolver::Factor throws on a singular matrix, its factors already
\* replaced; EnsureFactorization is left before factored_omega is assigned.
FactorFails ==
  /\ phase = "imprinted"
  /\ linear_solver = "Direct"
  /\ ~FactorizationHit
  /\ direct_solver' = {Assembled(o) : o \in port_operator}
  /\ phase' = "failed"
  /\ UNCHANGED <<config, sequence, operators, factored_omega, preconditioner,
                 preconditioned_omega, mesh_caches, energy, b_combined, results>>

\* FGMRES does not converge: ReportKrylov throws, nothing is recovered.
KrylovFails ==
  /\ phase = "imprinted"
  /\ linear_solver = "Iterative"
  /\ EnsurePreconditionerForActiveFrequency
  /\ phase' = "failed"
  /\ UNCHANGED <<config, sequence, operators, direct_solver, factored_omega,
                 mesh_caches, energy, b_combined, results>>

-----------------------------------------------------------------------------
(* What is read from a solution.                                           *)

\* Faulty: the space's address alone tells the mesh.
EnergyHit_AddressOnly ==
  energy_form # {} /\ fespace = {s \in fespace : s.at = energy_fes}

EnergyHit == /\ energy_form # {}
             /\ fespace = {s \in fespace : s.at = energy_fes}
             /\ energy_sequence = sequence

\* EstimateRelativeZZError: the energy norm's stiffness, once per mesh.
EstimateCurrentSolutionError ==
  /\ phase = "solved"
  /\ IF EnergyHit
     THEN UNCHANGED energy
     ELSE \E s \in fespace : /\ energy_form' = {s.mesh}
                             /\ energy_fes' = s.at
                             /\ energy_sequence' = sequence
  /\ UNCHANGED <<config, phase, sequence, operators, factors, mesh_caches,
                 b_combined, results>>

\* GatherCouplingColumn: a massive row reads the port voltage under the running
\* counter, a stranded one the field through its winding functional.
GatherCouplingColumn ==
  /\ phase = "solved"
  /\ AssembleWindings(Terminals \ massive)
  /\ column' =
       {[row |-> t, of |-> v.ports[PortIndex(t)], mesh |-> v.mesh, omega |-> omega] :
          t \in massive, v \in port_values}
       \cup
       {[row |-> e.terminal, of |-> e.terminal, mesh |-> e.mesh, omega |-> omega] :
          e \in {e \in winding_functionals' : e.terminal \notin massive}}
  /\ UNCHANGED <<config, phase, sequence, operators, factors, energy, b_combined,
                 answer, port_values, losses>>

\* ComputeRegionLosses, and the same recovery in CollectExportFields.
ComputeRegionLosses ==
  /\ phase = "solved"
  /\ losses' = {[mesh |-> s.mesh, omega |-> omega, drive |-> DriveTable(v.ports)] :
                   s \in fespace, v \in port_values}
  /\ UNCHANGED <<config, phase, sequence, operators, factors, mesh_caches, energy,
                 b_combined, answer, port_values, column>>

-----------------------------------------------------------------------------
OpInit ==
  /\ massive \in SUBSET Terminals
  /\ linear_solver \in Solvers
  /\ phase = "constructed"
  /\ sequence = 0
  /\ fespace = {} /\ S_AA = {} /\ port_operator = {} /\ omega = 0
  /\ direct_solver = {} /\ factored_omega = 0
  /\ preconditioner = {} /\ preconditioned_omega = 0
  /\ terminal_areas = {} /\ winding_functionals = {} /\ cached_sequence = -1
  /\ energy_form = {} /\ energy_fes = 0 /\ energy_sequence = -1
  /\ b_combined = {} /\ answer = {} /\ port_values = {} /\ column = {} /\ losses = {}

OpNext ==
  \/ \E f \in Frequencies : Setup(f)
  \/ \E f \in Frequencies : phase = "constructed" /\ BuildFails(f)
  \/ phase = "refined" /\ BuildFails(omega)
  \/ Rebuild
  \/ RefineConforming
  \/ RefineFails
  \/ \E f \in Frequencies, driven \in SUBSET Terminals, background \in BOOLEAN :
        ImprintScenario(f, driven, background)
  \/ SolveSystem
  \/ FactorFails
  \/ KrylovFails
  \/ EstimateCurrentSolutionError
  \/ GatherCouplingColumn
  \/ ComputeRegionLosses

OpSpec == OpInit /\ [][OpNext]_opvars
-----------------------------------------------------------------------------
(* Properties.                                                             *)

Meshes == 0..MaxSequence
Omegas == Frequencies \cup {0}
Systems == [mesh : Meshes, mass : Omegas, corner : Omegas]
PortNames == 1..(NTerminals + NOpen)
PortOrders == {CollectMassivePorts}
AreaEntries == [terminal : Terminals, mesh : Meshes]
RightHandSides ==
  [mesh : Meshes, omega : Frequencies, background : BOOLEAN,
   areas : SUBSET AreaEntries, ports : SUBSET (Nat \X Terminals)]

\* The type of every variable: pointers are sets of at most one object, and
\* nothing was made from a mesh or a frequency that does not exist.
OpTypeOK ==
  /\ massive \subseteq Terminals /\ linear_solver \in Solvers /\ phase \in Phases
  /\ sequence \in Meshes /\ omega \in Omegas
  /\ fespace \subseteq [mesh : Meshes, at : Addresses]
  /\ S_AA \subseteq Meshes
  /\ port_operator \subseteq [mesh : Meshes, ports : PortOrders, active_omega : Frequencies,
                              scale : Frequencies, corner : Frequencies]
  /\ direct_solver \subseteq Systems /\ factored_omega \in Omegas
  /\ preconditioner \subseteq Systems /\ preconditioned_omega \in Omegas
  /\ terminal_areas \subseteq AreaEntries
  /\ winding_functionals \subseteq [terminal : Terminals, mesh : Meshes, area : Meshes]
  /\ cached_sequence \in Meshes \cup {-1}
  /\ energy_form \subseteq Meshes /\ energy_fes \in Addresses \cup {0}
  /\ energy_sequence \in Meshes \cup {-1}
  /\ b_combined \subseteq RightHandSides
  /\ answer \subseteq [factors : Systems, applied : Systems, rhs : RightHandSides]
  /\ port_values \subseteq [mesh : Meshes, ports : PortOrders]

\* A solve uses the current mesh at the active frequency throughout: the cached
\* factors (or preconditioner) and the matrix-free operator are the same system,
\* and the right-hand side, areas included, belongs to it.  None of the caches
\* over mesh and frequency, nor the three copies of omega in the port operator,
\* may lag behind a sweep or a refinement.
SolvesCurrentSystem ==
  phase = "solved" =>
    \E x \in answer :
      /\ x.factors = System(sequence, omega)
      /\ x.applied = System(sequence, omega)
      /\ x.rhs.mesh = sequence /\ x.rhs.omega = omega
      /\ \A e \in x.rhs.areas : e.mesh = sequence

\* A gathered coupling column has one reading per terminal, taken from that
\* terminal's own port or winding, on the current mesh, at the frequency of the
\* solution it is read from.
ColumnReadsOwnTerminal ==
  phase = "solved" /\ column # {} =>
    /\ \A r \in column : r.of = r.row /\ r.mesh = sequence
    /\ \A r \in column, x \in answer : r.omega = x.applied.mass
    /\ \A t \in Terminals : \E r \in column : r.row = t
    /\ Cardinality(column) = NTerminals

\* The current of a massive terminal is imposed in the equation of its own
\* port: the counter of the right-hand side loop and the order the operator was
\* assembled in agree, whatever open regions and stranded terminals there are.
DrivesReachOwnPort ==
  phase = "imprinted" =>
    \A b \in b_combined, o \in port_operator :
      \A d \in b.ports : d[1] \in DOMAIN o.ports /\ o.ports[d[1]] = d[2]

\* Loss recovery writes each solved voltage on its own region and misses none.
LossesUseOwnVoltage ==
  \A l \in losses :
    l.drive = {<<n, n>> : n \in massive \cup (NTerminals + 1)..(NTerminals + NOpen)}

\* The loops over config.Terminals that count ports (the right-hand side's and the
\* coupling column's) come to the numbering the port operator was assembled in, and
\* so does the loss recovery, which has no counter but collects the ports again.
PortsMatchTerminals ==
  OpTypeOK /\ DrivesReachOwnPort /\ ColumnReadsOwnTerminal /\ LossesUseOwnVoltage

\* An energy norm that passes for cached is that of the current mesh, even when
\* the allocator reuses the address of an earlier mesh's space.
EnergyNormIsCurrent == phase = "solved" /\ EnergyHit => energy_form = {sequence}

\* The preconditioner, which holds the forms' matrices by reference, never
\* outlives them, also when a rebuild throws half-way.
PreconditionerReferencesLive == \A p \in preconditioner : p.mesh \in S_AA

\* magnetoquasistatic_solver.hpp:49-51: factored_omega records which frequency
\* the current factors belong to.  (It records none before the first one.)
FactoredOmegaRecordsFactors ==
  factored_omega # 0 => \A d \in direct_solver : d.mass = factored_omega
=============================================================================
