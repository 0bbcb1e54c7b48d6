----------------------------- MODULE MqsRun_proofs -----------------------------
(***************************************************************************)
(* Proofs about MqsRun and the MqsOperators it extends, for every number of     *)
(* terminals and regions, list of scenarios, set of output formats and limit on *)
(* the iterations: no solve ever uses a factor, a preconditioner, an operator   *)
(* or a measured area of another mesh or another frequency; what is driven and  *)
(* read through a port is the terminal's own; a run answers its plan as         *)
(* RunContract asks, gathers a whole coupling series without factoring twice,   *)
(* keeps its records of the passes, and publishes the last mesh's.              *)
(***************************************************************************)
EXTENDS MqsRun, Counting_proofs, FunctionTheorems, SequenceTheorems

-----------------------------------------------------------------------------
(* The discrete system.                                                    *)

\* The phases in which the discrete system of the current mesh stands.
Live == phase \in {"ready", "imprinted", "solved"}

\* What stands belongs to the current mesh, and every cache to its own key.
Fresh ==
  Live =>
    /\ omega \in Frequencies
    /\ fespace # {} /\ \A s \in fespace : s.mesh = sequence
    /\ S_AA = {sequence}
    /\ port_operator # {}
    /\ \A o \in port_operator : /\ Assembled(o) = System(sequence, omega)
                                /\ Applied(o) = System(sequence, omega)
    /\ \A d \in direct_solver : d = System(sequence, factored_omega)
    /\ \A p \in preconditioner : p = System(sequence, preconditioned_omega)

\* Entries of the per-mesh caches are of the mesh the cache is stamped with.
CachesStamped ==
  /\ \A e \in terminal_areas : e.mesh = cached_sequence
  /\ \A e \in winding_functionals : e.mesh = cached_sequence /\ e.area = cached_sequence
  /\ \A m \in energy_form : m = energy_sequence

\* The right-hand side of a scenario that waits for its solve.
Imprinted ==
  phase = "imprinted" =>
    /\ b_combined # {}
    /\ \A b \in b_combined : /\ b.mesh = sequence /\ b.omega = omega
                             /\ \A e \in b.areas : e.mesh = sequence

\* The inductive invariant.
IInv ==
  /\ OpTypeOK
  /\ phase = "refined" => omega \in Frequencies
  /\ Fresh
  /\ CachesStamped
  /\ Imprinted
  /\ SolvesCurrentSystem
  /\ PreconditionerReferencesLive

-----------------------------------------------------------------------------
(* Lemmas on the operators.                                                *)

\* The counter over the massive terminals is a natural number.
LEMMA PortIndexType ==
  ASSUME massive \subseteq Terminals, NEW t \in Terminals
  PROVE  PortIndex(t) \in Nat
<1>1. massive \in SUBSET (Nat \ {0}) /\ t \in Nat
  BY TerminalsAssumption DEF Terminals
<1> QED
  BY <1>1, PassedStep DEF PortIndex

\* The drives of a right-hand side are pairs of a number and a terminal.
LEMMA PortDrivesType ==
  ASSUME massive \subseteq Terminals, NEW driven \in SUBSET Terminals
  PROVE  PortDrives(driven) \subseteq Nat \X Terminals
BY PortIndexType DEF PortDrives

\* Areas asked for on a live mesh are all of that mesh, whether they were cached
\* before or not.
LEMMA AreasAreFresh ==
  ASSUME IInv, Live, NEW T \in SUBSET Terminals
  PROVE  /\ AreasWith(T) \subseteq AreaEntries
         /\ \A e \in AreasWith(T) : e.mesh = sequence
<1>1. Kept(terminal_areas) \subseteq AreaEntries
  BY DEF IInv, OpTypeOK, Kept
<1>2. \A e \in Kept(terminal_areas) : e.mesh = sequence
  BY DEF IInv, CachesStamped, Kept
<1>3. sequence \in Meshes /\ \A s \in fespace : s.mesh = sequence
  BY DEF IInv, OpTypeOK, Fresh
<1> DEFINE new == {[terminal |-> t, mesh |-> s.mesh] :
                     t \in T \ Found(Kept(terminal_areas)), s \in fespace}
<1>4. new \subseteq AreaEntries /\ \A e \in new : e.mesh = sequence
  BY <1>3 DEF AreaEntries
<1>5. AreasWith(T) = Kept(terminal_areas) \cup new
  BY DEF AreasWith
<1> QED
  BY <1>1, <1>2, <1>4, <1>5

\* A system of an existing mesh at an existing frequency has its type.
LEMMA SystemType ==
  ASSUME NEW m \in Meshes, NEW w \in Omegas
  PROVE  System(m, w) \in Systems
BY DEF System, Systems

\* Rescaling the port operator makes its three copies of omega agree.
LEMMA SetOmegaIsUniform ==
  ASSUME OpTypeOK, NEW w \in Frequencies,
         \A o \in port_operator : o.mesh = sequence
  PROVE  /\ SetOmega(port_operator, w) \subseteq
              [mesh : Meshes, ports : PortOrders, active_omega : Frequencies,
               scale : Frequencies, corner : Frequencies]
         /\ \A o \in SetOmega(port_operator, w) :
              /\ Assembled(o) = System(sequence, w)
              /\ Applied(o) = System(sequence, w)
BY DEF OpTypeOK, SetOmega, Assembled, Applied, System
-----------------------------------------------------------------------------
(* Each operation preserves the inductive invariant.                       *)

\* Initially nothing is built.
LEMMA InitIInv == OpInit => IInv
<1> SUFFICES ASSUME OpInit PROVE IInv
  OBVIOUS
<1>1. OpTypeOK
  BY FrequenciesAssumption, MaxSequenceAssumption
  DEF OpInit, OpTypeOK, Phases, Solvers, Meshes, Omegas
<1>2. Fresh /\ Imprinted /\ SolvesCurrentSystem
  BY DEF OpInit, Fresh, Live, Imprinted, SolvesCurrentSystem
<1>3. CachesStamped /\ PreconditionerReferencesLive
  BY DEF OpInit, CachesStamped, PreconditionerReferencesLive
<1> QED
  BY <1>1, <1>2, <1>3 DEF IInv, OpInit

\* Whatever the old mesh left behind, building replaces all that refers to it;
\* the caches that are kept carry their own stamp.
LEMMA BuildPreserves ==
  ASSUME IInv, NEW w \in Frequencies, BuildOperators(w)
  PROVE  IInv'
<1> USE DEF IInv
<1>1. OpTypeOK'
  <2>1. fespace' \subseteq [mesh : Meshes, at : Addresses] /\ S_AA' \subseteq Meshes
    BY DEF BuildOperators, OpTypeOK
  <2>2. port_operator' \subseteq [mesh : Meshes, ports : PortOrders', active_omega : Frequencies,
                                scale : Frequencies, corner : Frequencies]
    BY DEF BuildOperators, OpTypeOK, PortOrders, CollectMassivePorts, config
  <2>3. PortOrders' = PortOrders
    BY DEF BuildOperators, PortOrders, CollectMassivePorts, config
  <2> QED
    BY <2>1, <2>2, <2>3
    DEF BuildOperators, OpTypeOK, DropFactors, DropPreconditioner, Phases, Omegas,
        config, mesh_caches, energy
<1>2. Fresh'
  BY DEF BuildOperators, Fresh, Live, Assembled, Applied, System, DropFactors,
         DropPreconditioner
<1>3. CachesStamped'
  BY DEF BuildOperators, CachesStamped, mesh_caches, energy
<1>4. (Imprinted /\ SolvesCurrentSystem /\ PreconditionerReferencesLive)'
  BY DEF BuildOperators, Imprinted, SolvesCurrentSystem, PreconditionerReferencesLive,
         DropPreconditioner
<1> QED
  BY <1>1, <1>2, <1>3, <1>4 DEF BuildOperators

\* A build that throws leaves no preconditioner over freed matrices.
LEMMA BuildFailsPreserves ==
  ASSUME IInv, NEW w \in Frequencies, BuildFails(w)
  PROVE  IInv'
<1> USE DEF IInv
<1>1. PortOrders' = PortOrders
  BY DEF BuildFails, PortOrders, CollectMassivePorts, config
<1>2. OpTypeOK'
  BY <1>1 DEF BuildFails, OpTypeOK, DropPreconditioner, Phases, Omegas, config,
              mesh_caches, energy, results
<1>3. (Fresh /\ Imprinted /\ SolvesCurrentSystem)'
  BY DEF BuildFails, Fresh, Live, Imprinted, SolvesCurrentSystem
<1>4. (CachesStamped /\ PreconditionerReferencesLive)'
  BY DEF BuildFails, CachesStamped, PreconditionerReferencesLive, DropPreconditioner,
         mesh_caches, energy
<1> QED
  BY <1>2, <1>3, <1>4 DEF BuildFails

\* A refinement leaves the solver without a live system.
LEMMA RefinePreserves ==
  ASSUME IInv, RefineConforming \/ RefineFails
  PROVE  IInv'
<1> USE DEF IInv
<1>1. PortOrders' = PortOrders
  BY DEF RefineConforming, RefineFails, PortOrders, CollectMassivePorts, config
<1>2. OpTypeOK'
  <2>1. sequence' \in Meshes
    BY MaxSequenceAssumption DEF RefineConforming, RefineFails, OpTypeOK, Meshes
  <2> QED
    BY <1>1, <2>1 DEF RefineConforming, RefineFails, OpTypeOK, Phases, config, operators,
                      factors, mesh_caches, energy, results
<1>3. (Fresh /\ Imprinted /\ SolvesCurrentSystem)'
  BY DEF RefineConforming, RefineFails, Fresh, Live, Imprinted, SolvesCurrentSystem
<1>4. (CachesStamped /\ PreconditionerReferencesLive)'
  BY DEF RefineConforming, RefineFails, CachesStamped, PreconditionerReferencesLive,
         mesh_caches, energy, factors, operators
<1>5. (phase = "refined" => omega \in Frequencies)'
  BY DEF RefineConforming, RefineFails, Fresh, Live, operators
<1> QED
  BY <1>2, <1>3, <1>4, <1>5
\* A scenario's right-hand side and the rescaled operator belong to the current
\* mesh and the scenario's frequency, and so do the areas behind the sources.
LEMMA ImprintPreserves ==
  ASSUME IInv, NEW f \in Frequencies, NEW driven \in SUBSET Terminals,
         NEW background \in BOOLEAN, ImprintScenario(f, driven, background)
  PROVE  IInv'
<1> DEFINE stranded == driven \ massive
           areas == {e \in AreasWith(stranded) : e.terminal \in stranded}
<1>1. OpTypeOK /\ Live
  BY DEF IInv, ImprintScenario, Live
<1>2. PortOrders' = PortOrders
  BY DEF ImprintScenario, PortOrders, CollectMassivePorts, config
<1>3. AreasWith(stranded) \subseteq AreaEntries /\ \A e \in AreasWith(stranded) : e.mesh = sequence
  BY <1>1, AreasAreFresh
<1>4. \A s \in fespace : s.mesh = sequence
  BY <1>1 DEF IInv, Fresh
<1>5. \A o \in port_operator : o.mesh = sequence
  BY <1>1 DEF IInv, Fresh, Assembled, System
<1>6. /\ port_operator' \subseteq [mesh : Meshes, ports : PortOrders, active_omega : Frequencies,
                                 scale : Frequencies, corner : Frequencies]
      /\ \A o \in port_operator' : /\ Assembled(o) = System(sequence, f)
                                   /\ Applied(o) = System(sequence, f)
  BY <1>1, <1>5, SetOmegaIsUniform DEF ImprintScenario
<1>7. port_operator' # {}
  BY <1>1 DEF IInv, Fresh, ImprintScenario, SetOmega
<1>8. /\ terminal_areas' \subseteq AreaEntries
      /\ winding_functionals' \subseteq [terminal : Terminals, mesh : Meshes, area : Meshes]
      /\ cached_sequence' \in Meshes \cup {-1}
  BY <1>1, <1>3 DEF ImprintScenario, MeasureAreas, OpTypeOK, Kept, mesh_caches
<1>9. CachesStamped'
  <2>1. CASE stranded = {}
    BY <2>1 DEF IInv, ImprintScenario, MeasureAreas, CachesStamped, mesh_caches, energy
  <2>2. CASE stranded # {}
    BY <1>3, <2>2 DEF IInv, ImprintScenario, MeasureAreas, CachesStamped, Kept, energy
  <2> QED
    BY <2>1, <2>2
<1>10. b_combined' = {[mesh |-> s.mesh, omega |-> f, background |-> background,
                       areas |-> areas, ports |-> PortDrives(driven)] : s \in fespace}
  BY DEF ImprintScenario
<1>11. areas \subseteq AreaEntries /\ \A e \in areas : e.mesh = sequence
  BY <1>3
<1> HIDE DEF areas
<1>12. b_combined' \subseteq RightHandSides
  <2>1. PortDrives(driven) \subseteq Nat \X Terminals
    BY <1>1, PortDrivesType DEF OpTypeOK
  <2>2. fespace \subseteq [mesh : Meshes, at : Addresses]
    BY <1>1 DEF OpTypeOK
  <2> QED
    BY <1>10, <1>11, <2>1, <2>2 DEF RightHandSides
<1>13. OpTypeOK'
  BY <1>1, <1>2, <1>6, <1>8, <1>12
  DEF ImprintScenario, OpTypeOK, Phases, Omegas, config, factors, energy
<1>14. Imprinted'
  <2>1. fespace # {} /\ omega' = f /\ sequence' = sequence
    BY <1>1 DEF IInv, Fresh, ImprintScenario
  <2>2. b_combined' # {}
    BY <1>10, <2>1
  <2>3. \A b \in b_combined' : /\ b.mesh = sequence /\ b.omega = f
                               /\ \A e \in b.areas : e.mesh = sequence
    BY <1>4, <1>10, <1>11
  <2> QED
    BY <2>1, <2>2, <2>3 DEF Imprinted
<1>15. Fresh'
  BY <1>1, <1>6, <1>7 DEF IInv, Fresh, Live, ImprintScenario, factors, Assembled, Applied, System
<1>16. (SolvesCurrentSystem /\ PreconditionerReferencesLive)'
  BY DEF IInv, ImprintScenario, SolvesCurrentSystem, PreconditionerReferencesLive, factors
<1> QED
  BY <1>9, <1>13, <1>14, <1>15, <1>16 DEF IInv, ImprintScenario

\* The factors and the preconditioner after their Ensure function are those of
\* the active frequency, found or made.
LEMMA EnsuredFactorsAreCurrent ==
  ASSUME IInv, phase = "imprinted", EnsureFactorizationForActiveFrequency
  PROVE  direct_solver' = {System(sequence, omega)} /\ factored_omega' = omega
<1>1. Live
  BY DEF Live
<1>2. CASE FactorizationHit
  BY <1>1, <1>2 DEF IInv, Fresh, FactorizationHit, EnsureFactorizationForActiveFrequency
<1>3. CASE ~FactorizationHit
  <2>1. {Assembled(o) : o \in port_operator} = {System(sequence, omega)}
    BY <1>1 DEF IInv, Fresh
  <2> QED
    BY <1>3, <2>1 DEF EnsureFactorizationForActiveFrequency
<1> QED
  BY <1>2, <1>3

LEMMA EnsuredPreconditionerIsCurrent ==
  ASSUME IInv, phase = "imprinted", EnsurePreconditionerForActiveFrequency
  PROVE  preconditioner' = {System(sequence, omega)} /\ preconditioned_omega' = omega
<1>1. Live
  BY DEF Live
<1>2. CASE PreconditionerHit
  BY <1>1, <1>2 DEF IInv, Fresh, PreconditionerHit, EnsurePreconditionerForActiveFrequency
<1>3. CASE ~PreconditionerHit
  <2>1. {System(m, omega) : m \in S_AA} = {System(sequence, omega)}
    BY <1>1 DEF IInv, Fresh
  <2> QED
    BY <1>3, <2>1 DEF EnsurePreconditionerForActiveFrequency
<1> QED
  BY <1>2, <1>3
\* A solve: whichever path, and whether or not the cache was hit, the answer is
\* of the current system, and the caches stay keyed.
LEMMA SolvePreserves ==
  ASSUME IInv, SolveSystem
  PROVE  IInv'
<1> DEFINE now == System(sequence, omega)
<1>1. OpTypeOK /\ Live /\ phase = "imprinted"
  BY DEF IInv, SolveSystem, Live
<1>2. PortOrders' = PortOrders
  BY DEF SolveSystem, PortOrders, CollectMassivePorts, config
<1>3. now \in Systems /\ omega \in Omegas
  BY <1>1, SystemType DEF IInv, Fresh, OpTypeOK, Omegas
<1>4. /\ direct_solver' \subseteq Systems /\ factored_omega' \in Omegas
      /\ preconditioner' \subseteq Systems /\ preconditioned_omega' \in Omegas
      /\ \A d \in direct_solver' : d = System(sequence, factored_omega')
      /\ \A p \in preconditioner' : p = System(sequence, preconditioned_omega')
  BY <1>1, <1>3, EnsuredFactorsAreCurrent, EnsuredPreconditionerIsCurrent
  DEF SolveSystem, OpTypeOK, IInv, Fresh
<1>5. answer' = {[factors |-> now, applied |-> Applied(o), rhs |-> b] :
                    o \in port_operator, b \in b_combined}
  <2>1. CASE linear_solver = "Direct"
    BY <1>1, <2>1, EnsuredFactorsAreCurrent DEF SolveSystem
  <2>2. CASE linear_solver = "Iterative"
    BY <1>1, <2>2, EnsuredPreconditionerIsCurrent DEF SolveSystem
  <2> QED
    BY <2>1, <2>2 DEF SolveSystem
<1>6. port_operator # {} /\ \A o \in port_operator : Applied(o) = now
  BY <1>1 DEF IInv, Fresh
<1>7. /\ b_combined # {} /\ b_combined \subseteq RightHandSides
      /\ \A b \in b_combined : /\ b.mesh = sequence /\ b.omega = omega
                              /\ \A e \in b.areas : e.mesh = sequence
  BY <1>1 DEF IInv, Imprinted, OpTypeOK
<1> HIDE DEF now
<1>8. answer' \subseteq [factors : Systems, applied : Systems, rhs : RightHandSides]
  BY <1>3, <1>5, <1>6, <1>7
<1>9. port_values' \subseteq [mesh : Meshes, ports : PortOrders]
  BY <1>1 DEF SolveSystem, OpTypeOK
<1>10. OpTypeOK'
  BY <1>1, <1>2, <1>4, <1>8, <1>9
  DEF SolveSystem, OpTypeOK, Phases, config, operators, mesh_caches, energy
<1>11. \E x \in answer' : /\ x.factors = now /\ x.applied = now
                         /\ x.rhs.mesh = sequence /\ x.rhs.omega = omega
                         /\ \A e \in x.rhs.areas : e.mesh = sequence
  <2>1. PICK o \in port_operator : Applied(o) = now
    BY <1>6
  <2>2. PICK b \in b_combined : /\ b.mesh = sequence /\ b.omega = omega
                                /\ \A e \in b.areas : e.mesh = sequence
    BY <1>7
  <2> DEFINE x == [factors |-> now, applied |-> Applied(o), rhs |-> b]
  <2>3. x \in answer'
    BY <1>5
  <2>4. x.factors = now /\ x.applied = now /\ x.rhs = b
    BY <2>1
  <2> HIDE DEF x
  <2> QED
    BY <2>2, <2>3, <2>4
<1>12. SolvesCurrentSystem'
  <2>1. sequence' = sequence /\ omega' = omega
    BY DEF SolveSystem, operators
  <2>2. System(sequence, omega)' = now
    BY <2>1 DEF now, System
  <2> QED
    BY <1>11, <2>1, <2>2 DEF SolvesCurrentSystem
<1>13. Fresh'
  BY <1>1, <1>4 DEF IInv, Fresh, Live, SolveSystem, operators, Assembled, Applied, System
<1>14. CachesStamped'
  BY DEF IInv, CachesStamped, SolveSystem, mesh_caches, energy
<1>15. (Imprinted /\ PreconditionerReferencesLive)'
  BY <1>1, <1>4 DEF IInv, Fresh, SolveSystem, Imprinted, PreconditionerReferencesLive,
                    operators, System
<1> QED
  BY <1>10, <1>12, <1>13, <1>14, <1>15 DEF IInv, SolveSystem

\* A failed factorization or iteration leaves nothing that is used again.
LEMMA SolveFailsPreserves ==
  ASSUME IInv, FactorFails \/ KrylovFails
  PROVE  IInv'
<1>1. OpTypeOK /\ Live /\ phase = "imprinted"
  BY DEF IInv, FactorFails, KrylovFails, Live
<1>2. PortOrders' = PortOrders
  BY DEF FactorFails, KrylovFails, PortOrders, CollectMassivePorts, config
<1>3. System(sequence, omega) \in Systems /\ omega \in Omegas
  BY <1>1, SystemType DEF IInv, Fresh, OpTypeOK, Omegas
<1>4. CASE FactorFails
  <2>1. direct_solver' \subseteq Systems
    BY <1>1, <1>3, <1>4 DEF FactorFails, IInv, Fresh
  <2>2. OpTypeOK'
    BY <1>1, <1>2, <1>4, <2>1
    DEF FactorFails, OpTypeOK, Phases, config, operators, mesh_caches, energy, results
  <2>3. (Fresh /\ Imprinted /\ SolvesCurrentSystem)'
    BY <1>4 DEF FactorFails, Fresh, Live, Imprinted, SolvesCurrentSystem
  <2>4. (CachesStamped /\ PreconditionerReferencesLive)'
    BY <1>4 DEF IInv, FactorFails, CachesStamped, PreconditionerReferencesLive,
                mesh_caches, energy, operators
  <2> QED
    BY <1>4, <2>2, <2>3, <2>4 DEF IInv, FactorFails
<1>5. CASE KrylovFails
  <2>1. preconditioner' = {System(sequence, omega)} /\ preconditioned_omega' = omega
    BY <1>1, <1>5, EnsuredPreconditionerIsCurrent DEF KrylovFails
  <2>2. OpTypeOK'
    BY <1>1, <1>2, <1>3, <1>5, <2>1
    DEF KrylovFails, OpTypeOK, Phases, config, operators, mesh_caches, energy, results
  <2>3. (Fresh /\ Imprinted /\ SolvesCurrentSystem)'
    BY <1>5 DEF KrylovFails, Fresh, Live, Imprinted, SolvesCurrentSystem
  <2>4. CachesStamped'
    BY <1>5 DEF IInv, KrylovFails, CachesStamped, mesh_caches, energy
  <2>5. PreconditionerReferencesLive'
    BY <1>1, <1>5, <2>1 DEF IInv, Fresh, KrylovFails, PreconditionerReferencesLive,
                            operators, System
  <2> QED
    BY <1>5, <2>2, <2>3, <2>4, <2>5 DEF IInv, KrylovFails
<1> QED
  BY <1>4, <1>5

\* What is neither touched by a reading of the solution nor by a stutter.
LEMMA ReadingPreserves ==
  ASSUME IInv, UNCHANGED <<config, phase, sequence, operators, factors, b_combined,
                           answer, port_values>>,
         OpTypeOK', CachesStamped'
  PROVE  IInv'
<1>1. Fresh'
  BY DEF IInv, Fresh, Live, operators, factors, Assembled, Applied, System
<1>2. (Imprinted /\ SolvesCurrentSystem /\ PreconditionerReferencesLive)'
  BY DEF IInv, Imprinted, SolvesCurrentSystem, PreconditionerReferencesLive,
         operators, factors, System
<1> QED
  BY <1>1, <1>2 DEF IInv, operators

\* The energy norm is stamped with the mesh it is built on.
LEMMA EstimatePreserves ==
  ASSUME IInv, EstimateCurrentSolutionError
  PROVE  IInv'
<1>1. OpTypeOK /\ Live
  BY DEF IInv, EstimateCurrentSolutionError, Live
<1>2. PortOrders' = PortOrders
  BY DEF EstimateCurrentSolutionError, PortOrders, CollectMassivePorts, config
<1>3. \A s \in fespace : s.mesh = sequence
  BY <1>1 DEF IInv, Fresh
<1>4. /\ energy_form' \subseteq Meshes /\ energy_fes' \in Addresses \cup {0}
      /\ energy_sequence' \in Meshes \cup {-1}
      /\ \A m \in energy_form' : m = energy_sequence'
  BY <1>1, <1>3 DEF EstimateCurrentSolutionError, OpTypeOK, energy, IInv, CachesStamped
<1>5. OpTypeOK'
  BY <1>1, <1>2, <1>4
  DEF EstimateCurrentSolutionError, OpTypeOK, Phases, config, operators, factors,
      mesh_caches, results
<1>6. CachesStamped'
  BY <1>4 DEF IInv, CachesStamped, EstimateCurrentSolutionError, mesh_caches
<1> QED
  BY <1>5, <1>6, ReadingPreserves DEF EstimateCurrentSolutionError, results

\* Windings assembled on demand are of the current mesh, as are the kept ones.
LEMMA GatherPreserves ==
  ASSUME IInv, GatherCouplingColumn
  PROVE  IInv'
<1> DEFINE missing == (Terminals \ massive) \ Found(Kept(winding_functionals))
<1>1. OpTypeOK /\ Live
  BY DEF IInv, GatherCouplingColumn, Live
<1>2. PortOrders' = PortOrders
  BY DEF GatherCouplingColumn, PortOrders, CollectMassivePorts, config
<1>3. AreasWith(missing) \subseteq AreaEntries /\ \A e \in AreasWith(missing) : e.mesh = sequence
  BY <1>1, AreasAreFresh
<1>4. \A s \in fespace : s.mesh = sequence
  BY <1>1 DEF IInv, Fresh
<1>5. sequence \in Meshes
  BY <1>1 DEF OpTypeOK
<1>6. \/ UNCHANGED mesh_caches
      \/ /\ terminal_areas' = AreasWith(missing)
         /\ winding_functionals' = Kept(winding_functionals) \cup WindingsFor(missing)
         /\ cached_sequence' = sequence
  BY DEF GatherCouplingColumn, AssembleWindings
<1>7. /\ WindingsFor(missing) \subseteq [terminal : Terminals, mesh : Meshes, area : Meshes]
      /\ \A w \in WindingsFor(missing) : w.mesh = sequence /\ w.area = sequence
  <2> HIDE DEF missing
  <2> SUFFICES ASSUME NEW w \in WindingsFor(missing)
               PROVE  /\ w \in [terminal : Terminals, mesh : Meshes, area : Meshes]
                      /\ w.mesh = sequence /\ w.area = sequence
    OBVIOUS
  <2>1. PICK e \in AreasWith(missing), s \in fespace :
             w = [terminal |-> e.terminal, mesh |-> s.mesh, area |-> e.mesh]
    BY DEF WindingsFor
  <2>2. e \in AreaEntries /\ e.mesh = sequence /\ s.mesh = sequence
    BY <1>3, <1>4
  <2> QED
    BY <2>1, <2>2, <1>5 DEF AreaEntries
<1>8. /\ Kept(winding_functionals) \subseteq [terminal : Terminals, mesh : Meshes, area : Meshes]
      /\ \A e \in Kept(winding_functionals) : e.mesh = sequence /\ e.area = sequence
  BY <1>1 DEF IInv, CachesStamped, OpTypeOK, Kept
<1> HIDE DEF missing
<1>9. /\ terminal_areas' \subseteq AreaEntries
      /\ winding_functionals' \subseteq [terminal : Terminals, mesh : Meshes, area : Meshes]
      /\ cached_sequence' \in Meshes \cup {-1}
  BY <1>1, <1>3, <1>5, <1>6, <1>7, <1>8 DEF OpTypeOK, mesh_caches
<1>10. OpTypeOK'
  BY <1>1, <1>2, <1>9
  DEF GatherCouplingColumn, OpTypeOK, Phases, config, operators, factors, energy
<1>11. CachesStamped'
  BY <1>3, <1>6, <1>7, <1>8
  DEF IInv, CachesStamped, GatherCouplingColumn, mesh_caches, energy
<1> QED
  BY <1>10, <1>11, ReadingPreserves DEF GatherCouplingColumn

\* Loss recovery changes no cache.
LEMMA LossesPreserve ==
  ASSUME IInv, ComputeRegionLosses
  PROVE  IInv'
<1>1. PortOrders' = PortOrders
  BY DEF ComputeRegionLosses, PortOrders, CollectMassivePorts, config
<1>2. OpTypeOK'
  BY <1>1 DEF IInv, ComputeRegionLosses, OpTypeOK, config, operators, factors,
              mesh_caches, energy
<1>3. CachesStamped'
  BY DEF IInv, CachesStamped, ComputeRegionLosses, mesh_caches, energy
<1> QED
  BY <1>2, <1>3, ReadingPreserves DEF ComputeRegionLosses

-----------------------------------------------------------------------------
(* The theorems.                                                           *)

\* One step of the solver, or a stutter, preserves the inductive invariant.
LEMMA NextIInv == IInv /\ [OpNext]_opvars => IInv'
<1> SUFFICES ASSUME IInv, [OpNext]_opvars PROVE IInv'
  OBVIOUS
<1>1. CASE \E f \in Frequencies : Setup(f)
  BY <1>1, BuildPreserves DEF Setup
<1>2. CASE \E f \in Frequencies : phase = "constructed" /\ BuildFails(f)
  BY <1>2, BuildFailsPreserves
<1>3. CASE phase = "refined" /\ BuildFails(omega)
  BY <1>3, BuildFailsPreserves DEF IInv
<1>4. CASE Rebuild
  BY <1>4, BuildPreserves DEF Rebuild, IInv
<1>5. CASE RefineConforming \/ RefineFails
  BY <1>5, RefinePreserves
<1>6. CASE \E f \in Frequencies, driven \in SUBSET Terminals, background \in BOOLEAN :
             ImprintScenario(f, driven, background)
  BY <1>6, ImprintPreserves
<1>7. CASE SolveSystem
  BY <1>7, SolvePreserves
<1>8. CASE FactorFails \/ KrylovFails
  BY <1>8, SolveFailsPreserves
<1>9. CASE EstimateCurrentSolutionError
  BY <1>9, EstimatePreserves
<1>10. CASE GatherCouplingColumn
  BY <1>10, GatherPreserves
<1>11. CASE ComputeRegionLosses
  BY <1>11, LossesPreserve
<1>12. CASE UNCHANGED opvars
  <2>1. UNCHANGED <<config, phase, sequence, operators, factors, mesh_caches, energy,
                    b_combined, results>>
    BY <1>12 DEF opvars
  <2>2. PortOrders' = PortOrders
    BY <2>1 DEF PortOrders, CollectMassivePorts, config
  <2>3. OpTypeOK'
    BY <2>1, <2>2 DEF IInv, OpTypeOK, config, operators, factors, mesh_caches, energy, results
  <2>4. CachesStamped'
    BY <2>1 DEF IInv, CachesStamped, mesh_caches, energy
  <2> QED
    BY <2>1, <2>3, <2>4, ReadingPreserves DEF results
<1> QED
  BY <1>1, <1>2, <1>3, <1>4, <1>5, <1>6, <1>7, <1>8, <1>9, <1>10, <1>11, <1>12 DEF OpNext

\* The inductive invariant holds throughout.
THEOREM Invariance == OpSpec => []IInv
BY InitIInv, NextIInv, PTL DEF OpSpec

\* Every solve uses the factors, the preconditioner, the operator, the right-hand
\* side and the areas of the current mesh at the active frequency: the caches of
\* MagnetoquasistaticSolver and MagneticSolver never serve a stale entry.
THEOREM SolvesAreCurrent == OpSpec => []SolvesCurrentSystem
<1>1. IInv => SolvesCurrentSystem
  BY DEF IInv
<1> QED
  BY <1>1, Invariance, PTL

\* The preconditioner never refers to matrices that BuildOperators replaced.
THEOREM PreconditionerIsLive == OpSpec => []PreconditionerReferencesLive
<1>1. IInv => PreconditionerReferencesLive
  BY DEF IInv
<1> QED
  BY <1>1, Invariance, PTL

\* An energy norm taken from the cache is that of the current mesh, whatever
\* addresses the allocator hands out.
THEOREM EnergyNormCorrect == OpSpec => []EnergyNormIsCurrent
<1>1. IInv => EnergyNormIsCurrent
  BY DEF IInv, CachesStamped, EnergyNormIsCurrent, EnergyHit
<1> QED
  BY <1>1, Invariance, PTL

-----------------------------------------------------------------------------
(* The port numbering: three loops over config.Terminals count ports, and read *)
(* what a fourth one has pushed.                                            *)

OpenRegions == (NTerminals + 1)..(NTerminals + NOpen)

\* The port at each massive terminal's count is that terminal's, and the ports are
\* the massive terminals and the open regions, each once.
LEMMA PortNumbering ==
  ASSUME massive \subseteq Terminals
  PROVE  /\ \A t \in massive : /\ PortIndex(t) \in DOMAIN CollectMassivePorts
                               /\ CollectMassivePorts[PortIndex(t)] = t
         /\ \A p \in DOMAIN CollectMassivePorts :
              CollectMassivePorts[p] \in massive \cup OpenRegions
         /\ \A n \in OpenRegions : \E p \in DOMAIN CollectMassivePorts :
              CollectMassivePorts[p] = n
<1> DEFINE front == InOrder(massive, NTerminals)
           back == [j \in 1..NOpen |-> NTerminals + j]
           all == front \o back
           c == Passed(massive, NTerminals)
<1>1. massive \in SUBSET (Nat \ {0}) /\ NTerminals \in Nat /\ NOpen \in Nat
      /\ \A t \in massive : t <= NTerminals
  BY TerminalsAssumption DEF Terminals
<1>2. front \in Seq(Nat) /\ c \in Nat
  BY <1>1, InOrderStep, PassedStep
<1>3. back \in Seq(Nat) /\ Len(back) = NOpen
  BY <1>1
<1>4. /\ Len(front) = c
      /\ \A t \in massive : Passed(massive, t) \in 1..c /\ front[Passed(massive, t)] = t
      /\ \A p \in 1..c : front[p] \in massive
  <2>1. /\ Len(front) = c
        /\ \A t \in massive : t <= NTerminals => /\ Passed(massive, t) \in 1..c
                                                /\ front[Passed(massive, t)] = t
        /\ \A p \in 1..c : front[p] \in massive
    BY <1>1, OrderIsCount, Zenon
  <2> QED
    BY <1>1, <2>1
<1>5. CollectMassivePorts = all
  BY DEF CollectMassivePorts, PortOrder
<1>6. \A j \in 1..NOpen : back[j] = NTerminals + j
  OBVIOUS
<1> HIDE DEF front, back, c
<1>7. /\ all \in Seq(Nat) /\ Len(all) = c + NOpen
      /\ \A p \in 1..(c + NOpen) : all[p] = IF p <= c THEN front[p] ELSE back[p - c]
  BY <1>2, <1>3, <1>4, ConcatProperties
<1> HIDE DEF all
<1>8. DOMAIN all = 1..(c + NOpen)
  BY <1>7
<1>9. ASSUME NEW t \in massive
      PROVE  PortIndex(t) \in DOMAIN all /\ all[PortIndex(t)] = t
  <2>1. PortIndex(t) \in 1..c /\ front[PortIndex(t)] = t
    BY <1>4 DEF PortIndex
  <2>2. PortIndex(t) \in 1..(c + NOpen) /\ PortIndex(t) <= c
    BY <1>1, <1>2, <2>1
  <2> QED
    BY <1>7, <1>8, <2>1, <2>2
<1>10. ASSUME NEW p \in DOMAIN all PROVE all[p] \in massive \cup OpenRegions
  <2>1. CASE p <= c
    BY <1>2, <1>4, <1>7, <1>8, <2>1
  <2>2. CASE ~(p <= c)
    <3>1. p \in 1..(c + NOpen) /\ p - c \in 1..NOpen
      BY <1>1, <1>2, <1>8, <2>2
    <3>2. all[p] = NTerminals + (p - c)
      BY <1>6, <1>7, <2>2, <3>1
    <3> QED
      BY <1>1, <3>1, <3>2 DEF OpenRegions
  <2> QED
    BY <2>1, <2>2
<1>11. ASSUME NEW n \in OpenRegions PROVE \E p \in DOMAIN all : all[p] = n
  <2> DEFINE j == n - NTerminals
  <2>1. j \in 1..NOpen /\ n = NTerminals + j
    BY <1>1 DEF OpenRegions
  <2>2. c + j \in 1..(c + NOpen) /\ ~(c + j <= c) /\ (c + j) - c = j
    BY <1>1, <1>2, <2>1
  <2> HIDE DEF j
  <2>3. all[c + j] = n
    BY <1>6, <1>7, <2>1, <2>2
  <2> QED
    BY <1>8, <2>2, <2>3
<1> QED
  BY <1>5, <1>9, <1>10, <1>11

\* The loss recovery's table pairs each port's region with its own voltage.
LEMMA DriveTableIsDiagonal ==
  ASSUME massive \subseteq Terminals
  PROVE  DriveTable(CollectMassivePorts) = {<<n, n>> : n \in massive \cup OpenRegions}
<1> DEFINE q == CollectMassivePorts
<1>1. \A p \in DOMAIN q : q[p] \in massive \cup OpenRegions
  BY PortNumbering
<1>2. \A n \in massive \cup OpenRegions : \E p \in DOMAIN q : q[p] = n
  BY PortNumbering
<1>3. DriveTable(q) = {<<q[p], q[p]>> : p \in DOMAIN q}
  BY DEF DriveTable
<1> HIDE DEF q
<1> QED
  BY <1>1, <1>2, <1>3, Zenon DEF q

\* A complete column: each terminal's own reading, on the current mesh.
OwnColumn ==
  {[row |-> t, of |-> t, mesh |-> sequence, omega |-> omega] : t \in Terminals}

\* What is read from a solution, and how far a scenario is from having been read.
ReadsOwn ==
  /\ phase = "imprinted" => column = {}
  /\ phase = "solved" =>
       /\ port_values # {} /\ \A v \in port_values : v.mesh = sequence
       /\ \A x \in answer : x.applied = System(sequence, omega)
       /\ column = {} \/ column = OwnColumn
  /\ DrivesReachOwnPort
  /\ LossesUseOwnVoltage

\* One entry per terminal.
LEMMA OwnColumnSize == Cardinality(OwnColumn) = NTerminals
<1> DEFINE r(t) == [row |-> t, of |-> t, mesh |-> sequence, omega |-> omega]
           f == [t \in Terminals |-> r(t)]
<1>1. \A t \in Terminals : r(t) \in OwnColumn
  BY DEF OwnColumn
<1>2. \A x \in OwnColumn : \E t \in Terminals : x = r(t)
  BY DEF OwnColumn
<1>3. \A t, u \in Terminals : r(t) = r(u) => t = u
  <2>1. \A t : r(t).row = t
    OBVIOUS
  <2> HIDE DEF r
  <2> QED
    BY <2>1
<1> HIDE DEF r
<1>4. f \in Bijection(Terminals, OwnColumn)
  BY <1>1, <1>2, <1>3 DEF Bijection, Injection, Surjection, IsInjective
<1>5. IsFiniteSet(Terminals) /\ Cardinality(Terminals) = NTerminals
  BY FS_Interval, TerminalsAssumption DEF Terminals
<1>6. ExistsBijection(Terminals, OwnColumn)
  BY <1>4 DEF ExistsBijection
<1> QED
  BY <1>5, <1>6, FS_Bijection

\* The numbering of the ports stands on the configuration alone.
LEMMA NumberingIsFixed ==
  ASSUME UNCHANGED massive
  PROVE  CollectMassivePorts' = CollectMassivePorts
BY DEF CollectMassivePorts

\* The three properties follow.
LEMMA ReadsImplyPorts == IInv /\ ReadsOwn => PortsMatchTerminals
<1> SUFFICES ASSUME ReadsOwn, phase = "solved", column # {}
             PROVE  ColumnReadsOwnTerminal
  BY DEF IInv, ReadsOwn, PortsMatchTerminals, ColumnReadsOwnTerminal
<1>1. column = OwnColumn /\ \A x \in answer : x.applied = System(sequence, omega)
  BY DEF ReadsOwn
<1>2. \A c \in OwnColumn : c.of = c.row /\ c.mesh = sequence /\ c.omega = omega
  BY DEF OwnColumn
<1>3. \A t \in Terminals : \E c \in OwnColumn : c.row = t
  <2> SUFFICES ASSUME NEW t \in Terminals PROVE \E c \in OwnColumn : c.row = t
    OBVIOUS
  <2> DEFINE c == [row |-> t, of |-> t, mesh |-> sequence, omega |-> omega]
  <2>1. c \in OwnColumn /\ c.row = t
    BY DEF OwnColumn
  <2> QED
    BY <2>1
<1>4. \A x \in answer : x.applied.mass = omega
  BY <1>1 DEF System
<1> QED
  BY <1>1, <1>2, <1>3, <1>4, OwnColumnSize DEF ColumnReadsOwnTerminal

LEMMA InitReads == OpInit => ReadsOwn
BY DEF OpInit, ReadsOwn, DrivesReachOwnPort, LossesUseOwnVoltage

\* A step away from a scenario, or one that fails.
LEMMA LeavingReads ==
  ASSUME ReadsOwn, UNCHANGED <<massive, losses>>, phase' \notin {"imprinted", "solved"}
  PROVE  ReadsOwn'
BY DEF ReadsOwn, DrivesReachOwnPort, LossesUseOwnVoltage

\* A step that reads nothing new of a solution.
LEMMA FrameReads ==
  ASSUME ReadsOwn,
         UNCHANGED <<massive, phase, sequence, omega, port_operator, b_combined, answer,
                     port_values, column, losses>>
  PROVE  ReadsOwn'
<1>1. OwnColumn' = OwnColumn /\ System(sequence, omega)' = System(sequence, omega)
  BY DEF OwnColumn, System
<1> QED
  BY <1>1 DEF ReadsOwn, DrivesReachOwnPort, LossesUseOwnVoltage

\* The right-hand side loop counts as the operator's assembly numbered.
LEMMA ImprintReads ==
  ASSUME IInv, IInv', ReadsOwn,
         NEW f \in Frequencies, NEW driven \in SUBSET Terminals,
         NEW background \in BOOLEAN, ImprintScenario(f, driven, background)
  PROVE  ReadsOwn'
<1>1. massive \subseteq Terminals /\ CollectMassivePorts' = CollectMassivePorts
  BY NumberingIsFixed DEF IInv, OpTypeOK, ImprintScenario, config
<1>2. \A o \in port_operator' : o.ports = CollectMassivePorts
  BY <1>1 DEF IInv, OpTypeOK, PortOrders
<1>3. \A b \in b_combined' : b.ports = PortDrives(driven)
  BY DEF ImprintScenario
<1>4. \A d \in PortDrives(driven) :
        d[1] \in DOMAIN CollectMassivePorts /\ CollectMassivePorts[d[1]] = d[2]
  <2> SUFFICES ASSUME NEW t \in driven \cap massive
               PROVE  /\ <<PortIndex(t), t>>[1] \in DOMAIN CollectMassivePorts
                      /\ CollectMassivePorts[<<PortIndex(t), t>>[1]] = <<PortIndex(t), t>>[2]
    BY DEF PortDrives
  <2> QED
    BY <1>1, PortNumbering
<1>5. DrivesReachOwnPort'
  BY <1>2, <1>3, <1>4 DEF DrivesReachOwnPort
<1> QED
  BY <1>5 DEF ReadsOwn, ImprintScenario, LossesUseOwnVoltage

\* A solve reads nothing yet; its port values are the operator's.
LEMMA SolveReads ==
  ASSUME IInv, ReadsOwn, SolveSystem
  PROVE  ReadsOwn'
<1>1. /\ phase = "imprinted" /\ phase' = "solved"
      /\ UNCHANGED <<massive, sequence, omega, port_operator, column, losses>>
  BY DEF SolveSystem, config, operators
<1>2. /\ port_operator # {}
      /\ \A o \in port_operator : o.mesh = sequence /\ Applied(o) = System(sequence, omega)
  BY <1>1 DEF IInv, Fresh, Live, Assembled, System
<1>3. System(sequence, omega)' = System(sequence, omega)
  BY <1>1 DEF System
<1>4. \A x \in answer' : x.applied = System(sequence, omega)
  BY <1>2 DEF SolveSystem
<1>5. port_values' # {} /\ \A v \in port_values' : v.mesh = sequence
  <2> DEFINE v(o) == [mesh |-> o.mesh, ports |-> o.ports]
  <2>1. port_values' = {v(o) : o \in port_operator}
    BY DEF SolveSystem
  <2>2. \A o : v(o).mesh = o.mesh
    OBVIOUS
  <2> HIDE DEF v
  <2> QED
    BY <1>2, <2>1, <2>2
<1>6. column' = {}
  BY <1>1 DEF ReadsOwn
<1> QED
  BY <1>1, <1>3, <1>4, <1>5, <1>6 DEF ReadsOwn, DrivesReachOwnPort, LossesUseOwnVoltage

\* A winding functional is at hand for every stranded terminal, found or assembled.
LEMMA WindingsAreFound ==
  ASSUME IInv, phase = "solved", AssembleWindings(Terminals \ massive)
  PROVE  \A t \in Terminals \ massive :
           \E e \in winding_functionals' : e.terminal = t
<1> DEFINE T == Terminals \ massive
           missing == T \ Found(Kept(winding_functionals))
<1> SUFFICES ASSUME NEW t \in T PROVE \E e \in winding_functionals' : e.terminal = t
  OBVIOUS
<1>1. winding_functionals' = Kept(winding_functionals) \cup WindingsFor(missing)
  BY DEF AssembleWindings
<1>2. CASE t \notin missing
  BY <1>1, <1>2 DEF Found
<1>3. CASE t \in missing
  <2>1. PICK s \in fespace : TRUE
    BY DEF IInv, Fresh, Live
  <2>2. \E e \in AreasWith(missing) : e.terminal = t
    <3>1. CASE t \in Found(Kept(terminal_areas))
      BY <3>1 DEF Found, AreasWith
    <3>2. CASE t \notin Found(Kept(terminal_areas))
      <4>1. [terminal |-> t, mesh |-> s.mesh] \in AreasWith(missing)
        BY <1>3, <2>1, <3>2 DEF AreasWith
      <4> QED
        BY <4>1
    <3> QED
      BY <3>1, <3>2
  <2>3. PICK e \in AreasWith(missing) : e.terminal = t
    BY <2>2
  <2> DEFINE w == [terminal |-> e.terminal, mesh |-> s.mesh, area |-> e.mesh]
  <2>4. w \in WindingsFor(missing)
    BY <1>3, <2>1, <2>3 DEF WindingsFor
  <2>5. w.terminal = t
    BY <2>3
  <2> QED
    BY <1>1, <2>4, <2>5
<1> QED
  BY <1>2, <1>3

\* A gathered column is complete: a massive row is read under the running counter, a
\* stranded one through the terminal's own functional.
LEMMA GatheredColumn ==
  ASSUME IInv, IInv', ReadsOwn, GatherCouplingColumn
  PROVE  column' = OwnColumn /\ OwnColumn' = OwnColumn
<1>1. /\ phase = "solved" /\ massive \subseteq Terminals
      /\ UNCHANGED <<massive, phase, sequence, omega, port_operator, b_combined, answer,
                     port_values, losses>>
  BY DEF GatherCouplingColumn, config, operators, IInv, OpTypeOK
<1>2. \A v \in port_values : v.mesh = sequence /\ v.ports = CollectMassivePorts
  BY <1>1 DEF ReadsOwn, IInv, OpTypeOK, PortOrders
<1>3. port_values # {}
  BY <1>1 DEF ReadsOwn
<1> DEFINE r(t) == [row |-> t, of |-> t, mesh |-> sequence, omega |-> omega]
           ported == {[row |-> t, of |-> v.ports[PortIndex(t)], mesh |-> v.mesh,
                       omega |-> omega] : t \in massive, v \in port_values}
           stranded == {e \in winding_functionals' : e.terminal \notin massive}
           wound == {[row |-> e.terminal, of |-> e.terminal, mesh |-> e.mesh,
                      omega |-> omega] : e \in stranded}
<1>4. column' = ported \cup wound
  BY DEF GatherCouplingColumn
<1>5. ported = {r(t) : t \in massive}
  <2>1. \A t \in massive : CollectMassivePorts[PortIndex(t)] = t
    BY <1>1, PortNumbering
  <2>2. ASSUME NEW t \in massive, NEW v \in port_values
        PROVE  [row |-> t, of |-> v.ports[PortIndex(t)], mesh |-> v.mesh,
                omega |-> omega] = r(t)
    BY <1>2, <2>1
  <2> HIDE DEF r
  <2> QED
    BY <1>3, <2>2
<1>6. \A e \in stranded : e.mesh = sequence /\ e.terminal \in Terminals \ massive
  <2>1. winding_functionals' \subseteq [terminal : Terminals, mesh : Meshes, area : Meshes]
    BY DEF IInv, OpTypeOK
  <2>2. ASSUME Terminals \ massive # {}
        PROVE  \A e \in winding_functionals' : e.mesh = sequence
    <3>1. cached_sequence' = sequence
      BY <2>2 DEF GatherCouplingColumn, AssembleWindings
    <3> QED
      BY <3>1 DEF IInv, CachesStamped
  <2> QED
    BY <2>1, <2>2
<1>7. \A t \in Terminals \ massive : \E e \in stranded : e.terminal = t
  BY <1>1, WindingsAreFound DEF GatherCouplingColumn
<1>8. wound = {r(t) : t \in Terminals \ massive}
  <2>1. ASSUME NEW e \in stranded
        PROVE  [row |-> e.terminal, of |-> e.terminal, mesh |-> e.mesh, omega |-> omega]
                 = r(e.terminal)
    BY <1>6
  <2> HIDE DEF r, stranded
  <2>2. wound = {r(e.terminal) : e \in stranded}
    BY <2>1
  <2> QED
    BY <1>6, <1>7, <2>2
<1>9. OwnColumn = {r(t) : t \in Terminals}
  BY DEF OwnColumn
<1>10. OwnColumn' = OwnColumn
  BY <1>1 DEF OwnColumn
<1> HIDE DEF r, ported, wound
<1> QED
  BY <1>1, <1>4, <1>5, <1>8, <1>9, <1>10

LEMMA GatherReads ==
  ASSUME IInv, IInv', ReadsOwn, GatherCouplingColumn
  PROVE  ReadsOwn'
<1>1. /\ phase = "solved"
      /\ UNCHANGED <<massive, phase, sequence, omega, port_operator, b_combined, answer,
                     port_values, losses>>
  BY DEF GatherCouplingColumn, config, operators
<1>2. column' = OwnColumn'
  BY GatheredColumn
<1>3. System(sequence, omega)' = System(sequence, omega)
  BY <1>1 DEF System
<1> QED
  BY <1>1, <1>2, <1>3 DEF ReadsOwn, DrivesReachOwnPort, LossesUseOwnVoltage

\* The loss recovery writes the operator's table.
LEMMA LossesRead ==
  ASSUME IInv, ReadsOwn, ComputeRegionLosses
  PROVE  ReadsOwn'
<1>1. /\ phase = "solved" /\ massive \subseteq Terminals
      /\ UNCHANGED <<massive, phase, sequence, omega, port_operator, b_combined, answer,
                     port_values, column>>
  BY DEF ComputeRegionLosses, config, operators, IInv, OpTypeOK
<1>2. \A v \in port_values : v.ports = CollectMassivePorts
  BY DEF IInv, OpTypeOK, PortOrders
<1>3. \A l \in losses' : l.drive = {<<n, n>> : n \in massive \cup OpenRegions}
  <2>1. DriveTable(CollectMassivePorts) = {<<n, n>> : n \in massive \cup OpenRegions}
    BY <1>1, DriveTableIsDiagonal
  <2> QED
    BY <1>2, <2>1 DEF ComputeRegionLosses
<1>4. LossesUseOwnVoltage'
  BY <1>1, <1>3 DEF LossesUseOwnVoltage, OpenRegions
<1>5. OwnColumn' = OwnColumn /\ System(sequence, omega)' = System(sequence, omega)
  BY <1>1 DEF OwnColumn, System
<1> QED
  BY <1>1, <1>4, <1>5 DEF ReadsOwn, DrivesReachOwnPort

\* One step of the solver, or a stutter, reads every terminal's own.
LEMMA NextReads == IInv /\ IInv' /\ ReadsOwn /\ [OpNext]_opvars => ReadsOwn'
<1> SUFFICES ASSUME IInv, IInv', ReadsOwn, [OpNext]_opvars PROVE ReadsOwn'
  OBVIOUS
<1>1. CASE Rebuild \/ \E f \in Frequencies : Setup(f)
  BY <1>1, LeavingReads DEF Setup, Rebuild, BuildOperators, config
<1>2. CASE \E w : BuildFails(w)
  BY <1>2, LeavingReads DEF BuildFails, config, results
<1>3. CASE RefineConforming \/ RefineFails
  BY <1>3, LeavingReads DEF RefineConforming, RefineFails, config, results
<1>4. CASE \E f \in Frequencies, driven \in SUBSET Terminals, background \in BOOLEAN :
             ImprintScenario(f, driven, background)
  BY <1>4, ImprintReads
<1>5. CASE SolveSystem
  BY <1>5, SolveReads
<1>6. CASE FactorFails \/ KrylovFails
  BY <1>6, LeavingReads DEF FactorFails, KrylovFails, config, results
<1>7. CASE EstimateCurrentSolutionError
  BY <1>7, FrameReads DEF EstimateCurrentSolutionError, config, operators, results
<1>8. CASE GatherCouplingColumn
  BY <1>8, GatherReads
<1>9. CASE ComputeRegionLosses
  BY <1>9, LossesRead
<1>10. CASE UNCHANGED opvars
  BY <1>10, FrameReads DEF opvars, config, operators, results
<1> QED
  BY <1>1, <1>2, <1>3, <1>4, <1>5, <1>6, <1>7, <1>8, <1>9, <1>10 DEF OpNext

\* For any number of massive, stranded and open conductors in any order, the currents
\* ImprintScenario imposes, the rows GatherCouplingColumn reads and the voltages the
\* loss recovery writes are those of the conductor's own port or winding, and every
\* variable has its type.
THEOREM PortsAreOwn == OpSpec => []PortsMatchTerminals
<1>1. IInv /\ ReadsOwn /\ [OpNext]_opvars => (IInv /\ ReadsOwn)'
  BY NextIInv, NextReads
<1> QED
  BY <1>1, InitIInv, InitReads, ReadsImplyPorts, PTL DEF OpSpec

-----------------------------------------------------------------------------
(* The run.                                                                *)

\* The phases of a pass, and those in which an item is under way.
InPass == pc \in {"column", "solve", "fold", "gather", "save"}
UnderWay == pc \in {"solve", "fold", "gather", "save"}

Configured ==
  /\ scenarios \in ScenarioLists /\ output \in OutputSets
  /\ adaptive \in BOOLEAN /\ coupling \in BOOLEAN /\ wants_fields \in BOOLEAN

\* Where the driver stands in the plan and the discrete system in its phases.
DriverInv ==
  /\ pc \in {"constructed", "ready", "begin", "column", "solve", "fold", "gather",
             "save", "refine", "rebuild", "ran", "saved", "failed"}
  /\ runs \in 0..MaxRuns
  /\ item \in 1..(Len(Plan) + 1)
  /\ UnderWay => item <= Len(Plan)
  /\ pc \in {"refine", "ran"} => item = Len(Plan) + 1
  /\ pc = "constructed" => phase = "constructed"
  /\ pc = "rebuild" => phase = "refined"

\* The terminals a load drives.
Drives(b) == {d[2] : d \in b.ports} \cup {e.terminal : e \in b.areas}

\* Whatever was solved last is of the mesh and the frequency of the moment, and of
\* the item's own drive as long as the item is under way.
SolvedInv ==
  phase = "solved" =>
    /\ answer # {}
    /\ \A x \in answer : /\ x.factors = System(sequence, omega)
                         /\ x.applied = System(sequence, omega)
                         /\ x.rhs.mesh = sequence /\ x.rhs.omega = omega
LoadInv ==
  /\ UnderWay => omega = Plan[item].Frequency
  /\ pc = "solve" => \A b \in b_combined : Drives(b) = Plan[item].driven
  /\ pc \in {"fold", "gather", "save"} =>
       phase = "solved" /\ \A x \in answer : Drives(x.rhs) = Plan[item].driven

Ans(plan, m, i) ==
  [item |-> i, meshes |-> {m}, frequencies |-> {plan[i].Frequency}, driven |-> plan[i].driven]

\* The first k answers of a plan on a mesh.
Answered(plan, m, k) == {Ans(plan, m, i) : i \in 1..k}

AnswerInv ==
  /\ pc \in {"begin", "rebuild"} => observed = {}
  /\ InPass => observed = Answered(Plan, sequence, IF pc = "save" THEN item ELSE item - 1)
  /\ pc = "refine" => observed = Answered(Plan, sequence, Len(Plan))

-----------------------------------------------------------------------------
(* The coupling series.                                                    *)

Points == [i \in 1..Cardinality(FrequencyPoints) |-> FrequencyPoint(i)]
Solves == Cardinality(FrequencyPoints) * NTerminals
Quot == (item - 1) \div NTerminals
Rem == (item - 1) % NTerminals

\* The column of terminal t at a frequency, each row read from the row's own.
Rows(w, m) == {[row |-> t, of |-> t, mesh |-> m, omega |-> w] : t \in Terminals}
Column(w, m, t) == [driven |-> t, rows |-> Rows(w, m)]
ColumnsAt(m) ==
  [i \in 1..Cardinality(FrequencyPoints) |-> [t \in Terminals |-> Column(Points[i], m, t)]]

\* The points that are open, and the columns of the last one.
Opened == IF pc \in {"column", "ran"} /\ Rem = 0 THEN Quot ELSE Quot + 1
Gathered == IF pc = "save" THEN Rem + 1 ELSE Rem

\* The first points, of which the first q are complete, with n columns, and the others
\* have m columns.
Series(point, col, n, opened, q, m) ==
  [i \in 1..opened |->
     [Frequency |-> point[i],
      columns |-> {col[i][t] : t \in 1..(IF i <= q THEN n ELSE m)}]]

\* A coupling pass has gathered a column per item, at the point of the item, and
\* factored at most once per open point.
SeriesInv ==
  coupling /\ (InPass \/ pc = "ran") =>
    /\ coupling_results = Series(Points, ColumnsAt(sequence), NTerminals, Opened, Quot, Gathered)
    /\ Opened > 0 => omega = Points[Opened]
    /\ factorizations <= Opened
    /\ pc = "solve" /\ ~CacheHit => factorizations < Opened
    /\ pc # "solve" /\ Opened > 0 => CacheHit

\* What a pass leaves behind stays within the points.
CountInv ==
  /\ factorizations \in Nat
  /\ ~coupling => coupling_results = <<>>
PointsInv ==
  coupling => /\ Len(coupling_results) <= Cardinality(FrequencyPoints)
              /\ factorizations <= Cardinality(FrequencyPoints)

-----------------------------------------------------------------------------
(* The records of the passes.                                              *)

\* Each indicator's weight among n.
IsMean(w, n, m) == w.mesh = m /\ w.num * n = w.den

ErrorInv ==
  /\ ~adaptive => amr_error_samples = 0
  /\ amr_error_samples \in 0..Len(Plan)
  /\ error_weights \in Seq([mesh : Nat, num : Nat, den : Nat])
  /\ Len(error_weights) = amr_error_samples
  /\ adaptive /\ InPass =>
       /\ amr_error_samples = IF pc \in {"gather", "save"} THEN item ELSE item - 1
       /\ \A i \in 1..amr_error_samples : IsMean(error_weights[i], amr_error_samples, sequence)
  /\ factorizations \in 0..Len(Plan)
  /\ InPass => factorizations <= IF pc \in {"column", "solve"} THEN item - 1 ELSE item

Bound == IF MaxIterations = 0 THEN 1 ELSE MaxIterations

HistoryInv ==
  /\ iteration \in 0..MaxIterations
  /\ amr_history \in Seq([mesh : Nat, true_dofs : Nat]) /\ Len(amr_history) <= Bound
  /\ \A i, j \in DOMAIN amr_history : i < j => amr_history[i].mesh < amr_history[j].mesh
  /\ ~adaptive => amr_history = <<>> /\ pc \notin {"refine", "rebuild"}
  /\ adaptive /\ (InPass \/ pc = "begin") =>
       /\ Len(amr_history) = iteration /\ iteration < Bound
       /\ \A i \in DOMAIN amr_history : amr_history[i].mesh < sequence
  /\ adaptive /\ pc \in {"refine", "rebuild", "ran"} => Len(amr_history) = iteration + 1
  /\ adaptive /\ pc \in {"refine", "ran"} =>
       /\ amr_history[Len(amr_history)].mesh = sequence
       /\ \A i \in DOMAIN amr_history : amr_history[i].mesh <= sequence
  /\ pc = "rebuild" => \A i \in DOMAIN amr_history : amr_history[i].mesh < sequence
  /\ pc \in {"refine", "rebuild"} => iteration + 1 < MaxIterations

-----------------------------------------------------------------------------
(* What is published.                                                      *)

Published == IF wants_fields THEN item - 1 ELSE 0

ArchivedScenario(plan, m, k) ==
  [id |-> k - 1, name |-> plan[k].name, fields |-> m, probes |-> {m}]
ArchiveOf(plan, m, n) ==
  [mesh |-> m, scenarios |-> [k \in 1..n |-> ArchivedScenario(plan, m, k)], coupling |-> FALSE]

\* The writer and the archive follow the items.
WriterInv ==
  InPass \/ pc = "ran" =>
    /\ writer = "pass" /\ probes = {sequence} /\ next_scenario = Published
    /\ "hdf5" \in output => archive = {ArchiveOf(Plan, sequence, Published)}

FileFormats == output \ {"hdf5"}

\* A file's path is that of an item of the plan, so that a pass replaces the files
\* of the one before item by item.
FilesInv ==
  pc # "failed" =>
    /\ ~wants_fields => files = {}
    /\ \A f \in files : /\ f.format \in FileFormats /\ f.id \in 0..(Len(Plan) - 1)
                        /\ f.label = Label[Plan[f.id + 1].name]
    /\ \A f, g \in files : f.format = g.format /\ f.id = g.id => f = g
    /\ InPass \/ pc = "ran" =>
         /\ \A f \in files : f.id < item - 1 => f.fields = sequence /\ f.block = sequence
         /\ wants_fields => \A t \in FileFormats, i \in 0..(item - 2) :
                              \E f \in files : f.format = t /\ f.id = i
-----------------------------------------------------------------------------
(* Every step leaves the configuration alone.                              *)

settings == <<scenarios, adaptive, coupling, wants_fields, output, max_dofs>>

LEMMA SettingsKept == ASSUME [Next]_vars PROVE UNCHANGED settings
<1> USE DEF settings
<1>1. CASE RunSetup \/ SetupFails
  BY <1>1 DEF RunSetup, SetupFails, wrest, driver
<1>2. CASE Run
  BY <1>2 DEF Run, W!Construct, W!settings
<1>3. CASE BeginPass \/ BeginPassFails
  BY <1>3 DEF BeginPass, BeginPassFails, W!BeginMesh, W!BeginMeshFails, W!settings, driver
<1>4. CASE Imprint \/ Solve \/ SolveFails \/ AccumulateScenarioError \/ Gather
  BY <1>4 DEF Imprint, Solve, SolveFails, AccumulateScenarioError, Gather, wrest, driver
<1>5. CASE SaveScenario \/ SaveFails
  BY <1>5 DEF SaveScenario, SaveFails, W!WriteScenario, W!WriteFails, W!settings, driver
<1>6. CASE EndSinglePass \/ EndAdaptivePass
  BY <1>6 DEF EndSinglePass, EndAdaptivePass, wrest, driver
<1>7. CASE RefineMesh \/ RefineMeshFails \/ RebuildOperators \/ RebuildFails
  BY <1>7 DEF RefineMesh, RefineMeshFails, RebuildOperators, RebuildFails, wrest, driver
<1>8. CASE SaveAnalysis
  BY <1>8 DEF SaveAnalysis, W!SaveAnalysis, W!settings, driver
<1>9. CASE UNCHANGED vars
  BY <1>9 DEF vars, wrest, driver
<1> QED BY <1>1, <1>2, <1>3, <1>4, <1>5, <1>6, <1>7, <1>8, <1>9 DEF Next, Step

\* The plan is one of the configuration.
LEMMA PlanKept ==
  ASSUME [Next]_vars
  PROVE  Plan' = Plan /\ FrequencyPoints' = FrequencyPoints /\ Points' = Points
<1>1. scenarios' = scenarios /\ coupling' = coupling
  BY SettingsKept DEF settings
<1>2. FrequencyPoints' = FrequencyPoints
  BY <1>1 DEF FrequencyPoints
<1>3. \A i : FrequencyPoint(i)' = FrequencyPoint(i)
  BY <1>2 DEF FrequencyPoint
<1>4. CouplingPlan' = CouplingPlan /\ FieldPlan' = FieldPlan
  BY <1>1, <1>2 DEF CouplingPlan, FieldPlan, FrequencyPoint, PointName
<1> QED BY <1>1, <1>2, <1>4 DEF Plan, Points, FrequencyPoint

-----------------------------------------------------------------------------
(* The plan of a pass.                                                     *)

\* The scenarios are a list, not empty, at finitely many positive frequencies.
LEMMA ScenariosOfRun ==
  ASSUME Configured
  PROVE  /\ Len(scenarios) \in Nat \ {0} /\ DOMAIN scenarios = 1..Len(scenarios)
         /\ \A i \in 1..Len(scenarios) : /\ scenarios[i].Frequency \in FrequencyPoints
                                         /\ scenarios[i].driven \subseteq Terminals
         /\ FrequencyPoints \subseteq Frequencies /\ FrequencyPoints \in SUBSET (Nat \ {0})
         /\ IsFiniteSet(FrequencyPoints) /\ Cardinality(FrequencyPoints) \in Nat
         /\ NTerminals \in Nat \ {0}
<1> DEFINE R == [name : STRING, Frequency : Frequencies, driven : SUBSET Terminals]
           L == Len(scenarios)
           f == [i \in 1..L |-> scenarios[i].Frequency]
<1>1. scenarios \in Seq(R) /\ scenarios # <<>>
  BY RunAssumption DEF Configured
<1>2. L \in Nat /\ DOMAIN scenarios = 1..L /\ L # 0 /\ \A i \in 1..L : scenarios[i] \in R
  <2> HIDE DEF R
  <2>1. L \in Nat /\ DOMAIN scenarios = 1..L /\ \A i \in 1..L : scenarios[i] \in R
    BY <1>1
  <2>2. L # 0
    BY <1>1, <2>1
  <2> QED BY <2>1, <2>2
<1>3. FrequencyPoints = {f[i] : i \in 1..L}
  BY <1>2 DEF FrequencyPoints
<1>4. f \in Surjection(1..L, FrequencyPoints)
  BY <1>3 DEF Surjection
<1>5. IsFiniteSet(1..L)
  BY <1>2, FS_Interval
<1>6. IsFiniteSet(FrequencyPoints) /\ Cardinality(FrequencyPoints) \in Nat
  BY <1>4, <1>5, FS_Surjection, FS_CardinalityType
<1>7. \A i \in 1..L : f[i] \in Frequencies
  BY <1>2
<1>8. FrequencyPoints \subseteq Frequencies
  BY <1>3, <1>7
<1> QED
  BY <1>2, <1>3, <1>6, <1>8, FrequenciesAssumption, TerminalsAssumption, RunAssumption

\* The points of a coupling analysis are the frequencies of the scenarios, ascending.
LEMMA PointsAscend ==
  ASSUME Configured
  PROVE  /\ \A i \in 1..Cardinality(FrequencyPoints) : Points[i] \in FrequencyPoints
         /\ \A i, j \in 1..Cardinality(FrequencyPoints) : i < j => Points[i] < Points[j]
         /\ \A f \in FrequencyPoints : \E i \in 1..Cardinality(FrequencyPoints) : Points[i] = f
<1>1. FrequencyPoints \in SUBSET Nat /\ IsFiniteSet(FrequencyPoints)
  BY ScenariosOfRun
<1>2. \A i \in 1..Cardinality(FrequencyPoints) :
        Points[i] = CHOOSE f \in FrequencyPoints : Cardinality(Below(FrequencyPoints, f)) = i - 1
  BY DEF Points, FrequencyPoint, Below
<1> QED BY <1>1, <1>2, ByRank

\* Item i of a coupling plan drives one terminal at one point.
LEMMA CouplingItems ==
  ASSUME Configured, coupling
  PROVE  /\ Solves \in Nat /\ Len(Plan) = Solves /\ DOMAIN Plan = 1..Solves
         /\ \A i \in 1..Solves :
              /\ ((i - 1) \div NTerminals) + 1 \in 1..Cardinality(FrequencyPoints)
              /\ ((i - 1) % NTerminals) + 1 \in Terminals
              /\ Plan[i].Frequency = Points[((i - 1) \div NTerminals) + 1]
              /\ Plan[i].driven = {((i - 1) % NTerminals) + 1}
<1> DEFINE c == Cardinality(FrequencyPoints)
           e(k) == LET f == FrequencyPoint(((k - 1) \div NTerminals) + 1)
                       t == ((k - 1) % NTerminals) + 1
                   IN [name |-> <<PointName(f), t>>, Frequency |-> f, driven |-> {t}]
<1>1. c \in Nat /\ NTerminals \in Nat \ {0}
  BY ScenariosOfRun
<1>2. Solves \in Nat
  BY <1>1, SMT DEF Solves
<1>3. Plan = [k \in 1..Solves |-> e(k)]
  BY DEF Plan, CouplingPlan, Solves
<1>4. Len(Plan) = Solves /\ DOMAIN Plan = 1..Solves
  <2> HIDE DEF e
  <2> QED BY <1>2, <1>3
<1>5. ASSUME NEW i \in 1..Solves
      PROVE  /\ ((i - 1) \div NTerminals) + 1 \in 1..c
             /\ ((i - 1) % NTerminals) + 1 \in Terminals
             /\ Plan[i].Frequency = Points[((i - 1) \div NTerminals) + 1]
             /\ Plan[i].driven = {((i - 1) % NTerminals) + 1}
  <2>1. i - 1 \in Nat /\ i - 1 < c * NTerminals
    BY <1>2 DEF Solves
  <2>2. ((i - 1) \div NTerminals) + 1 \in 1..c
    <3> HIDE DEF c
    <3> QED BY <1>1, <2>1, Quotients
  <2>3. Plan[i] = e(i)
    <3> HIDE DEF e
    <3> QED BY <1>3
  <2>4. Points[((i - 1) \div NTerminals) + 1] = FrequencyPoint(((i - 1) \div NTerminals) + 1)
    BY <2>2 DEF Points
  <2>5. ((i - 1) % NTerminals) + 1 \in Terminals
    <3> DEFINE a == i - 1
    <3> HIDE DEF a
    <3>1. a % NTerminals \in 0..(NTerminals - 1)
      BY <1>1, <2>1, Division DEF a
    <3> QED BY <1>1, <3>1 DEF a, Terminals
  <2> QED BY <2>2, <2>3, <2>4, <2>5
<1> QED BY <1>2, <1>4, <1>5

\* The items of either plan drive terminals at a frequency of the scenarios.
LEMMA PlanItems ==
  ASSUME Configured
  PROVE  /\ Len(Plan) \in Nat /\ DOMAIN Plan = 1..Len(Plan)
         /\ \A i \in 1..Len(Plan) : /\ Plan[i].Frequency \in Frequencies
                                    /\ Plan[i].driven \in SUBSET Terminals
<1>1. CASE ~coupling
  <2> DEFINE e(k) == [name |-> <<scenarios[k].name, 0>>, Frequency |-> scenarios[k].Frequency,
                      driven |-> scenarios[k].driven]
             m == Len(scenarios)
  <2>1. m \in Nat /\ Plan = [k \in 1..m |-> e(k)]
    BY <1>1, ScenariosOfRun DEF Plan, FieldPlan
  <2>2. \A k \in 1..m : e(k).driven = scenarios[k].driven /\ e(k).Frequency = scenarios[k].Frequency
    OBVIOUS
  <2> HIDE DEF e
  <2>3. Len(Plan) = m /\ DOMAIN Plan = 1..m
    BY <2>1
  <2> QED BY <2>1, <2>2, <2>3, ScenariosOfRun
<1>2. CASE coupling
  <2>1. ASSUME NEW i \in 1..Solves
        PROVE  Plan[i].Frequency \in Frequencies /\ Plan[i].driven \in SUBSET Terminals
    <3>1. Points[((i - 1) \div NTerminals) + 1] \in Frequencies
      BY <1>2, CouplingItems, PointsAscend, ScenariosOfRun
    <3> QED BY <1>2, <3>1, CouplingItems
  <2> QED BY <1>2, <2>1, CouplingItems
<1> QED BY <1>1, <1>2
-----------------------------------------------------------------------------
(* The driver calls the discrete system as its client may.                  *)

\* Every step of a run is a step of the discrete system or leaves it alone.
LEMMA StepOfSystem ==
  ASSUME Configured, DriverInv, [Next]_vars
  PROVE  [OpNext]_opvars
<1>1. scenarios[1].Frequency \in Frequencies
  BY ScenariosOfRun
<1>2. CASE RunSetup \/ SetupFails
  BY <1>1, <1>2 DEF RunSetup, SetupFails, DriverInv, OpNext
<1>3. CASE Run \/ BeginPass \/ BeginPassFails \/ SaveScenario \/ SaveFails \/ EndSinglePass
           \/ EndAdaptivePass \/ SaveAnalysis \/ UNCHANGED vars
  BY <1>3 DEF Run, BeginPass, BeginPassFails, SaveScenario, SaveFails, EndSinglePass,
              EndAdaptivePass, SaveAnalysis, vars
<1>4. CASE Imprint
  <2>1. item \in 1..Len(Plan)
    BY <1>4, PlanItems DEF Imprint, DriverInv
  <2>2. Plan[item].Frequency \in Frequencies /\ Plan[item].driven \in SUBSET Terminals
    BY <2>1, PlanItems
  <2>3. (~coupling) \in BOOLEAN
    BY DEF Configured
  <2> QED BY <1>4, <2>2, <2>3 DEF Imprint, OpNext
<1>5. CASE Solve \/ SolveFails
  BY <1>5 DEF Solve, SolveFails, OpNext
<1>6. CASE AccumulateScenarioError \/ Gather
  BY <1>6 DEF AccumulateScenarioError, Gather, OpNext
<1>7. CASE RefineMesh \/ RefineMeshFails
  BY <1>7 DEF RefineMesh, RefineMeshFails, OpNext
<1>8. CASE RebuildOperators \/ RebuildFails
  BY <1>8 DEF RebuildOperators, RebuildFails, DriverInv, OpNext
<1> QED BY <1>2, <1>3, <1>4, <1>5, <1>6, <1>7, <1>8 DEF Next, Step

LEMMA DriverInitInv == Init => Configured /\ DriverInv
<1> SUFFICES ASSUME Init PROVE Configured /\ DriverInv
  OBVIOUS
<1>1. Configured
  BY DEF Init, Configured
<1>2. Len(Plan) \in Nat
  BY <1>1, PlanItems
<1> QED BY <1>1, <1>2, RunAssumption DEF Init, OpInit, DriverInv, UnderWay

\* The driver counts through the plan.
LEMMA DriverNextInv ==
  ASSUME Configured, DriverInv, [Next]_vars PROVE Configured' /\ DriverInv'
<1>1. Configured'
  BY SettingsKept DEF Configured, settings
<1> SUFFICES DriverInv'
  BY <1>1
<1>2. Plan' = Plan /\ Len(Plan) \in Nat
  BY PlanKept, PlanItems
<1>3. CASE RunSetup \/ SetupFails
  BY <1>2, <1>3 DEF RunSetup, SetupFails, DriverInv, UnderWay, driver
<1>4. CASE Run
  BY <1>2, <1>4, RunAssumption DEF Run, DriverInv, UnderWay
<1>5. CASE BeginPass \/ BeginPassFails
  BY <1>2, <1>5 DEF BeginPass, BeginPassFails, DriverInv, UnderWay, driver
<1>6. CASE Imprint \/ Solve \/ SolveFails \/ AccumulateScenarioError \/ Gather
  BY <1>2, <1>6
  DEF Imprint, Solve, SolveFails, AccumulateScenarioError, Gather, DriverInv, UnderWay, driver
<1>7. CASE SaveScenario \/ SaveFails
  BY <1>2, <1>7 DEF SaveScenario, SaveFails, DriverInv, UnderWay, driver
<1>8. CASE EndSinglePass \/ EndAdaptivePass
  BY <1>2, <1>8 DEF EndSinglePass, EndAdaptivePass, PassDone, DriverInv, UnderWay, driver
<1>9. CASE RefineMesh \/ RefineMeshFails \/ RebuildOperators \/ RebuildFails
  BY <1>2, <1>9
  DEF RefineMesh, RefineConforming, RefineMeshFails, RebuildOperators, RebuildFails,
      DriverInv, UnderWay, driver
<1>10. CASE SaveAnalysis
  BY <1>2, <1>10 DEF SaveAnalysis, DriverInv, UnderWay, driver
<1>11. CASE UNCHANGED vars
  BY <1>2, <1>11 DEF vars, opvars, DriverInv, UnderWay, driver
<1> QED
  BY <1>3, <1>4, <1>5, <1>6, <1>7, <1>8, <1>9, <1>10, <1>11 DEF Next, Step

\* What holds of the discrete system under any client holds in a run.
SystemInv == Configured /\ DriverInv /\ IInv /\ ReadsOwn

LEMMA SystemInitInv == Init => SystemInv
BY DriverInitInv, InitIInv, InitReads DEF Init, SystemInv

LEMMA SystemNextInv == SystemInv /\ [Next]_vars => SystemInv'
BY StepOfSystem, DriverNextInv, NextIInv, NextReads DEF SystemInv

\* In a run, too, no solve uses what is of another mesh or frequency.
THEOREM RunInvariance == Spec => []SystemInv
BY SystemInitInv, SystemNextInv, PTL DEF Spec
-----------------------------------------------------------------------------
(* What is solved and answered.                                            *)

\* Only a refinement changes the mesh.
LEMMA MeshKept ==
  ASSUME [Next]_vars
  PROVE  /\ ~RefineMesh /\ ~RefineMeshFails => sequence' = sequence
         /\ RefineMesh => sequence' = sequence + 1
         /\ RefineMeshFails => sequence' \in {sequence, sequence + 1}
<1>1. RefineMesh => sequence' = sequence + 1
  BY DEF RefineMesh, RefineConforming
<1>2. RefineMeshFails => sequence' \in {sequence, sequence + 1}
  BY DEF RefineMeshFails, RefineFails
<1>3. CASE RunSetup \/ SetupFails \/ RebuildOperators \/ RebuildFails
  BY <1>1, <1>2, <1>3
  DEF RunSetup, SetupFails, RebuildOperators, RebuildFails, Setup, Rebuild, BuildFails,
      BuildOperators
<1>4. CASE Run \/ BeginPass \/ BeginPassFails \/ SaveScenario \/ SaveFails \/ EndSinglePass
           \/ EndAdaptivePass \/ SaveAnalysis \/ UNCHANGED vars
  BY <1>1, <1>2, <1>4
  DEF Run, BeginPass, BeginPassFails, SaveScenario, SaveFails, EndSinglePass,
      EndAdaptivePass, SaveAnalysis, vars, opvars
<1>5. CASE Imprint \/ Solve \/ SolveFails
  BY <1>1, <1>2, <1>5
  DEF Imprint, Solve, SolveFails, ImprintScenario, SolveSystem, FactorFails, KrylovFails
<1>6. CASE AccumulateScenarioError \/ Gather
  BY <1>1, <1>2, <1>6
  DEF AccumulateScenarioError, Gather, EstimateCurrentSolutionError, GatherCouplingColumn,
      ComputeRegionLosses, opvars
<1> QED BY <1>1, <1>2, <1>3, <1>4, <1>5, <1>6 DEF Next, Step

\* An answer is one of the current system for the load that waits.
LEMMA AnswerOfSystem ==
  ASSUME IInv, SolveSystem
  PROVE  answer' = {[factors |-> System(sequence, omega), applied |-> System(sequence, omega),
                     rhs |-> b] : b \in b_combined}
<1> DEFINE now == System(sequence, omega)
<1>1. phase = "imprinted" /\ Live
  BY DEF SolveSystem, Live
<1>2. answer' = {[factors |-> now, applied |-> Applied(o), rhs |-> b] :
                    o \in port_operator, b \in b_combined}
  <2>1. CASE linear_solver = "Direct"
    BY <1>1, <2>1, EnsuredFactorsAreCurrent DEF SolveSystem
  <2>2. CASE linear_solver = "Iterative"
    BY <1>1, <2>2, EnsuredPreconditionerIsCurrent DEF SolveSystem
  <2> QED BY <2>1, <2>2 DEF SolveSystem
<1>3. port_operator # {} /\ \A o \in port_operator : Applied(o) = now
  BY <1>1 DEF IInv, Fresh
<1> HIDE DEF now
<1>4. answer' = {[factors |-> now, applied |-> now, rhs |-> b] : b \in b_combined}
  BY <1>2, <1>3
<1> QED BY <1>4 DEF now

\* Whatever the client does, what is solved is of the current mesh and frequency.
LEMMA SolvedNext ==
  ASSUME IInv, SolvedInv, [OpNext]_opvars PROVE SolvedInv'
<1>1. CASE SolveSystem
  <2> DEFINE x(b) == [factors |-> System(sequence, omega),
                      applied |-> System(sequence, omega), rhs |-> b]
  <2>1. /\ answer' = {x(b) : b \in b_combined}
        /\ sequence' = sequence /\ omega' = omega
    BY <1>1, AnswerOfSystem DEF SolveSystem, operators
  <2>2. b_combined # {} /\ \A b \in b_combined : b.mesh = sequence /\ b.omega = omega
    BY <1>1 DEF SolveSystem, IInv, Imprinted
  <2>3. \A b : /\ x(b).factors = System(sequence, omega)
               /\ x(b).applied = System(sequence, omega) /\ x(b).rhs = b
    OBVIOUS
  <2> HIDE DEF x
  <2>4. answer' # {} /\ \A y \in answer' : /\ y.factors = System(sequence, omega)
                                           /\ y.applied = System(sequence, omega)
                                           /\ y.rhs.mesh = sequence /\ y.rhs.omega = omega
    BY <2>1, <2>2, <2>3
  <2>5. System(sequence, omega)' = System(sequence, omega)
    BY <2>1 DEF System
  <2> QED BY <2>1, <2>4, <2>5 DEF SolvedInv
<1>2. ASSUME phase' = phase, answer' = answer, sequence' = sequence, omega' = omega
      PROVE  SolvedInv'
  <2>1. System(sequence, omega)' = System(sequence, omega)
    BY <1>2 DEF System
  <2> QED BY <1>2, <2>1 DEF SolvedInv
<1>3. CASE EstimateCurrentSolutionError \/ GatherCouplingColumn \/ ComputeRegionLosses
           \/ UNCHANGED opvars
  BY <1>2, <1>3
  DEF EstimateCurrentSolutionError, GatherCouplingColumn, ComputeRegionLosses, opvars,
      operators, results
<1>4. CASE phase' # "solved"
  BY <1>4 DEF SolvedInv
<1>5. (\/ Rebuild \/ RefineConforming \/ RefineFails \/ FactorFails \/ KrylovFails
       \/ \E w : Setup(w) \/ BuildFails(w)
       \/ \E f \in Frequencies, driven \in SUBSET Terminals, background \in BOOLEAN :
             ImprintScenario(f, driven, background)) => phase' # "solved"
  BY DEF Rebuild, RefineConforming, RefineFails, FactorFails, KrylovFails, Setup, BuildFails,
         BuildOperators, ImprintScenario
<1> QED BY <1>1, <1>3, <1>4, <1>5 DEF OpNext

\* The area of every terminal asked for is at hand.
LEMMA AreasAreFound ==
  ASSUME fespace # {}, NEW T, NEW t \in T
  PROVE  \E e \in AreasWith(T) : e.terminal = t
<1>1. CASE t \in Found(Kept(terminal_areas))
  BY <1>1 DEF Found, AreasWith
<1>2. CASE t \notin Found(Kept(terminal_areas))
  <2>1. PICK s \in fespace : TRUE
    OBVIOUS
  <2>2. [terminal |-> t, mesh |-> s.mesh] \in AreasWith(T)
    BY <1>2, <2>1 DEF AreasWith
  <2> QED BY <2>2
<1> QED BY <1>1, <1>2

\* A right-hand side drives what it is given: massive terminals through their ports,
\* the others through their areas.
LEMMA LoadDrivesAll ==
  ASSUME IInv, NEW f, NEW driven \in SUBSET Terminals, NEW background,
         ImprintScenario(f, driven, background)
  PROVE  \A b \in b_combined' : Drives(b) = driven
<1> DEFINE stranded == driven \ massive
           areas == {e \in AreasWith(stranded) : e.terminal \in stranded}
           ported == PortDrives(driven)
           v(s) == [mesh |-> s.mesh, omega |-> f, background |-> background,
                    areas |-> areas, ports |-> ported]
<1>1. fespace # {}
  BY DEF IInv, Fresh, Live, ImprintScenario
<1>2. b_combined' = {v(s) : s \in fespace}
  BY DEF ImprintScenario
<1>3. {d[2] : d \in ported} = driven \cap massive
  <2> DEFINE w(t) == <<PortIndex(t), t>>
  <2>1. ported = {w(t) : t \in driven \cap massive}
    BY DEF PortDrives
  <2>2. \A t : w(t)[2] = t
    OBVIOUS
  <2> HIDE DEF w, ported
  <2> QED BY <2>1, <2>2
<1>4. {e.terminal : e \in areas} = stranded
  <2>1. \A t \in stranded : \E e \in AreasWith(stranded) : e.terminal = t
    BY <1>1, AreasAreFound
  <2> HIDE DEF stranded
  <2> QED BY <2>1
<1>5. \A s : v(s).areas = areas /\ v(s).ports = ported
  OBVIOUS
<1> HIDE DEF v, areas, ported
<1>6. \A b \in b_combined' : b.areas = areas /\ b.ports = ported
  BY <1>2, <1>5
<1> QED BY <1>3, <1>4, <1>6 DEF Drives
\* The load of the item under way.
LEMMA LoadNext ==
  ASSUME SystemInv, LoadInv, [Next]_vars PROVE LoadInv'
<1>1. Plan' = Plan /\ Configured /\ IInv
  BY PlanKept DEF SystemInv
<1>2. CASE Imprint
  <2>1. pc = "column" /\ pc' = "solve" /\ item' = item /\ item \in 1..Len(Plan)
    BY <1>2, PlanItems DEF Imprint, SystemInv, DriverInv
  <2>2. Plan[item].driven \in SUBSET Terminals
    BY <1>1, <2>1, PlanItems
  <2>3. ImprintScenario(Plan[item].Frequency, Plan[item].driven, ~coupling)
    BY <1>2 DEF Imprint
  <2>4. omega' = Plan[item].Frequency
    BY <2>3 DEF ImprintScenario
  <2>5. \A b \in b_combined' : Drives(b) = Plan[item].driven
    BY <1>1, <2>2, <2>3, LoadDrivesAll
  <2> QED BY <1>1, <2>1, <2>4, <2>5 DEF LoadInv, UnderWay, Drives
<1>3. CASE Solve
  <2>1. /\ pc = "solve" /\ pc' = "fold" /\ item' = item /\ SolveSystem
        /\ omega' = omega /\ phase' = "solved"
    BY <1>3 DEF Solve, SolveSystem, operators
  <2>2. \A x \in answer' : x.rhs \in b_combined
    <3> DEFINE x(b) == [factors |-> System(sequence, omega),
                        applied |-> System(sequence, omega), rhs |-> b]
    <3>1. answer' = {x(b) : b \in b_combined}
      BY <1>1, <2>1, AnswerOfSystem
    <3>2. \A b : x(b).rhs = b
      OBVIOUS
    <3> HIDE DEF x
    <3> QED BY <3>1, <3>2
  <2>3. \A x \in answer' : Drives(x.rhs) = Plan[item].driven
    BY <2>1, <2>2 DEF LoadInv
  <2> QED BY <1>1, <2>1, <2>3 DEF LoadInv, UnderWay, Drives
<1>4. CASE AccumulateScenarioError
  <2>1. /\ pc = "fold" /\ pc' = "gather" /\ item' = item
        /\ omega' = omega /\ phase' = phase /\ answer' = answer
    BY <1>4 DEF AccumulateScenarioError, EstimateCurrentSolutionError, opvars, operators, results
  <2> QED BY <1>1, <2>1 DEF LoadInv, UnderWay, Drives
<1>5. CASE Gather
  <2>1. /\ pc = "gather" /\ pc' = "save" /\ item' = item
        /\ omega' = omega /\ phase' = phase /\ answer' = answer
    BY <1>5 DEF Gather, GatherCouplingColumn, ComputeRegionLosses, operators
  <2> QED BY <1>1, <2>1 DEF LoadInv, UnderWay, Drives
<1>6. CASE UNCHANGED vars
  <2>1. pc' = pc /\ item' = item /\ omega' = omega /\ phase' = phase /\ answer' = answer
        /\ b_combined' = b_combined
    BY <1>6 DEF vars, opvars, operators, results
  <2> QED BY <1>1, <2>1 DEF LoadInv, UnderWay, Drives
<1>7. CASE pc' \notin {"solve", "fold", "gather", "save"}
  BY <1>7 DEF LoadInv, UnderWay
<1>8. (\/ RunSetup \/ SetupFails \/ Run \/ BeginPass \/ BeginPassFails \/ SolveFails
       \/ SaveScenario \/ SaveFails \/ EndSinglePass \/ EndAdaptivePass \/ RefineMesh
       \/ RefineMeshFails \/ RebuildOperators \/ RebuildFails \/ SaveAnalysis)
         => pc' \notin {"solve", "fold", "gather", "save"}
  BY DEF RunSetup, SetupFails, Run, BeginPass, BeginPassFails, SolveFails, SaveScenario,
         SaveFails, EndSinglePass, EndAdaptivePass, RefineMesh, RefineMeshFails,
         RebuildOperators, RebuildFails, SaveAnalysis
<1> QED BY <1>2, <1>3, <1>4, <1>5, <1>6, <1>7, <1>8 DEF Next, Step

\* The first k answers of a plan are k.
LEMMA AnswersCounted ==
  ASSUME NEW plan, NEW m, NEW k \in Nat
  PROVE  Cardinality(Answered(plan, m, k)) = k
<1> DEFINE a == [i \in 1..k |-> Ans(plan, m, i)]
<1>1. \A i \in 1..k : a[i] = Ans(plan, m, i) /\ a[i].item = i
  BY DEF Ans
<1> HIDE DEF a
<1>2. Answered(plan, m, k) = {a[i] : i \in 1..k}
  BY <1>1 DEF Answered
<1>3. Cardinality({a[i] : i \in 1..k}) = k
  BY <1>1, NumberedCount
<1> QED BY <1>2, <1>3

LEMMA AnsweredNext ==
  ASSUME NEW plan, NEW m, NEW k \in Nat \ {0}
  PROVE  /\ Answered(plan, m, 0) = {}
         /\ Answered(plan, m, k) = Answered(plan, m, k - 1) \cup {Ans(plan, m, k)}
<1>1. 1..k = (1..(k - 1)) \cup {k} /\ 1..0 = {}
  OBVIOUS
<1> QED BY <1>1 DEF Answered

\* What Gather adds to what was read is the answer of the current item.
LEMMA GatherAnswers ==
  ASSUME SolvedInv, LoadInv, Gather
  PROVE  observed' = observed \cup {Ans(Plan, sequence, item)}
<1>1. pc = "gather" /\ phase = "solved" /\ omega = Plan[item].Frequency
  BY DEF Gather, LoadInv, UnderWay
<1>2. ASSUME NEW x \in answer PROVE Observed(x) = Ans(Plan, sequence, item)
  <2>1. /\ x.factors.mesh = sequence /\ x.factors.mass = omega
        /\ x.applied.mesh = sequence /\ x.applied.mass = omega /\ x.applied.corner = omega
        /\ x.rhs.mesh = sequence /\ x.rhs.omega = omega
    BY <1>1 DEF SolvedInv, System
  <2>2. {d[2] : d \in x.rhs.ports} \cup {e.terminal : e \in x.rhs.areas} = Plan[item].driven
    BY <1>1 DEF LoadInv, Drives
  <2> QED BY <1>1, <2>1, <2>2 DEF Observed, Ans
<1>3. answer # {}
  BY <1>1 DEF SolvedInv
<1>4. {Observed(x) : x \in answer} = {Ans(Plan, sequence, item)}
  BY <1>2, <1>3
<1> QED BY <1>4 DEF Gather

AnsweringInv == SolvedInv /\ LoadInv /\ AnswerInv
\* What was read is the answer of every item before the current one, the current one's
\* included once it is gathered.
LEMMA AnswerNext ==
  ASSUME SystemInv, SolvedInv, LoadInv, AnswerInv, [Next]_vars PROVE AnswerInv'
<1>1. Plan' = Plan /\ Len(Plan) \in Nat /\ item \in 1..(Len(Plan) + 1)
  BY PlanKept, PlanItems DEF SystemInv, DriverInv
<1>2. ASSUME ~RefineMesh, ~RefineMeshFails PROVE sequence' = sequence
  BY <1>2, MeshKept
<1> USE DEF InPass
<1>3. CASE Run \/ RefineMesh
  BY <1>3 DEF Run, RefineMesh, AnswerInv
<1>4. CASE RebuildOperators
  BY <1>4 DEF RebuildOperators, AnswerInv, history
<1>5. CASE BeginPass
  <2>1. observed' = {} /\ pc' = "column" /\ item' = 1
    BY <1>5 DEF BeginPass, AnswerInv
  <2>2. Answered(Plan, sequence', 0) = {}
    BY DEF Answered
  <2> QED BY <1>1, <2>1, <2>2 DEF AnswerInv
<1>6. CASE Imprint \/ Solve \/ AccumulateScenarioError
  <2>1. /\ pc \in {"column", "solve", "fold"} /\ pc' \in {"solve", "fold", "gather"}
        /\ observed' = observed /\ item' = item
    BY <1>6 DEF Imprint, Solve, AccumulateScenarioError, history
  <2>2. sequence' = sequence
    BY <1>2, <2>1 DEF RefineMesh, RefineMeshFails
  <2> QED BY <1>1, <2>1, <2>2 DEF AnswerInv
<1>7. CASE Gather
  <2>1. pc = "gather" /\ pc' = "save" /\ item' = item
    BY <1>7 DEF Gather
  <2>2. sequence' = sequence
    BY <1>2, <2>1 DEF RefineMesh, RefineMeshFails
  <2>3. observed' = Answered(Plan, sequence, item - 1) \cup {Ans(Plan, sequence, item)}
    BY <1>7, <2>1, GatherAnswers DEF AnswerInv
  <2>4. observed' = Answered(Plan, sequence, item)
    BY <1>1, <2>3, AnsweredNext
  <2> QED BY <1>1, <2>1, <2>2, <2>4 DEF AnswerInv
<1>8. CASE SaveScenario
  <2>1. pc = "save" /\ pc' = "column" /\ item' = item + 1 /\ observed' = observed
    BY <1>8 DEF SaveScenario, history
  <2>2. sequence' = sequence
    BY <1>2, <2>1 DEF RefineMesh, RefineMeshFails
  <2> QED BY <1>1, <2>1, <2>2 DEF AnswerInv
<1>9. CASE EndSinglePass \/ EndAdaptivePass
  <2>1. /\ pc = "column" /\ pc' \in {"ran", "refine"} /\ item = Len(Plan) + 1
        /\ item' = item /\ observed' = observed
    BY <1>1, <1>9 DEF EndSinglePass, EndAdaptivePass, PassDone, history
  <2>2. sequence' = sequence
    BY <1>2, <2>1 DEF RefineMesh, RefineMeshFails
  <2> QED BY <1>1, <2>1, <2>2 DEF AnswerInv
<1>10. CASE RunSetup \/ SetupFails \/ BeginPassFails \/ SolveFails \/ SaveFails
            \/ RefineMeshFails \/ RebuildFails \/ SaveAnalysis
  <2>1. pc' \in {"ready", "saved", "failed"}
    BY <1>10 DEF RunSetup, SetupFails, BeginPassFails, SolveFails, SaveFails, RefineMeshFails,
                 RebuildFails, SaveAnalysis
  <2> QED BY <2>1 DEF AnswerInv
<1>11. CASE UNCHANGED vars
  <2>1. pc' = pc /\ item' = item /\ observed' = observed /\ sequence' = sequence
    BY <1>11 DEF vars, opvars, history
  <2> QED BY <1>1, <2>1 DEF AnswerInv
<1> QED
  BY <1>3, <1>4, <1>5, <1>6, <1>7, <1>8, <1>9, <1>10, <1>11 DEF Next, Step

LEMMA AnsweringInit == Init => AnsweringInv
BY DEF Init, OpInit, AnsweringInv, SolvedInv, LoadInv, AnswerInv, UnderWay, InPass

LEMMA AnsweringNext == SystemInv /\ AnsweringInv /\ [Next]_vars => AnsweringInv'
<1> SUFFICES ASSUME SystemInv, AnsweringInv, [Next]_vars PROVE AnsweringInv'
  OBVIOUS
<1>1. SolvedInv'
  BY StepOfSystem, SolvedNext DEF SystemInv, AnsweringInv
<1> QED BY <1>1, LoadNext, AnswerNext DEF AnsweringInv

-----------------------------------------------------------------------------
(* The contract.                                                           *)

\* The answers of the contract.
LEMMA AnswersOfPlan ==
  ASSUME Configured
  PROVE  /\ Contract!Answers = Answered(Plan, sequence, Len(Plan))
         /\ \A i : Contract!Answer(i) = Ans(Plan, sequence, i)
<1>1. \A i : Contract!Answer(i) = Ans(Plan, sequence, i)
  BY DEF Contract!Answer, Ans
<1> QED BY <1>1, PlanItems DEF Contract!Answers, Answered

\* Gather answers, a refinement discards the answers, the start and the end of a run
\* start and finish, an exception fails, and every other step leaves what the contract
\* sees alone.
LEMMA StepKeepsContract ==
  ASSUME SystemInv, AnsweringInv, [Next]_vars
  PROVE  [Contract!CNext]_(Contract!cvars)
<1>1. /\ Plan' = Plan /\ Len(Plan) \in Nat /\ DOMAIN Plan = 1..Len(Plan)
      /\ item \in 1..(Len(Plan) + 1) /\ Configured
  BY PlanKept, PlanItems DEF SystemInv, DriverInv
<1>2. ASSUME ~RefineMesh, ~RefineMeshFails PROVE sequence' = sequence
  BY <1>2, MeshKept
<1>3. ASSUME observed' = observed, Status' = Status, sequence' = sequence
      PROVE  UNCHANGED Contract!cvars
  BY <1>1, <1>3 DEF Contract!cvars
<1>4. CASE \/ RunSetup \/ BeginPass \/ Imprint \/ Solve \/ AccumulateScenarioError
           \/ SaveScenario \/ RebuildOperators \/ SaveAnalysis
  <2>1. observed' = observed /\ Status' = Status /\ pc # "refine"
    BY <1>4 DEF RunSetup, BeginPass, Imprint, Solve, AccumulateScenarioError, SaveScenario,
                RebuildOperators, SaveAnalysis, history, Status
  <2>2. sequence' = sequence
    BY <1>2, <2>1 DEF RefineMesh, RefineMeshFails
  <2> QED BY <1>3, <2>1, <2>2
<1>5. CASE SetupFails \/ BeginPassFails \/ SolveFails \/ SaveFails \/ RefineMeshFails
           \/ RebuildFails
  <2>1. observed' = observed /\ Status' = "failed"
    BY <1>5 DEF SetupFails, BeginPassFails, SolveFails, SaveFails, RefineMeshFails,
                RebuildFails, history, Status
  <2>2. sequence' \in {sequence, sequence + 1}
    <3>1. CASE RefineMeshFails
      BY <3>1, MeshKept
    <3>2. CASE ~RefineMeshFails
      <4>1. ~RefineMesh
        BY <1>5 DEF SetupFails, BeginPassFails, SolveFails, SaveFails, RefineMeshFails,
                    RebuildFails, RefineMesh
      <4> QED BY <1>2, <3>2, <4>1
    <3> QED BY <3>1, <3>2
  <2> QED BY <1>1, <2>1, <2>2 DEF Contract!CNext, Contract!Fail
<1>6. CASE Run
  <2>1. observed' = {} /\ Status = "idle" /\ Status' = "running"
    BY <1>6 DEF Run, Status
  <2>2. sequence' = sequence
    BY <1>2, <1>6 DEF Run, RefineMesh, RefineMeshFails
  <2> QED BY <1>1, <2>1, <2>2 DEF Contract!CNext, Contract!Start
<1>7. CASE Gather
  <2>1. pc = "gather" /\ Status = "running" /\ Status' = "running"
    BY <1>7 DEF Gather, Status
  <2>2. sequence' = sequence
    BY <1>2, <2>1 DEF RefineMesh, RefineMeshFails
  <2>3. item \in DOMAIN Plan /\ observed = Answered(Plan, sequence, item - 1)
    BY <1>1, <2>1 DEF AnsweringInv, AnswerInv, InPass, SystemInv, DriverInv, UnderWay
  <2>4. Cardinality(observed) = item - 1
    BY <1>1, <2>3, AnswersCounted
  <2>5. observed' = observed \cup {Contract!Answer(item)}
    BY <1>1, <1>7, GatherAnswers, AnswersOfPlan DEF AnsweringInv
  <2>6. item = Contract!Cardinality(observed) + 1
    <3>1. Contract!Cardinality(observed) = Cardinality(observed)
      BY DEF Contract!Cardinality, Cardinality
    <3> QED BY <1>1, <2>4, <3>1
  <2> QED BY <1>1, <2>1, <2>2, <2>3, <2>5, <2>6 DEF Contract!CNext, Contract!Solve
<1>8. CASE EndSinglePass \/ EndAdaptivePass
  <2>1. /\ pc = "column" /\ item = Len(Plan) + 1 /\ observed' = observed
        /\ Status = "running" /\ Status' \in {"idle", "running"}
    BY <1>1, <1>8 DEF EndSinglePass, EndAdaptivePass, PassDone, history, Status
  <2>2. sequence' = sequence
    BY <1>2, <2>1 DEF RefineMesh, RefineMeshFails
  <2>3. observed = Contract!Answers
    BY <1>1, <2>1, AnswersOfPlan DEF AnsweringInv, AnswerInv, InPass
  <2> QED BY <1>1, <1>3, <2>1, <2>2, <2>3 DEF Contract!CNext, Contract!Finish
<1>9. CASE RefineMesh
  <2>1. /\ pc = "refine" /\ observed' = {} /\ sequence' = sequence + 1
        /\ Status = "running" /\ Status' = "running"
    BY <1>9, MeshKept DEF RefineMesh, Status
  <2>2. observed = Contract!Answers
    BY <1>1, <2>1, AnswersOfPlan DEF AnsweringInv, AnswerInv
  <2> QED BY <1>1, <2>1, <2>2 DEF Contract!CNext, Contract!Refine
<1>10. CASE UNCHANGED vars
  <2>1. observed' = observed /\ Status' = Status /\ sequence' = sequence
    BY <1>10 DEF vars, opvars, history, Status
  <2> QED BY <1>3, <2>1
<1> QED BY <1>4, <1>5, <1>6, <1>7, <1>8, <1>9, <1>10 DEF Next, Step

\* A magnetoquasistatic run implements RunContract, whatever its caches hold and however
\* often the mesh is refined: what is read from every solution is of the mesh of the
\* moment, of one frequency, the item's own, and of the item's own drive; a refinement
\* discards what was read, and a run ends only when the whole plan is answered.
THEOREM RunsTheContract == Spec => ImplementsContract
<1>1. Init => Contract!CInit /\ AnsweringInv
  BY AnsweringInit DEF Init, OpInit, Contract!CInit, Status
<1>2. SystemInv /\ AnsweringInv /\ [Next]_vars => [Contract!CNext]_(Contract!cvars)
  BY StepKeepsContract
<1> QED
  BY <1>1, <1>2, AnsweringNext, RunInvariance, PTL DEF Spec, ImplementsContract, Contract!CSpec
-----------------------------------------------------------------------------
(* The series of a coupling run.                                           *)

\* A point is opened without columns.
LEMMA SeriesOpens ==
  ASSUME NEW point, NEW col, NEW n, NEW q \in Nat
  PROVE  Append(Series(point, col, n, q, q, 0), [Frequency |-> point[q + 1], columns |-> {}])
           = Series(point, col, n, q + 1, q, 0)
<1> DEFINE g(i) == {col[i][t] : t \in 1..(IF i <= q THEN n ELSE 0)}
           v(i) == [Frequency |-> point[i], columns |-> g(i)]
           e == [i \in 1..(q + 1) |-> v(i)]
<1>1. g(q + 1) = {}
  <2>1. ~(q + 1 <= q) /\ 1..0 = {}
    OBVIOUS
  <2> QED BY <2>1
<1>2. /\ Series(point, col, n, q, q, 0) = [i \in 1..q |-> v(i)]
      /\ Series(point, col, n, q + 1, q, 0) = [i \in 1..(q + 1) |-> v(i)]
  BY DEF Series
<1>3. [Frequency |-> point[q + 1], columns |-> {}] = v(q + 1)
  BY <1>1
<1> HIDE DEF v
<1>4. [i \in 1..q |-> v(i)] = [i \in 1..q |-> e[i]] /\ v(q + 1) = e[q + 1]
  OBVIOUS
<1> HIDE DEF e
<1>5. Append([i \in 1..q |-> e[i]], e[q + 1]) = [i \in 1..(q + 1) |-> e[i]]
  BY TableGrows
<1>6. [i \in 1..(q + 1) |-> e[i]] = [i \in 1..(q + 1) |-> v(i)]
  BY DEF e
<1> QED BY <1>2, <1>3, <1>4, <1>5, <1>6

\* The last point gets its next column.
LEMMA SeriesFills ==
  ASSUME NEW point, NEW col, NEW n, NEW q \in Nat, NEW m \in Nat
  PROVE  [Series(point, col, n, q + 1, q, m) EXCEPT ![q + 1].columns = @ \cup {col[q + 1][m + 1]}]
           = Series(point, col, n, q + 1, q, m + 1)
<1> DEFINE e(i, j) == [Frequency |-> point[i], columns |-> {col[i][t] : t \in 1..j}]
           k(i, j) == IF i <= q THEN n ELSE j
           a == Series(point, col, n, q + 1, q, m)
<1>1. a = [i \in 1..(q + 1) |-> e(i, k(i, m))]
  BY DEF Series
<1>2. Series(point, col, n, q + 1, q, m + 1) = [i \in 1..(q + 1) |-> e(i, k(i, m + 1))]
  BY DEF Series
<1>3. [e(q + 1, m) EXCEPT !.columns = @ \cup {col[q + 1][m + 1]}] = e(q + 1, m + 1)
  <2>1. 1..(m + 1) = (1..m) \cup {m + 1}
    OBVIOUS
  <2> DEFINE f == point[q + 1]
             h == col[q + 1]
             c == {h[t] : t \in 1..m}
             x == h[m + 1]
             d == {h[t] : t \in 1..(m + 1)}
  <2>2. d = c \cup {x}
    BY <2>1
  <2>3. e(q + 1, m) = [Frequency |-> f, columns |-> c]
        /\ e(q + 1, m + 1) = [Frequency |-> f, columns |-> d]
        /\ d = c \cup {x} /\ x = col[q + 1][m + 1]
    BY <2>2
  <2> HIDE DEF e, f, h, c, d, x
  <2>4. [[Frequency |-> f, columns |-> c] EXCEPT !.columns = @ \cup {x}]
          = [Frequency |-> f, columns |-> c \cup {x}]
    OBVIOUS
  <2> QED BY <2>3, <2>4, Zenon
<1>4. \A i \in 1..(q + 1) : i # q + 1 => k(i, m) = k(i, m + 1)
  OBVIOUS
<1>5. k(q + 1, m) = m /\ k(q + 1, m + 1) = m + 1
  OBVIOUS
<1> HIDE DEF a, e, k
<1>6. a[q + 1] = e(q + 1, m)
  BY <1>1, <1>5
<1>7. [a EXCEPT ![q + 1].columns = @ \cup {col[q + 1][m + 1]}]
        = [i \in 1..(q + 1) |-> IF i = q + 1 THEN e(q + 1, m + 1) ELSE a[i]]
  BY <1>1, <1>3, <1>6
<1>8. ASSUME NEW i \in 1..(q + 1)
      PROVE  (IF i = q + 1 THEN e(q + 1, m + 1) ELSE a[i]) = e(i, k(i, m + 1))
  BY <1>1, <1>4, <1>5
<1>9. [a EXCEPT ![q + 1].columns = @ \cup {col[q + 1][m + 1]}]
        = Series(point, col, n, q + 1, q, m + 1)
  BY <1>2, <1>7, <1>8
<1> QED BY <1>9 DEF a

\* A point with all its columns is complete.
LEMMA SeriesCloses ==
  ASSUME NEW point, NEW col, NEW n, NEW q \in Nat
  PROVE  Series(point, col, n, q + 1, q, n) = Series(point, col, n, q + 1, q + 1, 0)
<1> DEFINE e(i, j) == [Frequency |-> point[i], columns |-> {col[i][t] : t \in 1..j}]
<1>1. Series(point, col, n, q + 1, q, n)
        = [i \in 1..(q + 1) |-> e(i, IF i <= q THEN n ELSE n)]
  BY DEF Series
<1>2. Series(point, col, n, q + 1, q + 1, 0)
        = [i \in 1..(q + 1) |-> e(i, IF i <= q + 1 THEN n ELSE 0)]
  BY DEF Series
<1>3. \A i \in 1..(q + 1) : (IF i <= q THEN n ELSE n) = (IF i <= q + 1 THEN n ELSE 0)
  OBVIOUS
<1> HIDE DEF e
<1> QED BY <1>1, <1>2, <1>3

\* As many points as are open.
LEMMA SeriesLength ==
  ASSUME NEW point, NEW col, NEW n, NEW opened \in Nat, NEW q, NEW m
  PROVE  /\ Len(Series(point, col, n, opened, q, m)) = opened
         /\ DOMAIN Series(point, col, n, opened, q, m) = 1..opened
<1> DEFINE v(i) == [Frequency |-> point[i],
                    columns |-> {col[i][t] : t \in 1..(IF i <= q THEN n ELSE m)}]
<1>1. Series(point, col, n, opened, q, m) = [i \in 1..opened |-> v(i)]
  BY DEF Series
<1> HIDE DEF v
<1> QED BY <1>1
\* Where an item stands among the points.
LEMMA ItemPoint ==
  ASSUME SystemInv, coupling
  PROVE  /\ Quot \in Nat /\ Rem \in 0..(NTerminals - 1) /\ NTerminals \in Nat \ {0}
         /\ Cardinality(FrequencyPoints) \in Nat
         /\ InPass \/ pc = "ran" => Opened \in 0..Cardinality(FrequencyPoints)
         /\ UnderWay => Opened = Quot + 1
         /\ item <= Len(Plan) => /\ Quot + 1 \in 1..Cardinality(FrequencyPoints)
                                 /\ Rem + 1 \in Terminals
                                 /\ Plan[item].Frequency = Points[Quot + 1]
                                 /\ Plan[item].driven = {Rem + 1}
         /\ pc = "ran" => /\ Opened = Cardinality(FrequencyPoints)
                          /\ Quot = Cardinality(FrequencyPoints) /\ Rem = 0
<1> DEFINE a == item - 1
           c == Cardinality(FrequencyPoints)
<1>1. /\ Solves \in Nat /\ Len(Plan) = Solves /\ item \in 1..(Solves + 1)
      /\ UnderWay => item <= Solves
      /\ pc = "ran" => item = Solves + 1
  BY CouplingItems DEF SystemInv, DriverInv
<1>2. c \in Nat /\ NTerminals \in Nat \ {0} /\ a \in Nat
  BY <1>1, ScenariosOfRun DEF SystemInv
<1>3. Solves = c * NTerminals
  BY DEF Solves
<1>4. /\ Quot \in Nat /\ Rem \in 0..(NTerminals - 1)
      /\ a < Solves => Quot + 1 <= c
      /\ a = Solves => Quot = c /\ Rem = 0
      /\ a <= Solves => Quot + (IF Rem = 0 THEN 0 ELSE 1) <= c
  <2> HIDE DEF a, c
  <2>1. /\ a \div NTerminals \in Nat /\ a % NTerminals \in 0..(NTerminals - 1)
        /\ a < c * NTerminals => (a \div NTerminals) + 1 <= c
        /\ a = c * NTerminals => a \div NTerminals = c /\ a % NTerminals = 0
        /\ a <= c * NTerminals =>
             (a \div NTerminals) + (IF a % NTerminals = 0 THEN 0 ELSE 1) <= c
    BY <1>2, GridPoint, Zenon
  <2>2. Quot = a \div NTerminals /\ Rem = a % NTerminals
    BY DEF Quot, Rem, a
  <2> QED BY <1>3, <2>1, <2>2
<1>5. item <= Solves => /\ Quot + 1 \in 1..c
                        /\ Rem + 1 \in Terminals
                        /\ Plan[item].Frequency = Points[Quot + 1]
                        /\ Plan[item].driven = {Rem + 1}
  BY <1>1, CouplingItems DEF Quot, Rem, SystemInv
<1> HIDE DEF c
<1>6. InPass \/ pc = "ran" => Opened \in 0..c
  <2>1. item <= Solves => a < Solves
    BY <1>1
  <2>2. a <= Solves
    BY <1>1
  <2>3. CASE UnderWay
    BY <1>1, <1>2, <1>4, <2>1, <2>3 DEF Opened, UnderWay
  <2>4. CASE pc \in {"column", "ran"}
    BY <1>1, <1>2, <1>4, <2>2, <2>4 DEF Opened
  <2> QED BY <2>3, <2>4 DEF InPass, UnderWay
<1>7. UnderWay => Opened = Quot + 1
  BY DEF Opened, UnderWay
<1>8. pc = "ran" => Quot = c /\ Rem = 0 /\ Opened = c
  <2>1. item = Solves + 1 => a = Solves
    BY <1>1
  <2> QED BY <1>1, <1>4, <2>1 DEF Opened
<1> QED BY <1>1, <1>2, <1>4, <1>5, <1>6, <1>7, <1>8 DEF c

\* A pass begins with no point.
LEMMA BeginSeries ==
  ASSUME SystemInv, BeginPass PROVE SeriesInv'
<1> SUFFICES ASSUME coupling' PROVE SeriesInv'
  BY DEF SeriesInv
<1>1. item' = 1 /\ pc' = "column" /\ factorizations' = 0
  BY DEF BeginPass
<1>2. coupling_results' = <<>>
  BY DEF BeginPass, PrepareAnalysis, W!BeginMesh, W!settings
<1>3. NTerminals \in Nat \ {0}
  BY ScenariosOfRun DEF SystemInv
<1>4. 0 \div NTerminals = 0 /\ 0 % NTerminals = 0
  <2>1. 0 = NTerminals * 0 + 0 /\ 0 \in 0..(NTerminals - 1) /\ 0 \in Nat
    BY <1>3
  <2> QED BY <1>3, <2>1, Division
<1>5. Quot' = 0 /\ Rem' = 0
  BY <1>1, <1>4 DEF Quot, Rem
<1>6. Opened' = 0 /\ Gathered' = 0
  BY <1>1, <1>5 DEF Opened, Gathered
<1>7. \A point, col, n, q, m : Series(point, col, n, 0, q, m) = <<>>
  BY DEF Series
<1> QED BY <1>1, <1>2, <1>5, <1>6, <1>7 DEF SeriesInv
\* What is read of the caches, kept.
LEMMA HitKept ==
  ASSUME UNCHANGED <<linear_solver, factors, omega>>
  PROVE  CacheHit' = CacheHit
BY DEF CacheHit, FactorizationHit, PreconditionerHit, factors

\* The first terminal opens a point, at whose frequency the operator is made active.
LEMMA ImprintSeries ==
  ASSUME SystemInv, SeriesInv, CountInv, Imprint PROVE SeriesInv'
<1> SUFFICES ASSUME coupling PROVE SeriesInv'
  BY DEF SeriesInv, Imprint, wrest
<1>1. /\ pc = "column" /\ pc' = "solve" /\ item <= Len(Plan) /\ item' = item
      /\ factorizations' = factorizations /\ InPass
  BY DEF Imprint, history, InPass
<1>2. /\ sequence' = sequence /\ omega' = Plan[item].Frequency
      /\ UNCHANGED <<linear_solver, factors>>
  BY DEF Imprint, ImprintScenario, config
<1>3. /\ Quot \in Nat /\ Rem \in 0..(NTerminals - 1)
      /\ Opened \in Nat /\ Plan[item].Frequency = Points[Quot + 1]
  BY <1>1, ItemPoint
<1>4. Points' = Points /\ ColumnsAt(sequence)' = ColumnsAt(sequence)
  <2>1. [Next]_vars
    BY DEF Next, Step
  <2>2. FrequencyPoints' = FrequencyPoints /\ Points' = Points
    BY <2>1, PlanKept
  <2> QED BY <1>2, <2>2 DEF ColumnsAt
<1>5. Quot' = Quot /\ Rem' = Rem /\ Opened' = Quot + 1 /\ Gathered' = Rem
  BY <1>1 DEF Quot, Rem, Opened, Gathered
<1>6. coupling_results = Series(Points, ColumnsAt(sequence), NTerminals, Opened, Quot, Rem)
      /\ factorizations <= Opened /\ factorizations \in Nat
      /\ (Opened > 0 => omega = Points[Opened] /\ CacheHit)
  BY <1>1 DEF SeriesInv, Gathered, CountInv
<1>7. /\ coupling_results' = Series(Points, ColumnsAt(sequence), NTerminals, Quot + 1, Quot, Rem)
      /\ factorizations <= Quot + 1
      /\ ~CacheHit' => factorizations < Quot + 1
  <2>1. CASE OpensPoint(item)
    <3>1. Rem = 0 /\ Opened = Quot
      BY <1>1, <2>1 DEF OpensPoint, Rem, Opened
    <3>2. coupling_results' =
            Append(coupling_results, [Frequency |-> Points[Quot + 1], columns |-> {}])
      BY <1>3, <2>1 DEF Imprint
    <3>3. coupling_results' =
            Series(Points, ColumnsAt(sequence), NTerminals, Quot + 1, Quot, 0)
      BY <1>3, <1>6, <3>1, <3>2, SeriesOpens
    <3> QED BY <1>3, <1>6, <3>1, <3>3
  <2>2. CASE ~OpensPoint(item)
    <3>1. Rem # 0 /\ Opened = Quot + 1
      BY <1>1, <2>2 DEF OpensPoint, Rem, Opened
    <3>2. coupling_results' = coupling_results
      BY <2>2 DEF Imprint
    <3>3. omega' = omega
      BY <1>2, <1>3, <1>6, <3>1
    <3>4. CacheHit'
      BY <1>2, <1>3, <1>6, <3>1, <3>3, HitKept
    <3> QED BY <1>3, <1>6, <3>1, <3>2, <3>4
  <2> QED BY <2>1, <2>2
<1> QED BY <1>1, <1>2, <1>3, <1>4, <1>5, <1>7 DEF SeriesInv

\* A solve factors at most once more than it has points open, and once only at each.
LEMMA SolveSeries ==
  ASSUME SystemInv, SeriesInv, CountInv, Solve PROVE SeriesInv'
<1> SUFFICES ASSUME coupling PROVE SeriesInv'
  BY DEF SeriesInv, Solve, wrest
<1>1. /\ pc = "solve" /\ pc' = "fold" /\ item' = item /\ InPass
      /\ coupling_results' = coupling_results /\ SolveSystem
      /\ factorizations' = factorizations + (IF CacheHit THEN 0 ELSE 1)
  BY DEF Solve, InPass
<1>2. /\ sequence' = sequence /\ omega' = omega /\ linear_solver' = linear_solver
      /\ phase = "imprinted" /\ IInv
  BY <1>1 DEF SolveSystem, operators, config, SystemInv
<1>3. Opened \in Nat
  BY <1>1, ItemPoint
<1>4. Points' = Points /\ ColumnsAt(sequence)' = ColumnsAt(sequence)
  <2>1. [Next]_vars
    BY DEF Next, Step
  <2>2. FrequencyPoints' = FrequencyPoints /\ Points' = Points
    BY <2>1, PlanKept
  <2> QED BY <1>2, <2>2 DEF ColumnsAt
<1>5. Quot' = Quot /\ Opened' = Opened /\ Gathered' = Gathered
  BY <1>1 DEF Quot, Rem, Opened, Gathered
<1>6. factorizations \in Nat /\ factorizations <= Opened
      /\ (~CacheHit => factorizations < Opened)
  BY <1>1 DEF CountInv, SeriesInv
<1>7. factorizations' <= Opened
  BY <1>1, <1>3, <1>6
<1>8. CacheHit'
  <2>1. CASE linear_solver = "Direct"
    BY <1>1, <1>2, <2>1, EnsuredFactorsAreCurrent DEF SolveSystem, CacheHit, FactorizationHit
  <2>2. CASE linear_solver # "Direct"
    BY <1>1, <1>2, <2>2, EnsuredPreconditionerIsCurrent
    DEF SolveSystem, CacheHit, PreconditionerHit
  <2> QED BY <2>1, <2>2
<1> QED BY <1>1, <1>2, <1>4, <1>5, <1>7, <1>8 DEF SeriesInv

\* The gathered column is that of the item's terminal at the open point.
LEMMA GatherSeries ==
  ASSUME SystemInv, SystemInv', SeriesInv, CountInv, Gather PROVE SeriesInv'
<1> SUFFICES ASSUME coupling PROVE SeriesInv'
  BY DEF SeriesInv, Gather, wrest
<1>1. /\ pc = "gather" /\ pc' = "save" /\ item' = item /\ InPass /\ UnderWay
      /\ factorizations' = factorizations /\ GatherCouplingColumn
      /\ \E t \in Plan[item].driven :
           coupling_results' = [coupling_results EXCEPT
              ![Len(coupling_results)].columns = @ \cup {[driven |-> t, rows |-> column']}]
  BY DEF Gather, InPass, UnderWay
<1>2. sequence' = sequence /\ omega' = omega /\ UNCHANGED <<linear_solver, factors>>
  BY <1>1 DEF GatherCouplingColumn, operators, config
<1>3. /\ Quot \in Nat /\ Rem \in 0..(NTerminals - 1) /\ NTerminals \in Nat
      /\ Opened = Quot + 1 /\ Quot + 1 \in 1..Cardinality(FrequencyPoints)
      /\ Rem + 1 \in Terminals /\ Plan[item].driven = {Rem + 1}
  <2>1. item <= Len(Plan)
    BY <1>1 DEF SystemInv, DriverInv
  <2> QED BY <1>1, <2>1, ItemPoint
<1>4. Points' = Points /\ ColumnsAt(sequence)' = ColumnsAt(sequence) /\ CacheHit' = CacheHit
  <2>1. [Next]_vars
    BY DEF Next, Step
  <2>2. FrequencyPoints' = FrequencyPoints /\ Points' = Points
    BY <2>1, PlanKept
  <2> QED BY <1>2, <2>2, HitKept DEF ColumnsAt
<1>5. Quot' = Quot /\ Opened' = Quot + 1 /\ Gathered = Rem /\ Gathered' = Rem + 1
  BY <1>1 DEF Quot, Rem, Opened, Gathered
<1>6. /\ coupling_results = Series(Points, ColumnsAt(sequence), NTerminals, Quot + 1, Quot, Rem)
      /\ omega = Points[Quot + 1] /\ CacheHit /\ factorizations <= Quot + 1
  BY <1>1, <1>3, <1>5 DEF SeriesInv
<1>7. Len(coupling_results) = Quot + 1
  BY <1>3, <1>6, SeriesLength
<1>8. column' = Rows(Points[Quot + 1], sequence)
  BY <1>1, <1>6, GatheredColumn DEF SystemInv, OwnColumn, Rows
<1>9. ColumnsAt(sequence)[Quot + 1][Rem + 1] = [driven |-> Rem + 1, rows |-> column']
  BY <1>3, <1>8 DEF ColumnsAt, Column
<1>10. coupling_results' = [coupling_results EXCEPT
         ![Quot + 1].columns = @ \cup {ColumnsAt(sequence)[Quot + 1][Rem + 1]}]
  <2>1. PICK t \in {Rem + 1} :
          coupling_results' = [coupling_results EXCEPT
             ![Quot + 1].columns = @ \cup {[driven |-> t, rows |-> column']}]
    BY <1>1, <1>3, <1>7
  <2> QED BY <1>9, <2>1
<1>11. coupling_results' =
         Series(Points, ColumnsAt(sequence), NTerminals, Quot + 1, Quot, Rem + 1)
  <2>1. Rem \in Nat
    BY <1>3
  <2> QED BY <1>3, <1>6, <1>10, <2>1, SeriesFills
<1> QED BY <1>1, <1>2, <1>4, <1>5, <1>6, <1>11 DEF SeriesInv

\* The item after the last terminal of a point begins the next one.
LEMMA SaveSeries ==
  ASSUME SystemInv, SeriesInv, SaveScenario PROVE SeriesInv'
<1> SUFFICES ASSUME coupling PROVE SeriesInv'
  BY SettingsKept DEF SeriesInv, Next, Step, settings
<1>1. /\ pc = "save" /\ pc' = "column" /\ item' = item + 1 /\ InPass /\ UnderWay
      /\ UNCHANGED <<opvars, coupling_results, factorizations>>
  BY DEF SaveScenario, history, InPass, UnderWay
<1>2. sequence' = sequence /\ omega' = omega /\ UNCHANGED <<linear_solver, factors>>
  BY <1>1 DEF opvars, operators, config
<1>3. /\ Quot \in Nat /\ Rem \in 0..(NTerminals - 1) /\ NTerminals \in Nat \ {0}
      /\ Opened = Quot + 1 /\ item \in Nat \ {0}
  <2>1. item \in Nat \ {0}
    BY PlanItems DEF SystemInv, DriverInv
  <2> QED BY <1>1, <2>1, ItemPoint
<1>4. Points' = Points /\ ColumnsAt(sequence)' = ColumnsAt(sequence) /\ CacheHit' = CacheHit
  <2>1. [Next]_vars
    BY DEF Next, Step
  <2>2. FrequencyPoints' = FrequencyPoints /\ Points' = Points
    BY <2>1, PlanKept
  <2> QED BY <1>2, <2>2, HitKept DEF ColumnsAt
<1>5. /\ coupling_results' =
           Series(Points, ColumnsAt(sequence), NTerminals, Quot + 1, Quot, Rem + 1)
      /\ omega = Points[Quot + 1] /\ CacheHit /\ factorizations <= Quot + 1
  BY <1>1, <1>3 DEF SeriesInv, Gathered
<1>6. /\ Rem + 1 = NTerminals => Quot' = Quot + 1 /\ Rem' = 0
      /\ Rem + 1 # NTerminals => Quot' = Quot /\ Rem' = Rem + 1
  <2> DEFINE a == item - 1
  <2>1. a \in Nat /\ item' - 1 = a + 1
    BY <1>1, <1>3
  <2> HIDE DEF a
  <2>2. /\ (a % NTerminals) + 1 = NTerminals =>
             (a + 1) \div NTerminals = (a \div NTerminals) + 1 /\ (a + 1) % NTerminals = 0
        /\ (a % NTerminals) + 1 # NTerminals =>
             /\ (a + 1) \div NTerminals = a \div NTerminals
             /\ (a + 1) % NTerminals = (a % NTerminals) + 1
    BY <1>3, <2>1, DivisionStep, Zenon
  <2>3. Quot = a \div NTerminals /\ Rem = a % NTerminals
    BY DEF Quot, Rem, a
  <2>4. Quot' = (a + 1) \div NTerminals /\ Rem' = (a + 1) % NTerminals
    BY <2>1 DEF Quot, Rem
  <2> QED BY <2>2, <2>3, <2>4
<1>7. Opened' = Quot + 1 /\ Gathered' = Rem'
  <2>1. Opened' = IF Rem' = 0 THEN Quot' ELSE Quot' + 1
    BY <1>1 DEF Opened
  <2>2. Rem + 1 # NTerminals => Rem' # 0
    BY <1>3, <1>6
  <2> QED BY <1>1, <1>6, <2>1, <2>2 DEF Gathered
<1>8. coupling_results' =
        Series(Points, ColumnsAt(sequence), NTerminals, Quot + 1, Quot', Rem')
  BY <1>3, <1>5, <1>6, SeriesCloses
<1> QED BY <1>1, <1>2, <1>4, <1>5, <1>7, <1>8 DEF SeriesInv
\* A step over which the series stands: between two phases in which it is the same.
LEMMA FrameSeries ==
  ASSUME SeriesInv, [Next]_vars,
         UNCHANGED <<sequence, omega, linear_solver, factors, item, coupling_results,
                     factorizations>>,
         pc \in {"column", "fold", "ran"} \/ pc' = pc,
         pc' = pc \/ (pc' = "gather" /\ pc = "fold") \/ (pc' = "ran" /\ pc = "column")
  PROVE  SeriesInv'
<1> SUFFICES ASSUME coupling, InPass' \/ pc' = "ran" PROVE SeriesInv'
  BY SettingsKept DEF SeriesInv, settings
<1>1. InPass \/ pc = "ran"
  BY DEF InPass
<1>2. Points' = Points /\ ColumnsAt(sequence)' = ColumnsAt(sequence) /\ CacheHit' = CacheHit
  BY PlanKept, HitKept DEF ColumnsAt
<1>3. Quot' = Quot /\ Rem' = Rem /\ Opened' = Opened /\ Gathered' = Gathered
  BY DEF Quot, Rem, Opened, Gathered
<1> QED BY <1>1, <1>2, <1>3 DEF SeriesInv

LEMMA SeriesNext ==
  ASSUME SystemInv, SystemInv', SeriesInv, CountInv, [Next]_vars PROVE SeriesInv'
<1>1. CASE BeginPass
  BY <1>1, BeginSeries
<1>2. CASE Imprint
  BY <1>2, ImprintSeries
<1>3. CASE Solve
  BY <1>3, SolveSeries
<1>4. CASE Gather
  BY <1>4, GatherSeries
<1>5. CASE SaveScenario
  BY <1>5, SaveSeries
<1>6. CASE AccumulateScenarioError
  <2>1. /\ UNCHANGED <<sequence, omega, linear_solver, factors, item, coupling_results,
                       factorizations>>
        /\ pc = "fold" /\ pc' = "gather"
    BY <1>6 DEF AccumulateScenarioError, EstimateCurrentSolutionError, opvars, operators,
                config, history
  <2> QED BY <2>1, FrameSeries
<1>7. CASE (EndSinglePass \/ EndAdaptivePass) /\ pc' = "ran"
  <2>1. /\ UNCHANGED <<sequence, omega, linear_solver, factors, item, coupling_results,
                       factorizations>>
        /\ pc = "column" /\ pc' = "ran"
    BY <1>7 DEF EndSinglePass, EndAdaptivePass, PassDone, opvars, operators, config, history
  <2> QED BY <2>1, FrameSeries
<1>8. CASE UNCHANGED vars
  <2>1. UNCHANGED <<sequence, omega, linear_solver, factors, item, coupling_results,
                    factorizations, pc>>
    BY <1>8 DEF vars, opvars, operators, config, history
  <2> QED BY <2>1, FrameSeries
<1>9. CASE ~InPass' /\ pc' # "ran"
  BY <1>9 DEF SeriesInv
<1>10. (\/ RunSetup \/ SetupFails \/ Run \/ BeginPassFails \/ SolveFails
        \/ SaveFails \/ RefineMesh \/ RefineMeshFails \/ RebuildOperators \/ RebuildFails
        \/ SaveAnalysis)
         => ~InPass' /\ pc' # "ran"
  BY DEF RunSetup, SetupFails, Run, BeginPassFails, SolveFails, SaveFails, RefineMesh,
         RefineMeshFails, RebuildOperators, RebuildFails, SaveAnalysis, InPass
<1>11. (EndSinglePass \/ EndAdaptivePass) /\ pc' # "ran" => ~InPass' /\ pc' # "ran"
  BY DEF EndSinglePass, EndAdaptivePass, InPass
<1> QED
  BY <1>1, <1>2, <1>3, <1>4, <1>5, <1>6, <1>7, <1>8, <1>9, <1>10, <1>11 DEF Next, Step

\* Factoring is counted; without a coupling analysis there is no series.
LEMMA CountNext ==
  ASSUME CountInv, [Next]_vars PROVE CountInv'
<1>1. factorizations' = factorizations \/ Solve \/ BeginPass
  BY DEF Next, Step, RunSetup, SetupFails, Run, BeginPassFails, Imprint, SolveFails,
         AccumulateScenarioError, Gather, SaveScenario, SaveFails, EndSinglePass,
         EndAdaptivePass, RefineMesh, RefineMeshFails, RebuildOperators, RebuildFails,
         SaveAnalysis, vars, history
<1>2. factorizations' \in Nat
  BY <1>1 DEF CountInv, Solve, BeginPass
<1>3. coupling' = coupling
  BY SettingsKept DEF settings
<1>4. ~coupling => coupling_results' = coupling_results
  BY DEF Next, Step, RunSetup, SetupFails, Run, BeginPass, BeginPassFails, PrepareAnalysis,
         Imprint, OpensPoint, Solve, SolveFails, AccumulateScenarioError, Gather, SaveScenario,
         SaveFails, EndSinglePass, EndAdaptivePass, RefineMesh, RefineMeshFails,
         RebuildOperators, RebuildFails, SaveAnalysis, vars
<1> QED BY <1>2, <1>3, <1>4 DEF CountInv

\* In a pass, and after it, the points that are open are points of the plan.
LEMMA PointsOfPass ==
  ASSUME SystemInv, SeriesInv, CountInv, InPass \/ pc = "ran" PROVE PointsInv
<1> SUFFICES ASSUME coupling PROVE PointsInv
  BY DEF PointsInv
<1>1. Opened \in 0..Cardinality(FrequencyPoints) /\ Cardinality(FrequencyPoints) \in Nat
  BY ItemPoint
<1>2. /\ coupling_results =
           Series(Points, ColumnsAt(sequence), NTerminals, Opened, Quot, Gathered)
      /\ factorizations <= Opened /\ factorizations \in Nat
  BY DEF SeriesInv, CountInv
<1>3. Len(coupling_results) = Opened
  BY <1>1, <1>2, SeriesLength
<1> QED BY <1>1, <1>2, <1>3 DEF PointsInv

\* No step opens a point, or factors, outside a pass.
LEMMA PointsOutside ==
  ASSUME SystemInv, PointsInv, [Next]_vars, ~InPass', pc' # "ran" PROVE PointsInv'
<1>1. FrequencyPoints' = FrequencyPoints /\ coupling' = coupling
  BY PlanKept, SettingsKept DEF settings
<1>2. coupling_results' = coupling_results /\ factorizations' = factorizations
  BY DEF Next, Step, RunSetup, SetupFails, Run, BeginPass, BeginPassFails, Imprint, Solve,
         SolveFails, AccumulateScenarioError, Gather, SaveScenario, SaveFails, EndSinglePass,
         EndAdaptivePass, RefineMesh, RefineMeshFails, RebuildOperators, RebuildFails,
         SaveAnalysis, vars, history, InPass
<1> QED BY <1>1, <1>2 DEF PointsInv

\* What is open when a run ends is every point, each with a column per terminal.
LEMMA SeriesIsWhole ==
  ASSUME SystemInv, SeriesInv PROVE CouplingSeriesComplete
<1> SUFFICES ASSUME coupling, pc = "ran" PROVE CouplingSeriesComplete
  BY DEF CouplingSeriesComplete
<1> DEFINE c == Cardinality(FrequencyPoints)
           g(i) == {ColumnsAt(sequence)[i][t] : t \in 1..(IF i <= c THEN NTerminals ELSE 0)}
           e(i) == [Frequency |-> Points[i], columns |-> g(i)]
           h(i, t) == Column(Points[i], sequence, t)
<1>1. /\ c \in Nat /\ Opened = c /\ Quot = c /\ Gathered = 0 /\ NTerminals \in Nat
      /\ Configured
  BY ItemPoint DEF Gathered, SystemInv
<1>2. coupling_results = [i \in 1..c |-> e(i)]
  BY <1>1 DEF SeriesInv, Series
<1>3. ASSUME NEW i \in 1..c PROVE g(i) = {h(i, t) : t \in Terminals}
  BY <1>1, <1>3 DEF ColumnsAt, Terminals
<1> HIDE DEF c, g
<1>4. DOMAIN coupling_results = 1..c
      /\ \A i \in 1..c : /\ coupling_results[i].Frequency = Points[i]
                         /\ coupling_results[i].columns = {h(i, t) : t \in Terminals}
  BY <1>2, <1>3
<1>5. /\ \A i \in 1..c : Points[i] \in FrequencyPoints
      /\ \A i, j \in 1..c : i < j => Points[i] < Points[j]
      /\ \A f \in FrequencyPoints : \E i \in 1..c : Points[i] = f
  BY <1>1, PointsAscend DEF c
<1>6. {coupling_results[i].Frequency : i \in DOMAIN coupling_results} = FrequencyPoints
  BY <1>4, <1>5
<1>7. \A i, j \in DOMAIN coupling_results :
        i < j => coupling_results[i].Frequency < coupling_results[j].Frequency
  BY <1>4, <1>5
<1>8. \A i, t : h(i, t).driven = t /\ h(i, t).rows = Rows(Points[i], sequence)
  BY DEF Column
<1>9. ASSUME NEW w, NEW m
      PROVE  /\ {r.row : r \in Rows(w, m)} = Terminals
             /\ \A r \in Rows(w, m) : r.of = r.row /\ r.mesh = m /\ r.omega = w
  <2> DEFINE v(t) == [row |-> t, of |-> t, mesh |-> m, omega |-> w]
  <2>1. Rows(w, m) = {v(t) : t \in Terminals}
    BY DEF Rows
  <2>2. \A t : v(t).row = t /\ v(t).of = t /\ v(t).mesh = m /\ v(t).omega = w
    OBVIOUS
  <2> HIDE DEF v
  <2> QED BY <2>1, <2>2
<1>10. ASSUME NEW i \in 1..c
       PROVE  Cardinality({h(i, t) : t \in Terminals}) = NTerminals
  <2> DEFINE U == {h(i, t) : t \in Terminals}
             f == [t \in Terminals |-> h(i, t)]
  <2> HIDE DEF h
  <2>1. \A t, u \in Terminals : h(i, t) = h(i, u) => t = u
    BY <1>8
  <2>2. f \in Bijection(Terminals, U)
    BY <2>1 DEF Bijection, Injection, Surjection, IsInjective
  <2>3. IsFiniteSet(Terminals) /\ Cardinality(Terminals) = NTerminals
    BY <1>1, FS_Interval DEF Terminals
  <2>4. ExistsBijection(Terminals, U)
    BY <2>2 DEF ExistsBijection
  <2> QED BY <2>3, <2>4, FS_Bijection
<1> HIDE DEF h
<1>11. ASSUME NEW i \in DOMAIN coupling_results
       PROVE  LET point == coupling_results[i]
              IN /\ {k.driven : k \in point.columns} = Terminals
                 /\ Cardinality(point.columns) = NTerminals
                 /\ \A k \in point.columns :
                      /\ {r.row : r \in k.rows} = Terminals
                      /\ \A r \in k.rows : /\ r.of = r.row /\ r.mesh = sequence
                                           /\ r.omega = point.Frequency
  <2> DEFINE point == coupling_results[i]
             U == {h(i, t) : t \in Terminals}
  <2>1. i \in 1..c
    BY <1>4
  <2>2. point.columns = U /\ point.Frequency = Points[i]
    BY <1>4, <2>1
  <2>3. Cardinality(U) = NTerminals
    BY <1>10, <2>1
  <2>4. {k.driven : k \in U} = Terminals
    BY <1>8
  <2>5. \A k \in U : k.rows = Rows(Points[i], sequence)
    BY <1>8
  <2> HIDE DEF point, U
  <2>6. \A k \in U : /\ {r.row : r \in k.rows} = Terminals
                     /\ \A r \in k.rows : r.of = r.row /\ r.mesh = sequence /\ r.omega = Points[i]
    BY <1>9, <2>5
  <2>7. /\ {k.driven : k \in point.columns} = Terminals
        /\ Cardinality(point.columns) = NTerminals
        /\ \A k \in point.columns :
             /\ {r.row : r \in k.rows} = Terminals
             /\ \A r \in k.rows : /\ r.of = r.row /\ r.mesh = sequence
                                  /\ r.omega = point.Frequency
    BY <2>2, <2>3, <2>4, <2>6
  <2> QED BY <2>7 DEF point
<1> QED BY <1>6, <1>7, <1>11 DEF CouplingSeriesComplete

\* In every run the series follows the items of the pass.
LEMMA SeriesInvariance == Spec => [](SeriesInv /\ CountInv /\ PointsInv)
<1> DEFINE pass == InPass \/ pc = "ran"
<1>1. Init => SeriesInv /\ CountInv /\ PointsInv
  <2> SUFFICES ASSUME Init PROVE SeriesInv /\ CountInv /\ PointsInv
    OBVIOUS
  <2>1. Configured
    BY DriverInitInv
  <2>2. Cardinality(FrequencyPoints) \in Nat
    BY <2>1, ScenariosOfRun
  <2> QED BY <2>2 DEF Init, SeriesInv, CountInv, PointsInv, InPass
<1>2. SystemInv /\ SystemInv' /\ SeriesInv /\ CountInv /\ [Next]_vars
        => SeriesInv' /\ CountInv'
  BY SeriesNext, CountNext
<1>3. SystemInv /\ SeriesInv /\ CountInv /\ pass => PointsInv
  BY PointsOfPass
<1>4. SystemInv /\ PointsInv /\ [Next]_vars /\ ~pass' => PointsInv'
  BY PointsOutside
<1> HIDE DEF pass
<1> QED BY <1>1, <1>2, <1>3, <1>4, RunInvariance, PTL DEF Spec

\* What a coupling run hands to the writers is whole: its frequencies are the scenarios',
\* ascending, with one column per terminal, each row its own terminal's on the last mesh
\* at the point's frequency, whatever the numbers of points and terminals; and no pass
\* factored, or built a preconditioner, more often than once per point.
THEOREM CouplingIsWhole == Spec => []CouplingPassIsWhole
<1>1. SystemInv /\ SeriesInv /\ PointsInv => CouplingPassIsWhole
  BY SeriesIsWhole DEF CouplingPassIsWhole, OneFactorizationPerPoint, PointsInv
<1> QED BY <1>1, RunInvariance, SeriesInvariance, PTL
-----------------------------------------------------------------------------
(* The records of the passes.                                              *)

\* One more fold: whatever was the mean of n is the mean of n + 1.
LEMMA FoldedIsMean ==
  ASSUME NEW weights \in Seq([mesh : Nat, num : Nat, den : Nat]), NEW m \in Nat,
         \A i \in 1..Len(weights) : IsMean(weights[i], Len(weights), m)
  PROVE  LET n == Len(weights)
             folded == Folded(weights, n, m)
         IN /\ folded \in Seq([mesh : Nat, num : Nat, den : Nat]) /\ Len(folded) = n + 1
            /\ \A i \in 1..(n + 1) : IsMean(folded[i], n + 1, m)
<1> DEFINE n == Len(weights)
           R == [mesh : Nat, num : Nat, den : Nat]
           v(i) == [weights[i] EXCEPT !.num = @ * n, !.den = @ * (n + 1)]
           old == [i \in DOMAIN weights |-> v(i)]
           new == [mesh |-> m, num |-> 1, den |-> n + 1]
           folded == Append(old, new)
<1>1. n \in Nat /\ DOMAIN weights = 1..n /\ \A i \in 1..n : weights[i] \in R
  <2> HIDE DEF R
  <2>1. weights \in Seq(R)
    BY DEF R
  <2> QED BY <2>1
<1> HIDE DEF n
<1>2. ASSUME NEW i \in 1..n PROVE v(i) \in R /\ IsMean(v(i), n + 1, m)
  <2> DEFINE w == weights[i]
  <2>1. w \in R /\ w.mesh = m /\ w.num * n = w.den
    BY <1>1 DEF n, IsMean
  <2>2. w.num \in Nat /\ w.den \in Nat
    BY <2>1
  <2> DEFINE a == w.num
             b == w.den
  <2>3. v(i) = [mesh |-> m, num |-> a * n, den |-> b * (n + 1)]
    <3>1. w = [mesh |-> m, num |-> a, den |-> b]
      BY <2>1
    <3>2. v(i) = [w EXCEPT !.num = a * n, !.den = b * (n + 1)]
      OBVIOUS
    <3> HIDE DEF w, a, b, v
    <3> QED BY <3>1, <3>2
  <2> HIDE DEF w
  <2>4. a * n = b /\ b * (n + 1) \in Nat /\ (a * n) * (n + 1) = b * (n + 1)
    BY <1>1, <2>1, <2>2
  <2> HIDE DEF a, b, v
  <2>5. v(i).mesh = m /\ v(i).num = a * n /\ v(i).den = b * (n + 1)
    BY <2>3
  <2>6. v(i) \in R
    BY <2>2, <2>3, <2>4 DEF a, b
  <2> QED BY <2>4, <2>5, <2>6 DEF IsMean
<1>3. new \in R /\ IsMean(new, n + 1, m)
  BY <1>1 DEF IsMean
<1> HIDE DEF v, new, R
<1>4. old \in Seq(R) /\ Len(old) = n /\ \A i \in 1..n : old[i] = v(i)
  BY <1>1, <1>2
<1> HIDE DEF old
<1>5. folded \in Seq(R) /\ Len(folded) = n + 1 /\ (\A i \in 1..n : folded[i] = old[i])
      /\ folded[n + 1] = new
  BY <1>3, <1>4, AppendProperties
<1> HIDE DEF folded
<1>6. ASSUME NEW i \in 1..(n + 1) PROVE IsMean(folded[i], n + 1, m)
  <2>1. i \in 1..n \/ i = n + 1
    BY <1>1
  <2> QED BY <1>2, <1>3, <1>4, <1>5, <2>1
<1>7. Folded(weights, n, m) = folded
  BY DEF Folded, folded, old, new, v
<1> QED BY <1>5, <1>6, <1>7 DEF n, R

\* The indicators of a pass are folded one by one, from none; no pass folds, or
\* factors, more often than it solves.
LEMMA ErrorNext ==
  ASSUME SystemInv, ErrorInv, [Next]_vars PROVE ErrorInv'
<1> DEFINE R == [mesh : Nat, num : Nat, den : Nat]
           L == Len(Plan)
<1>1. /\ Plan' = Plan /\ adaptive' = adaptive /\ adaptive \in BOOLEAN
      /\ L \in Nat /\ item \in 1..(L + 1) /\ (UnderWay => item <= L)
  BY PlanKept, PlanItems, SettingsKept DEF settings, SystemInv, DriverInv, Configured
<1>2. /\ ~adaptive => amr_error_samples = 0
      /\ amr_error_samples \in 0..L /\ error_weights \in Seq(R)
      /\ Len(error_weights) = amr_error_samples
      /\ adaptive /\ InPass =>
           /\ amr_error_samples = IF pc \in {"gather", "save"} THEN item ELSE item - 1
           /\ \A i \in 1..amr_error_samples : IsMean(error_weights[i], amr_error_samples, sequence)
      /\ factorizations \in 0..L
      /\ InPass => factorizations <= IF pc \in {"column", "solve"} THEN item - 1 ELSE item
  BY DEF ErrorInv
<1> HIDE DEF L, R
<1>3. ASSUME UNCHANGED <<error_weights, amr_error_samples>>, factorizations' = factorizations,
             ~InPass'
      PROVE  ErrorInv'
  BY <1>1, <1>2, <1>3 DEF ErrorInv, L, R
<1>4. ASSUME UNCHANGED <<error_weights, amr_error_samples>>, sequence' = sequence,
             InPass, InPass',
             item' - (IF pc' \in {"gather", "save"} THEN 0 ELSE 1) =
               item - (IF pc \in {"gather", "save"} THEN 0 ELSE 1),
             factorizations' \in 0..L,
             factorizations' <= IF pc' \in {"column", "solve"} THEN item' - 1 ELSE item',
             item' \in Nat
      PROVE  ErrorInv'
  <2>1. adaptive =>
           amr_error_samples' = IF pc' \in {"gather", "save"} THEN item' ELSE item' - 1
    <3> DEFINE x == IF pc \in {"gather", "save"} THEN 0 ELSE 1
               y == IF pc' \in {"gather", "save"} THEN 0 ELSE 1
    <3>1. adaptive => amr_error_samples = item - x
      BY <1>1, <1>2, <1>4
    <3>2. amr_error_samples' = amr_error_samples /\ item' - y = item - x
      BY <1>4
    <3> QED BY <1>4, <3>1, <3>2
  <2>2. adaptive => \A i \in 1..amr_error_samples' :
                       IsMean(error_weights'[i], amr_error_samples', sequence')
    BY <1>2, <1>4
  <2> QED BY <1>1, <1>2, <1>4, <2>1, <2>2 DEF ErrorInv, L, R, IsMean
<1>5. CASE BeginPass
  <2>1. /\ error_weights' = <<>> /\ amr_error_samples' = 0 /\ factorizations' = 0
        /\ item' = 1 /\ pc' = "column"
    BY <1>5 DEF BeginPass, ResetErrors
  <2>2. <<>> \in Seq(R) /\ Len(<<>>) = 0
    BY EmptySeq
  <2>3. error_weights' \in Seq(R) /\ Len(error_weights') = 0
    BY <2>1, <2>2
  <2> QED BY <1>1, <2>1, <2>3 DEF ErrorInv, L, R
<1>6. CASE Imprint
  BY <1>1, <1>2, <1>4, <1>6 DEF Imprint, ImprintScenario, InPass, amr, history
<1>7. CASE Solve
  <2>1. /\ UNCHANGED <<error_weights, amr_error_samples>> /\ sequence' = sequence
        /\ item' = item /\ pc = "solve" /\ pc' = "fold"
        /\ factorizations' \in {factorizations, factorizations + 1}
    BY <1>2, <1>7 DEF Solve, SolveSystem, operators, amr
  <2> QED BY <1>1, <1>2, <1>4, <2>1 DEF InPass, UnderWay
<1>8. CASE AccumulateScenarioError /\ adaptive
  <2>1. /\ pc = "fold" /\ pc' = "gather" /\ item' = item /\ factorizations' = factorizations
        /\ amr_error_samples' = amr_error_samples + 1 /\ sequence' = sequence
        /\ phase = "solved"
    BY <1>8 DEF AccumulateScenarioError, EstimateCurrentSolutionError, history, operators
  <2>2. PICK s \in fespace : error_weights' = Folded(error_weights, amr_error_samples, s.mesh)
    BY <1>8 DEF AccumulateScenarioError
  <2>3. s.mesh = sequence /\ sequence \in Nat
    BY <2>1, MaxSequenceAssumption DEF SystemInv, IInv, Fresh, Live, OpTypeOK, Meshes
  <2>4. /\ amr_error_samples = item - 1 /\ item <= L
        /\ \A i \in 1..amr_error_samples : IsMean(error_weights[i], amr_error_samples, sequence)
    BY <1>1, <1>2, <1>8, <2>1 DEF InPass, UnderWay
  <2>5. LET n == Len(error_weights)
            folded == Folded(error_weights, n, sequence)
        IN /\ folded \in Seq(R) /\ Len(folded) = n + 1
           /\ \A i \in 1..(n + 1) : IsMean(folded[i], n + 1, sequence)
    BY <1>2, <2>3, <2>4, FoldedIsMean DEF R
  <2>6. /\ error_weights' \in Seq(R) /\ Len(error_weights') = amr_error_samples'
        /\ \A i \in 1..amr_error_samples' :
              IsMean(error_weights'[i], amr_error_samples', sequence')
    BY <1>2, <2>1, <2>2, <2>3, <2>5
  <2> QED BY <1>1, <1>2, <1>8, <2>1, <2>4, <2>6 DEF ErrorInv, InPass, L, R, IsMean
<1>9. CASE AccumulateScenarioError /\ ~adaptive
  <2>1. /\ UNCHANGED <<error_weights, amr_error_samples>> /\ item' = item
        /\ pc = "fold" /\ pc' = "gather" /\ factorizations' = factorizations
    BY <1>9 DEF AccumulateScenarioError, history
  <2> QED BY <1>1, <1>2, <1>9, <2>1 DEF ErrorInv, InPass, L, R
<1>10. CASE Gather
  <2>1. /\ UNCHANGED <<error_weights, amr_error_samples>> /\ item' = item
        /\ pc = "gather" /\ pc' = "save" /\ factorizations' = factorizations
        /\ sequence' = sequence
    BY <1>10, MeshKept DEF Gather, amr, RefineMesh, RefineMeshFails
  <2> QED BY <1>1, <1>2, <1>4, <2>1 DEF InPass
<1>11. CASE SaveScenario
  <2>1. /\ UNCHANGED <<error_weights, amr_error_samples>> /\ item' = item + 1
        /\ pc = "save" /\ pc' = "column" /\ factorizations' = factorizations
        /\ sequence' = sequence
    BY <1>11 DEF SaveScenario, amr, history, opvars
  <2> QED BY <1>1, <1>2, <1>4, <2>1 DEF InPass
<1>12. CASE UNCHANGED vars
  <2>1. /\ UNCHANGED <<error_weights, amr_error_samples, item, pc, factorizations, sequence>>
    BY <1>12 DEF vars, amr, history, opvars
  <2> QED BY <1>1, <1>2, <2>1 DEF ErrorInv, InPass, L, R, IsMean
<1>13. CASE \/ RunSetup \/ SetupFails \/ Run \/ BeginPassFails \/ SolveFails
            \/ SaveFails \/ EndSinglePass \/ EndAdaptivePass \/ RefineMesh \/ RefineMeshFails
            \/ RebuildOperators \/ RebuildFails \/ SaveAnalysis
  BY <1>3, <1>13
  DEF RunSetup, SetupFails, Run, BeginPassFails, SolveFails, SaveFails, EndSinglePass,
      EndAdaptivePass, RefineMesh, RefineMeshFails, RebuildOperators, RebuildFails,
      SaveAnalysis, InPass, amr, history
<1> QED
  BY <1>5, <1>6, <1>7, <1>8, <1>9, <1>10, <1>11, <1>12, <1>13, <1>1 DEF Next, Step

\* A pass ends with its mesh recorded last; a refinement makes room for the next.
LEMMA HistoryNext ==
  ASSUME SystemInv, HistoryInv, [Next]_vars PROVE HistoryInv'
<1> DEFINE R == [mesh : Nat, true_dofs : Nat]
           n == Len(amr_history)
<1>1. /\ adaptive' = adaptive /\ adaptive \in BOOLEAN /\ sequence \in Nat /\ sequence' \in Nat
      /\ MaxIterations \in Nat
  <2>1. adaptive' = adaptive /\ adaptive \in BOOLEAN
    BY SettingsKept DEF settings, SystemInv, Configured
  <2>2. sequence \in Nat
    BY MaxSequenceAssumption DEF SystemInv, IInv, OpTypeOK, Meshes
  <2>3. sequence' \in Nat
    BY <2>2, MeshKept
  <2> QED BY <2>1, <2>2, <2>3, RunAssumption
<1>2. /\ iteration \in 0..MaxIterations
      /\ amr_history \in Seq(R) /\ n <= Bound
      /\ n \in Nat /\ DOMAIN amr_history = 1..n /\ \A i \in 1..n : amr_history[i].mesh \in Nat
  <2>1. iteration \in 0..MaxIterations /\ amr_history \in Seq(R) /\ n <= Bound
    BY DEF HistoryInv
  <2>2. /\ n \in Nat /\ DOMAIN amr_history = 1..n
        /\ \A i \in 1..n : amr_history[i] \in R
    <3> HIDE DEF R
    <3> QED BY <2>1, LenProperties, ElementOfSeq
  <2>3. \A r \in R : r.mesh \in Nat
    OBVIOUS
  <2> HIDE DEF R
  <2> QED BY <2>1, <2>2, <2>3
<1>3. /\ \A i, j \in 1..n : i < j => amr_history[i].mesh < amr_history[j].mesh
      /\ pc \in {"refine", "rebuild"} => adaptive
      /\ adaptive /\ pc \in {"refine", "rebuild", "ran"} => n = iteration + 1
      /\ pc = "refine" => \A i \in 1..n : amr_history[i].mesh <= sequence
      /\ pc = "rebuild" => \A i \in 1..n : amr_history[i].mesh < sequence
      /\ pc \in {"refine", "rebuild"} => iteration + 1 < MaxIterations
  <2>1. DOMAIN amr_history = 1..n /\ adaptive \in BOOLEAN
    BY <1>1, <1>2
  <2>2. /\ \A i, j \in DOMAIN amr_history :
             i < j => amr_history[i].mesh < amr_history[j].mesh
        /\ pc \in {"refine", "rebuild"} => adaptive
        /\ adaptive /\ pc \in {"refine", "rebuild", "ran"} => n = iteration + 1
        /\ pc = "refine" => \A i \in DOMAIN amr_history : amr_history[i].mesh <= sequence
        /\ pc = "rebuild" => \A i \in DOMAIN amr_history : amr_history[i].mesh < sequence
        /\ pc \in {"refine", "rebuild"} => iteration + 1 < MaxIterations
    BY <2>1, Zenon DEF HistoryInv
  <2> HIDE DEF n
  <2> QED BY <2>1, <2>2
<1> HIDE DEF R, n
\* The history stays, and the driver stays on its side of the passes.
<1>4. ASSUME UNCHANGED <<iteration, amr_history>>, sequence' = sequence,
             pc' = pc \/ pc' \in {"failed", "saved", "ready"}
                      \/ ((InPass \/ pc = "begin") /\ InPass')
      PROVE  HistoryInv'
  BY <1>1, <1>4 DEF HistoryInv, InPass, Bound
<1>5. CASE Run
  <2>1. amr_history' = <<>> /\ iteration' = 0 /\ pc' = "begin" /\ sequence' = sequence
    BY <1>5 DEF Run, ClearHistory, opvars
  <2>2. amr_history' \in Seq(R) /\ Len(amr_history') = 0 /\ DOMAIN amr_history' = {}
    BY <2>1, EmptySeq
  <2> QED BY <1>1, <2>1, <2>2 DEF HistoryInv, InPass, Bound, R
<1>6. CASE EndSinglePass
  BY <1>1, <1>6 DEF EndSinglePass, HistoryInv, InPass, Bound, amr, opvars
<1>7. CASE EndAdaptivePass
  <2> DEFINE e == [mesh |-> sequence, true_dofs |-> TrueDofs]
  <2>1. /\ adaptive /\ pc = "column" /\ sequence' = sequence /\ iteration' = iteration
        /\ amr_history' = Append(amr_history, e)
        /\ pc' \in {"ran", "refine"} /\ (pc' = "refine" => ~LastIteration)
    BY <1>7 DEF EndAdaptivePass, PassDone, opvars
  <2>2. e \in R /\ e.mesh = sequence
    BY <1>1 DEF R, TrueDofs
  <2>3. /\ n = iteration /\ iteration < Bound
        /\ \A i \in 1..n : amr_history[i].mesh < sequence
    BY <1>2, <2>1 DEF HistoryInv, InPass, n
  <2> HIDE DEF e
  <2>4. /\ amr_history' \in Seq(R) /\ Len(amr_history') = n + 1
        /\ DOMAIN amr_history' = 1..(n + 1)
        /\ \A i \in 1..n : amr_history'[i] = amr_history[i]
        /\ amr_history'[n + 1] = e
    BY <1>2, <2>1, <2>2, AppendProperties, LenProperties DEF n
  <2>5. \A i \in 1..(n + 1) : i \in 1..n \/ i = n + 1
    BY <1>2
  <2>6. \A i \in 1..(n + 1) : amr_history'[i].mesh <= sequence
    BY <1>1, <1>2, <2>2, <2>3, <2>4, <2>5
  <2>7. \A i, j \in 1..(n + 1) : i < j => amr_history'[i].mesh < amr_history'[j].mesh
    <3> TAKE i, j \in 1..(n + 1)
    <3> HAVE i < j
    <3>1. i \in 1..n
      BY <1>2
    <3>2. CASE j \in 1..n
      BY <1>3, <2>4, <3>1, <3>2
    <3>3. CASE j = n + 1
      BY <2>2, <2>3, <2>4, <3>1, <3>3
    <3> QED BY <2>5, <3>2, <3>3
  <2>8. pc' = "refine" => iteration + 1 < MaxIterations
    BY <1>1, <1>2, <2>1 DEF LastIteration
  <2>9. n + 1 <= Bound
    BY <1>1, <1>2, <2>3 DEF Bound
  <2> QED
    BY <1>1, <1>2, <2>1, <2>2, <2>3, <2>4, <2>6, <2>7, <2>8, <2>9
    DEF HistoryInv, InPass, Bound, R, n
<1>8. CASE RefineMesh
  <2>1. /\ UNCHANGED <<iteration, amr_history>> /\ sequence' = sequence + 1
        /\ pc = "refine" /\ pc' = "rebuild"
    BY <1>8 DEF RefineMesh, RefineConforming, amr
  <2>2. \A i \in 1..n : amr_history[i].mesh < sequence + 1
    <3>1. \A i \in 1..n : amr_history[i].mesh <= sequence
      BY <1>3, <2>1
    <3> QED BY <1>1, <1>2, <3>1
  <2> QED BY <1>1, <1>2, <1>3, <2>1, <2>2 DEF HistoryInv, InPass, Bound, R, n
<1>9. CASE RefineMeshFails
  <2>1. /\ UNCHANGED <<iteration, amr_history>> /\ pc = "refine" /\ pc' = "failed"
    BY <1>9 DEF RefineMeshFails, amr
  <2> QED BY <1>1, <2>1 DEF HistoryInv, InPass, Bound
<1>10. CASE RebuildOperators
  <2>1. /\ UNCHANGED amr_history /\ iteration' = iteration + 1 /\ sequence' = sequence
        /\ pc = "rebuild" /\ pc' = "begin"
    BY <1>10, MeshKept DEF RebuildOperators, RefineMesh, RefineMeshFails
  <2>2. /\ adaptive /\ n = iteration + 1 /\ iteration + 1 < MaxIterations
        /\ \A i \in 1..n : amr_history[i].mesh < sequence
    BY <1>1, <1>2, <1>3, <2>1
  <2>3. Bound = MaxIterations
    BY <1>1, <1>2, <2>2 DEF Bound
  <2> QED BY <1>1, <1>2, <1>3, <2>1, <2>2, <2>3 DEF HistoryInv, InPass, Bound, R, n
<1>11. ASSUME ~Run, ~EndSinglePass, ~EndAdaptivePass, ~RefineMesh, ~RefineMeshFails,
              ~RebuildOperators
       PROVE  HistoryInv'
  <2>1. UNCHANGED <<iteration, amr_history>>
    BY <1>11
    DEF Next, Step, RunSetup, SetupFails, BeginPass, BeginPassFails, Imprint, Solve,
        SolveFails, AccumulateScenarioError, Gather, SaveScenario, SaveFails, RebuildFails,
        SaveAnalysis, vars, amr
  <2>2. pc' = pc \/ pc' \in {"failed", "saved", "ready"}
                 \/ ((InPass \/ pc = "begin") /\ InPass')
    BY <1>11
    DEF Next, Step, RunSetup, SetupFails, BeginPass, BeginPassFails, Imprint, Solve,
        SolveFails, AccumulateScenarioError, Gather, SaveScenario, SaveFails, RebuildFails,
        SaveAnalysis, vars, InPass
  <2> QED BY <1>4, <1>11, <2>1, <2>2, MeshKept
<1> QED BY <1>5, <1>6, <1>7, <1>8, <1>9, <1>10, <1>11

\* What the driver keeps of a pass is what it records of it.
LEMMA RecordsOfPasses ==
  ASSUME SystemInv, CountInv, PointsInv, ErrorInv, HistoryInv PROVE PassesAreRecorded
<1>1. Configured /\ DriverInv /\ adaptive \in BOOLEAN
  BY DEF SystemInv, Configured
<1>2. Cardinality(FrequencyPoints) \in Nat
  BY <1>1, ScenariosOfRun
<1>3. RunTypeOK
  <2>1. Len(coupling_results) <= Cardinality(FrequencyPoints)
    <3>1. CASE coupling
      BY <3>1 DEF PointsInv
    <3>2. CASE ~coupling
      <4>1. coupling_results = <<>> /\ Len(<<>>) = 0
        BY <3>2 DEF CountInv
      <4> QED BY <1>2, <4>1
    <3> QED BY <3>1, <3>2
  <2>2. Len(error_weights) <= Len(Plan) /\ amr_error_samples \in 0..Len(Plan)
        /\ factorizations \in 0..Len(Plan)
    BY DEF ErrorInv
  <2>3. iteration \in 0..MaxIterations
    BY DEF HistoryInv
  <2> QED BY <1>1, <2>1, <2>2, <2>3 DEF RunTypeOK, DriverInv
<1>4. FoldIsMean
  <2> SUFFICES ASSUME pc = "gather", adaptive PROVE FoldIsMean
    BY DEF FoldIsMean
  <2>1. /\ amr_error_samples = item /\ Len(error_weights) = item
        /\ \A i \in 1..item : IsMean(error_weights[i], item, sequence)
    BY DEF ErrorInv, InPass
  <2>2. DOMAIN error_weights = 1..item
    BY <2>1, LenProperties DEF ErrorInv
  <2> QED BY <2>1, <2>2 DEF FoldIsMean, IsMean
<1>5. HistoryDescribesRun
  <2>1. /\ amr_history \in Seq([mesh : Nat, true_dofs : Nat]) /\ Len(amr_history) <= Bound
        /\ \A i, j \in DOMAIN amr_history : i < j => amr_history[i].mesh < amr_history[j].mesh
    BY DEF HistoryInv
  <2>2. pc = "ran" => IF adaptive
                      THEN /\ amr_history # <<>>
                           /\ amr_history[Len(amr_history)].mesh = sequence
                      ELSE amr_history = <<>>
    <3> SUFFICES ASSUME pc = "ran", adaptive
                 PROVE  amr_history # <<>> /\ amr_history[Len(amr_history)].mesh = sequence
      BY <1>1 DEF HistoryInv
    <3>1. Len(amr_history) = iteration + 1 /\ iteration \in Nat
          /\ amr_history[Len(amr_history)].mesh = sequence
      BY DEF HistoryInv
    <3>2. Len(<<>>) = 0
      OBVIOUS
    <3> QED BY <3>1, <3>2
  <2> QED BY <2>1, <2>2 DEF HistoryDescribesRun, Bound
<1> QED BY <1>3, <1>4, <1>5 DEF PassesAreRecorded

\* The driver stays within its plan; after every fold the combined error is the mean of
\* the indicators of this pass's solves on this mesh, and no other's; the history has one
\* entry per mesh solved, on growing meshes, the last the mesh the results are on, and
\* no more than the iterations allowed: for every plan and every limit.
THEOREM PassesRecorded == Spec => []PassesAreRecorded
<1>1. Init => ErrorInv /\ HistoryInv
  <2> SUFFICES ASSUME Init PROVE ErrorInv /\ HistoryInv
    OBVIOUS
  <2>1. Len(Plan) \in Nat /\ MaxIterations \in Nat
    BY DriverInitInv, PlanItems, RunAssumption
  <2>2. /\ pc = "constructed" /\ error_weights = <<>> /\ amr_error_samples = 0
        /\ factorizations = 0 /\ iteration = 0 /\ amr_history = <<>>
    BY DEF Init
  <2>3. \A S : <<>> \in Seq(S) /\ Len(<<>>) = 0 /\ DOMAIN <<>> = {}
    BY EmptySeq
  <2>4. ErrorInv
    BY <2>1, <2>2, <2>3 DEF ErrorInv, InPass
  <2>5. HistoryInv
    BY <2>1, <2>2, <2>3 DEF HistoryInv, InPass, Bound
  <2> QED BY <2>4, <2>5
<1>2. SystemInv /\ ErrorInv /\ HistoryInv /\ [Next]_vars => ErrorInv' /\ HistoryInv'
  BY ErrorNext, HistoryNext
<1>3. SystemInv /\ CountInv /\ PointsInv /\ ErrorInv /\ HistoryInv => PassesAreRecorded
  BY RecordsOfPasses
<1> QED BY <1>1, <1>2, <1>3, RunInvariance, SeriesInvariance, PTL DEF Spec
-----------------------------------------------------------------------------
(* What is published.                                                      *)

\* An archive opens without a scenario and gains the next one of the plan.
LEMMA ArchiveOpens ==
  ASSUME NEW plan, NEW m
  PROVE  [mesh |-> m, scenarios |-> <<>>, coupling |-> FALSE] = ArchiveOf(plan, m, 0)
<1> DEFINE e(k) == ArchivedScenario(plan, m, k)
<1> HIDE DEF e
<1>1. [k \in 1..0 |-> e(k)] = <<>>
  OBVIOUS
<1> QED BY <1>1 DEF ArchiveOf, e

LEMMA ArchiveGrows ==
  ASSUME NEW plan, NEW m, NEW n \in Nat,
         NEW a, a = ArchiveOf(plan, m, n)
  PROVE  [a EXCEPT !.scenarios = Append(@, ArchivedScenario(plan, m, n + 1))]
           = ArchiveOf(plan, m, n + 1)
<1> DEFINE e(k) == ArchivedScenario(plan, m, k)
           old == [k \in 1..n |-> e(k)]
           new == [k \in 1..(n + 1) |-> e(k)]
<1>1. a = [mesh |-> m, scenarios |-> old, coupling |-> FALSE]
  BY DEF ArchiveOf
<1>2. ArchiveOf(plan, m, n + 1) = [mesh |-> m, scenarios |-> new, coupling |-> FALSE]
  BY DEF ArchiveOf
<1>3. Append(old, e(n + 1)) = new
  <2> HIDE DEF e
  <2> QED OBVIOUS
<1> HIDE DEF e, old, new
<1>4. [a EXCEPT !.scenarios = Append(@, e(n + 1))]
        = [mesh |-> m, scenarios |-> Append(old, e(n + 1)), coupling |-> FALSE]
  <2>1. a.scenarios = old
    BY <1>1
  <2>2. ASSUME NEW x
        PROVE  [a EXCEPT !.scenarios = x] = [mesh |-> m, scenarios |-> x, coupling |-> FALSE]
    <3> DEFINE no == FALSE
    <3>1. a = [mesh |-> m, scenarios |-> old, coupling |-> no]
      BY <1>1
    <3> HIDE DEF no
    <3>2. [a EXCEPT !.scenarios = x] = [mesh |-> m, scenarios |-> x, coupling |-> no]
      BY <3>1
    <3> QED BY <3>2 DEF no
  <2>3. [a EXCEPT !.scenarios = Append(old, e(n + 1))]
          = [mesh |-> m, scenarios |-> Append(old, e(n + 1)), coupling |-> FALSE]
    BY <2>2
  <2> QED BY <2>1, <2>3
<1> QED BY <1>2, <1>3, <1>4 DEF e

\* What SaveScenario writes is the item's, of the mesh, in every enabled format.
LEMMA SavedInPass ==
  ASSUME SystemInv, LoadInv, WriterInv, SaveScenario
  PROVE  /\ W!WriteScenario(Plan[item].name, sequence)
         /\ pc = "save" /\ pc' = "column" /\ item' = item + 1 /\ sequence' = sequence
         /\ item \in 1..Len(Plan)
         /\ W!Enabled(Len(W!Formats)) = output
         /\ writer = "pass" /\ probes = {sequence} /\ next_scenario = Published
<1>1. pc = "save" /\ pc' = "column" /\ item' = item + 1 /\ sequence' = sequence
  BY DEF SaveScenario, opvars
<1>2. PICK s \in fespace : W!WriteScenario(Plan[item].name, s.mesh)
  BY DEF SaveScenario
<1>6. s.mesh = sequence
  BY <1>1 DEF LoadInv, SystemInv, IInv, Fresh, Live
<1>3. item \in 1..Len(Plan)
  BY <1>1, PlanItems DEF SystemInv, DriverInv, UnderWay
<1>4. writer = "pass" /\ probes = {sequence} /\ next_scenario = Published
  BY <1>1 DEF WriterInv, InPass
<1>5. W!Enabled(Len(W!Formats)) = output
  <2>1. output \subseteq {"paraview", "gmsh", "probes", "hdf5"}
    BY RunAssumption DEF SystemInv, Configured
  <2>2. Len(W!Formats) = 4
    BY DEF W!Formats
  <2>3. {W!Formats[i] : i \in 1..4} = {"paraview", "gmsh", "probes", "hdf5"}
    <3>1. 1..4 = {1, 2, 3, 4}
      OBVIOUS
    <3> QED BY <3>1 DEF W!Formats
  <2> QED BY <2>1, <2>2, <2>3 DEF W!Enabled
<1> QED BY <1>1, <1>2, <1>3, <1>4, <1>5, <1>6

\* Saving an item adds it to the archive of the pass.
LEMMA SaveToArchive ==
  ASSUME SystemInv, LoadInv, WriterInv, SaveScenario PROVE WriterInv'
<1>1. /\ W!WriteScenario(Plan[item].name, sequence)
      /\ pc = "save" /\ pc' = "column" /\ item' = item + 1 /\ sequence' = sequence
      /\ item \in 1..Len(Plan) /\ W!Enabled(Len(W!Formats)) = output
      /\ writer = "pass" /\ probes = {sequence} /\ next_scenario = Published
  BY SavedInPass
<1>2. /\ Plan' = Plan /\ output' = output /\ wants_fields' = wants_fields
      /\ wants_fields \in BOOLEAN /\ item \in Nat \ {0}
  BY <1>1, PlanKept, SettingsKept, PlanItems DEF Next, Step, settings, SystemInv, Configured, DriverInv
<1>3. writer' = "pass" /\ probes' = {sequence}
  BY <1>1 DEF W!WriteScenario
<1>4. "hdf5" \in output => archive = {ArchiveOf(Plan, sequence, Published)}
  BY <1>1 DEF WriterInv, InPass
<1>5. CASE ~wants_fields
  <2>1. next_scenario' = next_scenario /\ archive' = archive
    BY <1>1, <1>5 DEF W!WriteScenario, W!disk
  <2>2. Published = 0 /\ Published' = 0
    BY <1>2, <1>5 DEF Published
  <2> QED BY <1>1, <1>2, <1>3, <1>4, <2>1, <2>2 DEF WriterInv
<1>6. CASE wants_fields
  <2>1. W!WriteFormats(Plan[item].name, output, sequence)
    BY <1>1, <1>6 DEF W!WriteScenario
  <2>2. Published = item - 1 /\ Published' = item
    BY <1>1, <1>2, <1>6 DEF Published
  <2>3. next_scenario = item - 1 /\ next_scenario' = item
    BY <1>1, <1>2, <2>1, <2>2 DEF W!WriteFormats
  <2>4. ASSUME "hdf5" \in output PROVE archive' = {ArchiveOf(Plan, sequence, item)}
    <3> DEFINE a == ArchiveOf(Plan, sequence, item - 1)
               e == [id |-> next_scenario, name |-> Plan[item].name, fields |-> sequence,
                     probes |-> probes]
    <3>1. archive = {a}
      BY <1>4, <2>2, <2>4
    <3>2. archive' = {[b EXCEPT !.scenarios = Append(@, e)] : b \in archive}
      BY <2>1, <2>4 DEF W!WriteFormats, W!Archived
    <3>3. e = ArchivedScenario(Plan, sequence, (item - 1) + 1)
      <4>1. (item - 1) + 1 = item
        BY <1>2
      <4> QED BY <1>1, <2>3, <4>1 DEF ArchivedScenario
    <3>4. [a EXCEPT !.scenarios = Append(@, e)] = ArchiveOf(Plan, sequence, (item - 1) + 1)
      <4>1. item - 1 \in Nat
        BY <1>2
      <4> QED BY <3>3, <4>1, ArchiveGrows
    <3>5. (item - 1) + 1 = item
      BY <1>2
    <3> HIDE DEF a, e
    <3> QED BY <3>1, <3>2, <3>4, <3>5
  <2> QED BY <1>1, <1>2, <1>3, <2>2, <2>3, <2>4 DEF WriterInv
<1> QED BY <1>2, <1>5, <1>6

\* In a pass the writer numbers and archives the items in their order, on the mesh of
\* the moment, and starts again with the next pass.
LEMMA WriterNext ==
  ASSUME SystemInv, LoadInv, WriterInv, [Next]_vars PROVE WriterInv'
<1>1. Plan' = Plan /\ output' = output /\ wants_fields' = wants_fields
  BY PlanKept, SettingsKept DEF settings
<1>2. CASE SaveScenario
  BY <1>2, SaveToArchive
<1>3. CASE BeginPass
  <2>1. /\ writer' = "pass" /\ probes' = {sequence} /\ next_scenario' = 0 /\ item' = 1
        /\ sequence' = sequence /\ pc' = "column"
    BY <1>3, MeshKept DEF BeginPass, W!BeginMesh, W!RestartNumbering, opvars
  <2>2. Published' = 0
    BY <2>1 DEF Published
  <2>3. ASSUME "hdf5" \in output PROVE archive' = {ArchiveOf(Plan, sequence, 0)}
    BY <1>3, <2>3, ArchiveOpens DEF BeginPass, W!BeginMesh, W!TruncateArchive
  <2> QED BY <1>1, <2>1, <2>2, <2>3 DEF WriterInv
<1>4. ASSUME UNCHANGED <<wrest, sequence, item>>, InPass' \/ pc' = "ran" => InPass \/ pc = "ran"
      PROVE  WriterInv'
  <2>1. Published' = Published
    BY <1>4 DEF Published, wrest
  <2> QED BY <1>1, <1>4, <2>1 DEF WriterInv, wrest
<1>5. CASE Imprint \/ Solve \/ AccumulateScenarioError \/ Gather
  <2>1. UNCHANGED <<wrest, item>> /\ sequence' = sequence /\ InPass
    BY <1>5, MeshKept
    DEF Imprint, Solve, AccumulateScenarioError, Gather, InPass, RefineMesh, RefineMeshFails
  <2> QED BY <1>4, <2>1
<1>6. CASE EndSinglePass \/ EndAdaptivePass \/ UNCHANGED vars
  <2>1. UNCHANGED <<wrest, sequence, item>>
    BY <1>6 DEF EndSinglePass, EndAdaptivePass, vars, opvars
  <2>2. InPass' \/ pc' = "ran" => InPass \/ pc = "ran"
    BY <1>6 DEF EndSinglePass, EndAdaptivePass, PassDone, vars, InPass
  <2> QED BY <1>4, <2>1, <2>2
<1>7. CASE \/ RunSetup \/ SetupFails \/ Run \/ BeginPassFails \/ SolveFails \/ SaveFails
           \/ RefineMesh \/ RefineMeshFails \/ RebuildOperators \/ RebuildFails \/ SaveAnalysis
  <2>1. ~InPass' /\ pc' # "ran"
    BY <1>7
    DEF RunSetup, SetupFails, Run, BeginPassFails, SolveFails, SaveFails, RefineMesh,
        RefineMeshFails, RebuildOperators, RebuildFails, SaveAnalysis, InPass
  <2> QED BY <2>1 DEF WriterInv
<1> QED BY <1>2, <1>3, <1>5, <1>6, <1>7 DEF Next, Step

\* The file of an item in one format.
FileOf(plan, k, f, m) ==
  [format |-> f, id |-> k - 1, label |-> Label[plan[k].name], name |-> plan[k].name,
   block |-> m, fields |-> m]

\* The files of an item are of the mesh of the moment, block and fields, in every enabled
\* format, and replace those of an earlier pass.
LEMMA SaveToFiles ==
  ASSUME SystemInv, LoadInv, WriterInv, FilesInv, SaveScenario, wants_fields
  PROVE  files' = {g \in files : g.id # item - 1}
                    \cup {FileOf(Plan, item, f, sequence) : f \in FileFormats}
<1> DEFINE n == Plan[item].name
           stem == W!ArtifactName(n)
           Block(f) == CASE f = "gmsh" -> W!GmshBlock
                         [] f = "probes" -> CHOOSE m \in probes : TRUE
                         [] OTHER -> sequence
           F(f) == [format |-> f, id |-> stem.id, label |-> stem.label, name |-> n,
                    block |-> Block(f), fields |-> sequence]
           written == {F(f) : f \in FileFormats}
           Overwritten(g) == \E f \in written : /\ f.format = g.format
                                                /\ f.id = stem.id /\ g.id = stem.id
                                                /\ f.label = g.label
<1>1. /\ W!WriteScenario(n, sequence) /\ W!Enabled(Len(W!Formats)) = output
      /\ probes = {sequence} /\ next_scenario = item - 1 /\ pc = "save"
  BY SavedInPass DEF Published
<1>2. W!WriteFiles(n, output, sequence)
  BY <1>1 DEF W!WriteScenario, W!WriteFormats
<1>3. files' = {g \in files : ~Overwritten(g)} \cup written
  BY <1>2 DEF W!WriteFiles, FileFormats
<1>4. stem.id = item - 1 /\ stem.label = Label[n]
  BY <1>1 DEF W!ArtifactName
<1>5. \A f : Block(f) = sequence
  <2>1. (CHOOSE m \in probes : TRUE) = sequence
    BY <1>1
  <2>2. W!GmshBlock = sequence
    BY DEF W!GmshBlock
  <2> QED BY <2>1, <2>2
<1> HIDE DEF stem, Block, n
<1>6. \A f : F(f) = FileOf(Plan, item, f, sequence)
  BY <1>4, <1>5 DEF FileOf, n
<1>7. \A f : F(f).format = f /\ F(f).id = item - 1 /\ F(f).label = Label[n]
  BY <1>4
<1> HIDE DEF F
<1>8. ASSUME NEW g \in files PROVE Overwritten(g) <=> g.id = item - 1
  <2>1. g.format \in FileFormats /\ g.id \in 0..(Len(Plan) - 1)
        /\ g.label = Label[Plan[g.id + 1].name]
    BY <1>1 DEF FilesInv
  <2>2. ASSUME g.id = item - 1 PROVE Overwritten(g)
    <3>1. item \in Nat
      BY PlanItems DEF SystemInv, DriverInv
    <3>2. g.id + 1 = item
      BY <2>2, <3>1
    <3>3. g.label = Label[n]
      BY <2>1, <3>2 DEF n
    <3> QED BY <1>4, <1>7, <2>1, <2>2, <3>3
  <2> QED BY <1>4, <2>2
<1>9. {g \in files : ~Overwritten(g)} = {g \in files : g.id # item - 1}
  BY <1>8
<1>10. written = {FileOf(Plan, item, f, sequence) : f \in FileFormats}
  BY <1>6
<1> HIDE DEF Overwritten, written
<1> QED BY <1>3, <1>9, <1>10

\* Saving an item leaves every earlier item its files.
LEMMA SaveKeepsFiles ==
  ASSUME SystemInv, LoadInv, WriterInv, FilesInv, SaveScenario PROVE FilesInv'
<1>1. /\ pc = "save" /\ pc' = "column" /\ item' = item + 1 /\ sequence' = sequence
      /\ item \in 1..Len(Plan) /\ Len(Plan) \in Nat
  BY SavedInPass, PlanItems DEF SystemInv
<1>2. /\ Plan' = Plan /\ FileFormats' = FileFormats /\ wants_fields' = wants_fields
      /\ wants_fields \in BOOLEAN
  BY PlanKept, SettingsKept DEF Next, Step, settings, SystemInv, Configured, FileFormats
<1>3. /\ ~wants_fields => files = {}
      /\ \A f \in files : /\ f.format \in FileFormats /\ f.id \in 0..(Len(Plan) - 1)
                          /\ f.label = Label[Plan[f.id + 1].name]
      /\ \A f, g \in files : f.format = g.format /\ f.id = g.id => f = g
      /\ \A f \in files : f.id < item - 1 => f.fields = sequence /\ f.block = sequence
      /\ wants_fields => \A t \in FileFormats, i \in 0..(item - 2) :
                            \E f \in files : f.format = t /\ f.id = i
  BY <1>1 DEF FilesInv, InPass
<1>4. CASE ~wants_fields
  <2>1. files' = {}
    BY <1>3, <1>4, SavedInPass DEF W!WriteScenario, W!disk
  <2> QED BY <1>2, <1>4, <2>1 DEF FilesInv
<1>5. CASE wants_fields
  <2> DEFINE F(f) == FileOf(Plan, item, f, sequence)
  <2>1. files' = {g \in files : g.id # item - 1} \cup {F(f) : f \in FileFormats}
    BY <1>5, SaveToFiles
  <2>2. \A f : /\ F(f).format = f /\ F(f).id = item - 1 /\ F(f).label = Label[Plan[item].name]
               /\ F(f).block = sequence /\ F(f).fields = sequence
    BY DEF FileOf
  <2> HIDE DEF F
  <2>3. item - 1 \in 0..(Len(Plan) - 1) /\ (item - 1) + 1 = item
    BY <1>1
  <2>4. \A f \in files' : /\ f.format \in FileFormats /\ f.id \in 0..(Len(Plan) - 1)
                          /\ f.label = Label[Plan[f.id + 1].name]
    BY <1>3, <2>1, <2>2, <2>3
  <2>5. \A f, g \in files' : f.format = g.format /\ f.id = g.id => f = g
    BY <1>3, <2>1, <2>2
  <2>6. \A f \in files' : f.id < item => f.fields = sequence /\ f.block = sequence
    BY <1>1, <1>3, <2>1, <2>2
  <2>7. ASSUME NEW t \in FileFormats, NEW i \in 0..(item - 1)
        PROVE  \E f \in files' : f.format = t /\ f.id = i
    <3>1. CASE i = item - 1
      BY <2>1, <2>2, <3>1
    <3>2. CASE i # item - 1
      <4>1. i \in 0..(item - 2)
        BY <1>1, <3>2
      <4>2. PICK f \in files : f.format = t /\ f.id = i
        BY <1>3, <1>5, <4>1
      <4> QED BY <2>1, <3>2, <4>2
    <3> QED BY <3>1, <3>2
  <2>8. item' - 1 = item /\ item' - 2 = item - 1
    BY <1>1
  <2> QED BY <1>1, <1>2, <1>5, <2>4, <2>5, <2>6, <2>7, <2>8 DEF FilesInv
<1> QED BY <1>2, <1>4, <1>5

\* The files follow the items of a pass, and those of a pass before wait to be replaced.
LEMMA FilesNext ==
  ASSUME SystemInv, LoadInv, WriterInv, FilesInv, [Next]_vars PROVE FilesInv'
<1>1. Plan' = Plan /\ FileFormats' = FileFormats /\ wants_fields' = wants_fields
  BY PlanKept, SettingsKept DEF settings, FileFormats
<1>2. CASE SaveScenario
  BY <1>2, SaveKeepsFiles
<1>3. CASE BeginPass
  <2>1. files' = files /\ item' = 1 /\ pc = "begin"
    BY <1>3 DEF BeginPass, W!BeginMesh
  <2>2. /\ ~wants_fields => files = {}
        /\ \A f \in files : /\ f.format \in FileFormats /\ f.id \in 0..(Len(Plan) - 1)
                            /\ f.label = Label[Plan[f.id + 1].name]
        /\ \A f, g \in files : f.format = g.format /\ f.id = g.id => f = g
    BY <2>1 DEF FilesInv
  <2>3. \A f \in files : ~(f.id < item' - 1)
    BY <2>1, <2>2
  <2>4. \A i : i \notin 0..(item' - 2)
    BY <2>1
  <2> QED BY <1>1, <2>1, <2>2, <2>3, <2>4 DEF FilesInv
<1>4. ASSUME UNCHANGED <<files, sequence, item>>, pc # "failed",
             InPass' \/ pc' = "ran" => InPass \/ pc = "ran"
      PROVE  FilesInv'
  BY <1>1, <1>4 DEF FilesInv
<1>5. CASE Imprint \/ Solve \/ AccumulateScenarioError \/ Gather
  <2>1. /\ UNCHANGED <<files, item>> /\ sequence' = sequence /\ InPass /\ pc # "failed"
    BY <1>5, MeshKept
    DEF Imprint, Solve, AccumulateScenarioError, Gather, InPass, RefineMesh, RefineMeshFails,
        wrest
  <2> QED BY <1>4, <2>1
<1>6. CASE EndSinglePass \/ EndAdaptivePass
  <2>1. UNCHANGED <<files, sequence, item>> /\ pc # "failed" /\ InPass
    BY <1>6 DEF EndSinglePass, EndAdaptivePass, PassDone, opvars, wrest, InPass
  <2> QED BY <1>4, <2>1
<1>7. CASE UNCHANGED vars
  BY <1>1, <1>7 DEF vars, opvars, wrest, FilesInv, InPass
<1>8. CASE RunSetup \/ Run \/ RefineMesh \/ RebuildOperators \/ SaveAnalysis
  <2>1. files' = files
    BY <1>8
    DEF RunSetup, Run, RefineMesh, RebuildOperators, SaveAnalysis, W!Construct,
        W!SaveAnalysis, W!disk, wrest
  <2>2. pc # "failed" /\ ~InPass' /\ pc' # "ran"
    BY <1>8 DEF RunSetup, Run, RefineMesh, RebuildOperators, SaveAnalysis, InPass
  <2> QED BY <1>1, <2>1, <2>2 DEF FilesInv
<1>9. CASE \/ SetupFails \/ BeginPassFails \/ SolveFails \/ SaveFails \/ RefineMeshFails
           \/ RebuildFails
  BY <1>9
  DEF SetupFails, BeginPassFails, SolveFails, SaveFails, RefineMeshFails, RebuildFails, FilesInv
<1> QED BY <1>2, <1>3, <1>5, <1>6, <1>7, <1>8, <1>9 DEF Next, Step

\* When the run has ended the archive is that of the whole plan, and every format has a
\* file for every item.
LEMMA RunIsPublished ==
  ASSUME SystemInv, WriterInv, FilesInv PROVE PublishedIsFinal
<1> SUFFICES ASSUME pc = "ran" PROVE PublishedIsFinal
  BY DEF PublishedIsFinal
<1> DEFINE L == Len(Plan)
<1>1. item = L + 1 /\ L \in Nat /\ DOMAIN Plan = 1..L /\ wants_fields \in BOOLEAN
  BY PlanItems DEF SystemInv, DriverInv, Configured
<1>2. ASSUME "hdf5" \in output
      PROVE  \E a \in archive :
               /\ a.mesh = sequence
               /\ wants_fields => /\ Len(a.scenarios) = Len(Plan)
                                  /\ \A k \in DOMAIN Plan : /\ a.scenarios[k].name = Plan[k].name
                                                            /\ a.scenarios[k].fields = sequence
  <2> DEFINE e(k) == ArchivedScenario(Plan, sequence, k)
             s == [k \in 1..Published |-> e(k)]
             a == [mesh |-> sequence, scenarios |-> s, coupling |-> FALSE]
  <2>1. archive = {a}
    BY <1>2 DEF WriterInv, ArchiveOf
  <2>2. \A k : e(k).name = Plan[k].name /\ e(k).fields = sequence
    BY DEF ArchivedScenario
  <2>3. a.mesh = sequence /\ a.scenarios = s
    OBVIOUS
  <2> HIDE DEF e, a
  <2>4. ASSUME wants_fields PROVE Len(s) = L /\ \A k \in 1..L : s[k] = e(k)
    <3>1. Published = L
      BY <1>1, <2>4 DEF Published
    <3> QED BY <1>1, <3>1
  <2> HIDE DEF s
  <2> QED BY <1>1, <2>1, <2>2, <2>3, <2>4
<1>3. /\ \A f \in files : f.format \in FileFormats /\ f.id \in 0..(L - 1)
      /\ \A f, g \in files : f.format = g.format /\ f.id = g.id => f = g
      /\ \A f \in files : f.id < item - 1 => f.fields = sequence /\ f.block = sequence
      /\ wants_fields => \A t \in FileFormats, i \in 0..(item - 2) :
                            \E f \in files : f.format = t /\ f.id = i
  BY DEF FilesInv
<1>4. item - 1 = L /\ item - 2 = L - 1
  BY <1>1
<1>5. \A f \in files : f.fields = sequence /\ f.block = sequence
  BY <1>1, <1>3, <1>4
<1>6. ASSUME wants_fields, NEW t \in output \ {"hdf5"}
      PROVE  Cardinality({f \in files : f.format = t}) = Len(Plan)
  <2> DEFINE S == {f \in files : f.format = t}
             b == [f \in S |-> f.id]
  <2>1. b \in Bijection(S, 0..(L - 1))
    <3>1. \A f \in S : f \in files /\ f.format = t /\ f.id \in 0..(L - 1)
      BY <1>3
    <3>2. \A f, g \in S : b[f] = b[g] => f = g
      BY <1>3, <3>1
    <3>3. \A i \in 0..(L - 1) : \E f \in S : b[f] = i
      BY <1>3, <1>4, <1>6 DEF FileFormats
    <3> HIDE DEF S
    <3>4. b \in [S -> 0..(L - 1)]
      BY <3>1
    <3> HIDE DEF b
    <3> QED BY <3>2, <3>3, <3>4, Zenon DEF Bijection, Injection, Surjection, IsInjective
  <2>2. Bijection(0..(L - 1), S) # {}
    BY <2>1, Fun_BijInverse
  <2>3. IsFiniteSet(0..(L - 1)) /\ Cardinality(0..(L - 1)) = L
    <3> HIDE DEF L
    <3>1. 0 \in Int /\ L - 1 \in Int /\ (0 > L - 1 => L = 0)
      BY <1>1
    <3>2. IsFiniteSet(0..(L - 1))
          /\ Cardinality(0..(L - 1)) = IF 0 > L - 1 THEN 0 ELSE (L - 1) - 0 + 1
      BY <3>1, FS_Interval
    <3> QED BY <1>1, <3>1, <3>2
  <2> HIDE DEF S, b
  <2>4. ExistsBijection(0..(L - 1), S)
    BY <2>2 DEF ExistsBijection
  <2>5. Cardinality(S) = L
    BY <2>3, <2>4, FS_Bijection
  <2> QED BY <2>5 DEF S
<1> QED BY <1>2, <1>5, <1>6 DEF PublishedIsFinal

\* After a run, whatever the plan, the formats and the passes it took, the archive lists the
\* plan's scenarios in solve order on the final mesh, every other format has one file per
\* scenario, and no file of an intermediate mesh, or of an earlier run, is left.
THEOREM LastMeshIsPublished == Spec => []PublishedIsFinal
<1>1. Init => WriterInv /\ FilesInv
  <2> SUFFICES ASSUME Init PROVE WriterInv /\ FilesInv
    OBVIOUS
  <2>1. pc = "constructed" /\ files = {}
    BY DEF Init
  <2> QED BY <2>1 DEF WriterInv, FilesInv, InPass
<1>2. SystemInv /\ AnsweringInv /\ WriterInv /\ FilesInv /\ [Next]_vars
        => WriterInv' /\ FilesInv'
  BY WriterNext, FilesNext DEF AnsweringInv
<1>3. SystemInv /\ WriterInv /\ FilesInv => PublishedIsFinal
  BY RunIsPublished
<1> QED
  BY <1>1, <1>2, <1>3, RunInvariance, AnsweringInit, AnsweringNext, PTL DEF Spec
==============================================================================
