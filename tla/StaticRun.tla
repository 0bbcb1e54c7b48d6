------------------------------- MODULE StaticRun -------------------------------
(***************************************************************************)
(* A run of one of the three static solvers (electrostatic, 2D magnetostatic, *)
(* 3D magnetostatic) from Setup to SaveAnalysis, adaptive or not: what is       *)
(* built once per mesh, what once per solve, and what the coupling matrix is     *)
(* gathered from.                                                          *)
(*                                                                         *)
(* A vector or matrix is represented by the refinement sequence of the mesh it  *)
(* was made on; -1 stands for a null pointer.  The unit of a terminal is the    *)
(* load that drives it with one ampere, or the degrees of freedom that are set   *)
(* to one volt: its terminal, its kind, its mesh and the mesh of the area or      *)
(* conductance it is divided by.                                            *)
(***************************************************************************)
EXTENDS Integers, Sequences, FiniteSets

CONSTANTS
  NTerminals,     \* |config.Terminals|; a std::map, so 1..NTerminals is name order
  ScenarioLists,  \* values of config.Scenarios: sequences of sets of driven terminals
  MaxIterations,  \* config.Amr.MaxIterations
  MaxRuns         \* bound on the calls of Run on one solver

Terminals == 1..NTerminals
Physics == {"Electrostatics", "Magnetostatics", "Magnetostatics3D"}

ASSUME StaticAssumption ==
  /\ NTerminals \in Nat /\ MaxIterations \in Nat /\ MaxRuns \in Nat
  /\ ScenarioLists \subseteq Seq(SUBSET Terminals)

VARIABLES
  physics,          \* which solver
  coupling,         \* config.AnalysisType is CouplingMatrix
  adaptive,         \* config.Amr.Enabled
  massive,          \* the terminals with a Massive conductor
  linear_solver,    \* config.LinearSolver
  scenarios,        \* config.Scenarios
  pc,               \* where the run stands
  runs,             \* calls of Run so far
  iteration,        \* of RunAdaptive
  item,             \* index of the current solve in the plan
  sequence,         \* mesh.GetSequence()
  fespace,          \* with the solution vector over it
  A_op,             \* the constrained operator, with its form a
  factors,          \* direct_solver, or the preconditioner
  K,                \* the unconstrained operator of the charge extraction
  natural_rhs,
  unit_loads,       \* terminal_markers, massive_sources or terminal_loads: units
  terminal_areas,   \* entries [terminal, mesh]
  winding_functionals, \* units
  cached_sequence,
  load,             \* {} or what was imprinted: [units, background]
  solution,         \* {} or [meshes, units, background]
  matrix,           \* C or L: the entries [row, column, reads, units, background]
  observed          \* history: what the solutions gathered on this mesh were of

config == <<physics, coupling, adaptive, massive, linear_solver, scenarios>>
built == <<fespace, A_op, factors, K, natural_rhs, unit_loads>>
caches == <<terminal_areas, winding_functionals, cached_sequence>>
solving == <<load, solution>>
loop == <<runs, iteration, item>>
vars == <<config, pc, loop, sequence, built, caches, solving, matrix, observed>>

Unit(t, kind, mesh, norm) == [terminal |-> t, kind |-> kind, mesh |-> mesh, norm |-> norm]

\* BuildSolveScenarios: each terminal on its own, or the configured scenarios.
Drives == IF coupling THEN [t \in Terminals |-> {t}] ELSE scenarios

-----------------------------------------------------------------------------
(* Setup and BuildOperators.                                               *)

\* The terminals whose unit is made with the operators.  The others are the
\* stranded ones of the 2D magnetic solver.
Prebuilt(t) == physics = "Magnetostatics" => t \in massive
Kind(t) == CASE physics = "Electrostatics" -> "dofs"
             [] physics = "Magnetostatics3D" -> "projected"
             [] OTHER -> IF t \in massive THEN "massive" ELSE "winding"

\* Faulty: factored once, as long as the solver lives.
Factored_Once == IF factors = -1 THEN sequence ELSE factors

\* The direct solver or the preconditioner, made from the new matrix.
Factored == sequence

BuildSources ==
  unit_loads' = {Unit(t, Kind(t), sequence, sequence) : t \in {t \in Terminals : Prebuilt(t)}}

\* The unconstrained operator, for the charges of an electrostatic coupling run.
ChargeOperator == IF physics = "Electrostatics" /\ coupling THEN sequence ELSE -1

\* The space, and everything bound to it, for the current mesh.
BuildOperators ==
  /\ fespace' = sequence
  /\ A_op' = sequence
  /\ factors' = Factored
  /\ K' = ChargeOperator
  /\ natural_rhs' = IF physics = "Magnetostatics3D" THEN -1 ELSE sequence
  /\ BuildSources

Setup ==
  /\ pc = "constructed"
  /\ BuildOperators
  /\ pc' = "ready"
  /\ UNCHANGED <<config, loop, sequence, caches, solving, matrix, observed>>

\* A check of the configuration, a conductor without conductance, or a matrix that
\* cannot be factored; the last leaves a space without factors.
BuildFails ==
  /\ pc \in {"constructed", "rebuild"}
  /\ \/ UNCHANGED built
     \/ /\ fespace' = sequence /\ A_op' = sequence /\ factors' = -1
        /\ UNCHANGED <<K, natural_rhs, unit_loads>>
  /\ pc' = "failed"
  /\ UNCHANGED <<config, loop, sequence, caches, solving, matrix, observed>>

-----------------------------------------------------------------------------
(* The driver.                                                             *)

Run ==
  /\ pc \in {"ready", "ran", "saved"}
  /\ runs < MaxRuns
  /\ runs' = runs + 1
  /\ iteration' = 0
  /\ observed' = {}
  /\ pc' = "begin"
  /\ UNCHANGED <<config, item, sequence, built, caches, solving, matrix>>

\* A new matrix for every pass of a coupling run.
ResetMatrix == matrix' = IF coupling THEN {} ELSE matrix

BeginPass ==
  /\ pc = "begin"
  /\ ResetMatrix
  /\ item' = 1
  /\ pc' = "imprint"
  /\ UNCHANGED <<config, runs, iteration, sequence, built, caches, solving, observed>>

EndPass ==
  /\ pc = "imprint"
  /\ item > Len(Drives)

EndSinglePass ==
  /\ EndPass /\ ~adaptive
  /\ pc' = "ran"
  /\ UNCHANGED <<config, loop, sequence, built, caches, solving, matrix, observed>>

LastIteration == iteration + 1 >= MaxIterations

\* Tolerance, size and marking may end the loop after any pass.
EndAdaptivePass ==
  /\ EndPass /\ adaptive
  /\ \E done \in BOOLEAN : pc' = IF done \/ LastIteration THEN "ran" ELSE "refine"
  /\ UNCHANGED <<config, loop, sequence, built, caches, solving, matrix, observed>>

\* Bounds the refinements; no behaviour of the loop reaches it.
MaxSequence == MaxRuns * MaxIterations

Refine ==
  /\ pc = "refine"
  /\ sequence < MaxSequence
  /\ sequence' = sequence + 1
  /\ observed' = {}
  /\ pc' = "rebuild"
  /\ UNCHANGED <<config, loop, built, caches, solving, matrix>>

\* RefineConforming throws before or after the mesh was refined.
RefineFails ==
  /\ pc = "refine"
  /\ sequence < MaxSequence
  /\ sequence' \in {sequence, sequence + 1}
  /\ pc' = "failed"
  /\ UNCHANGED <<config, loop, built, caches, solving, matrix, observed>>

Rebuild ==
  /\ pc = "rebuild"
  /\ BuildOperators
  /\ iteration' = iteration + 1
  /\ pc' = "begin"
  /\ UNCHANGED <<config, runs, item, sequence, caches, solving, matrix, observed>>

-----------------------------------------------------------------------------
(* The stranded terminals' areas and functionals, of MagneticSolver.         *)

\* ForgetMeshCachesOnRefinement
Kept(cache) == IF cached_sequence = sequence THEN cache ELSE {}

Found(cache) == {e.terminal : e \in cache}

\* terminal_areas after TerminalArea was asked for the terminals T.
AreasWith(T) ==
  Kept(terminal_areas) \cup
    {[terminal |-> t, mesh |-> sequence] : t \in T \ Found(Kept(terminal_areas))}

\* The units of the stranded terminals T: N / area over the terminal's elements.
Windings(T) ==
  {Unit(e.terminal, "winding", fespace, e.mesh) : e \in {e \in AreasWith(T) : e.terminal \in T}}

\* BuildTerminalCurrentDensity for the terminals T.
AskAreas(T) ==
  IF T = {} THEN UNCHANGED caches
  ELSE /\ terminal_areas' = AreasWith(T)
       /\ winding_functionals' = Kept(winding_functionals)
       /\ cached_sequence' = sequence

\* WindingFunctional for the terminals T.
AskWindings(T) ==
  LET missing == T \ Found(Kept(winding_functionals))
  IN IF T = {} THEN UNCHANGED caches
     ELSE /\ terminal_areas' = AreasWith(missing)
          /\ winding_functionals' = Kept(winding_functionals) \cup Windings(missing)
          /\ cached_sequence' = sequence

Stranded(T) == {t \in T : ~Prebuilt(t)}

-----------------------------------------------------------------------------
(* One solve.                                                              *)

\* ImprintMode::Field imprints the boundary data: values on the current space, and
\* the natural load made with the operators.
Background ==
  IF coupling THEN {}
  ELSE {sequence} \cup IF physics = "Magnetostatics3D" THEN {} ELSE {natural_rhs}

\* The solution vector and the load start from zero.
ImprintScenario ==
  /\ pc = "imprint"
  /\ item <= Len(Drives)
  /\ LET driven == Drives[item]
     IN /\ AskAreas(Stranded(driven))
        /\ load' = {[units |-> {u \in unit_loads : u.terminal \in driven}
                                 \cup Windings(Stranded(driven)),
                     background |-> Background]}
  /\ solution' = {}
  /\ pc' = "solve"
  /\ UNCHANGED <<config, loop, sequence, built, matrix, observed>>

\* The 2D magnetostatic solver saves a column before it gathers it, the others after.
SolveSystem ==
  /\ pc = "solve"
  /\ solution' = {[meshes |-> {fespace, A_op, factors}, units |-> l.units,
                   background |-> l.background] : l \in load}
  /\ pc' = IF physics = "Magnetostatics" THEN "save" ELSE "gather"
  /\ UNCHANGED <<config, loop, sequence, built, caches, load, matrix, observed>>

\* PCG does not converge and ReportKrylov throws.
SolveFails ==
  /\ pc = "solve"
  /\ linear_solver = "Iterative"
  /\ pc' = "failed"
  /\ UNCHANGED <<config, loop, sequence, built, caches, solving, matrix, observed>>

\* Faulty: the functional of the driven terminal instead of the measured one's.
Reading_Driving(row) ==
  {u \in unit_loads \cup winding_functionals' : u.terminal \in Drives[item]}

\* What row reads the solution with: K on the terminal's degrees of freedom, the
\* massive source over its conductance, the winding functional, or the projected load.
Reading(row) ==
  IF physics = "Electrostatics" THEN {[u EXCEPT !.mesh = K] :
                                        u \in {u \in unit_loads : u.terminal = row}}
  ELSE {u \in unit_loads \cup winding_functionals' : u.terminal = row}

\* A column of C or L, under the counter of the loop over the plan.
GatherColumn ==
  /\ AskWindings(Stranded(Terminals))
  /\ matrix' = matrix \cup
       UNION {{[row |-> r, column |-> item, reads |-> u, units |-> x.units,
                background |-> x.background] : u \in Reading(r), x \in solution} :
              r \in Terminals}

\* The meshes and the drive of a solution.
Observed(x) ==
  [item |-> item, frequencies |-> {0}, driven |-> Found(x.units),
   meshes |-> x.meshes \cup x.background \cup {u.mesh : u \in x.units}
                \cup {u.norm : u \in x.units}]

Gather ==
  /\ pc = "gather"
  /\ IF coupling THEN GatherColumn ELSE UNCHANGED <<caches, matrix>>
  /\ observed' = observed \cup {Observed(x) : x \in solution}
  /\ IF physics = "Magnetostatics"
     THEN item' = item + 1 /\ pc' = "imprint"
     ELSE pc' = "save" /\ UNCHANGED item
  /\ UNCHANGED <<config, runs, iteration, sequence, built, solving>>

SaveScenario ==
  /\ pc = "save"
  /\ IF physics = "Magnetostatics"
     THEN pc' = "gather" /\ UNCHANGED item
     ELSE item' = item + 1 /\ pc' = "imprint"
  /\ UNCHANGED <<config, runs, iteration, sequence, built, caches, solving, matrix, observed>>

\* A writer throws, for a scenario or for the matrix.
WriteFails ==
  /\ pc \in {"save", "ran"}
  /\ pc' = "failed"
  /\ UNCHANGED <<config, loop, sequence, built, caches, solving, matrix, observed>>

SaveAnalysis ==
  /\ pc = "ran"
  /\ pc' = "saved"
  /\ UNCHANGED <<config, loop, sequence, built, caches, solving, matrix, observed>>

-----------------------------------------------------------------------------
Init ==
  /\ physics \in Physics
  /\ coupling \in BOOLEAN
  /\ adaptive \in BOOLEAN
  /\ physics = "Magnetostatics3D" => ~adaptive    \* InitializeVectorPotential
  /\ massive \in SUBSET Terminals
  /\ physics # "Magnetostatics" => massive = {}   \* makes no difference there
  /\ linear_solver \in {"Direct", "Iterative"}
  /\ scenarios \in ScenarioLists
  /\ pc = "constructed" /\ runs = 0 /\ iteration = 0 /\ item = 1 /\ sequence = 0
  /\ fespace = -1 /\ A_op = -1 /\ factors = -1 /\ K = -1 /\ natural_rhs = -1
  /\ unit_loads = {} /\ terminal_areas = {} /\ winding_functionals = {}
  /\ cached_sequence = -1 /\ load = {} /\ solution = {} /\ matrix = {} /\ observed = {}

\* What the solver does once Run is called; calling it is the caller's choice.
Step ==
  \/ BeginPass \/ ImprintScenario \/ SolveSystem \/ SolveFails \/ Gather \/ SaveScenario
  \/ WriteFails \/ EndSinglePass \/ EndAdaptivePass \/ Refine \/ RefineFails \/ Rebuild
  \/ pc = "rebuild" /\ BuildFails

Next == Setup \/ (pc = "constructed" /\ BuildFails) \/ Run \/ Step \/ SaveAnalysis

\* One thread executes Run to its end.
Spec == Init /\ [][Next]_vars /\ WF_vars(Step)
-----------------------------------------------------------------------------
(* Properties.                                                             *)

Meshes == 0..MaxSequence
Units == [terminal : Terminals, kind : {"dofs", "massive", "winding", "projected"},
          mesh : Meshes, norm : Meshes]

\* The type of the variables: nothing is of a mesh that does not exist, and there
\* is no charge operator without charges to extract.
StaticTypeOK ==
  /\ pc \in {"constructed", "ready", "begin", "imprint", "solve", "gather", "save",
             "refine", "rebuild", "ran", "saved", "failed"}
  /\ sequence \in Meshes /\ cached_sequence \in Meshes \cup {-1}
  /\ {fespace, A_op, factors, K, natural_rhs} \subseteq Meshes \cup {-1}
  /\ K # -1 => coupling /\ physics = "Electrostatics"
  /\ unit_loads \cup winding_functionals \subseteq Units
  /\ runs \in 0..MaxRuns /\ item \in 1..(Len(Drives) + 1) /\ iteration \in Nat

Status == CASE pc \in {"constructed", "ready", "ran", "saved"} -> "idle"
            [] pc = "failed" -> "failed"
            [] OTHER -> "running"

Contract == INSTANCE RunContract
              WITH plan <- [k \in DOMAIN Drives |-> [Frequency |-> 0, driven |-> Drives[k]]],
                   mesh <- sequence, answered <- observed, status <- Status

\* The matrix that is written is reciprocal entry by entry: the functional that
\* reads row r is the very load that drives column r, areas, conductances and mesh
\* included, so that entry (r, c) and entry (c, r) are one bilinear form with its
\* arguments exchanged.  There is one entry for each pair, of the last mesh.
MatrixIsReciprocal ==
  coupling /\ pc = "ran" =>
    \A r, c \in Terminals :
      LET at(i, j) == {e \in matrix : e.row = i /\ e.column = j}
      IN /\ Cardinality(at(r, c)) = 1
         /\ \A e \in at(r, c), f \in at(c, r) :
              /\ e.reads.terminal = r /\ e.reads.mesh = sequence
              /\ e.units = {f.reads} /\ f.units = {e.reads}

\* Boundary data belongs to field solutions, all of it of the current mesh, and to
\* no coupling column: a coefficient is a response to its terminal alone.
BackgroundAsAnalysed ==
  /\ \A e \in matrix : e.background = {}
  /\ pc \in {"gather", "save"} =>
       \A x \in solution : x.background = IF coupling THEN {} ELSE {sequence}

\* A coupling matrix is made of its terminals' unit sources alone, the same ones in
\* its rows as in its columns.
MatrixIsOfTerminals == StaticTypeOK /\ MatrixIsReciprocal /\ BackgroundAsAnalysed

\* A started run ends, adaptive or not.
EveryRunEnds == pc = "begin" ~> pc \in {"ran", "failed"}

\* A static run implements RunContract: each solution is made with a space, an
\* operator, factors, loads and areas that are all of the mesh of the moment, for
\* the item's own drive; a run ends only with the whole plan answered on its last
\* mesh; and it does end.
ImplementsContract == Contract!CSpec /\ EveryRunEnds
===============================================================================
