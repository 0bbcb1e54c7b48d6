-------------------------------- MODULE MqsRun --------------------------------
(***************************************************************************)
(* A magnetoquasistatic run from Setup to SaveAnalysis: the driver of        *)
(* PhysicsSolver (Run, RunAdaptive, SaveAnalysis) and the solve loop of       *)
(* MagnetoquasistaticSolver::RunOnCurrentMesh, over the discrete system       *)
(* (MqsOperators) and the result writer (ResultWriter), which share the mesh. *)
(***************************************************************************)
EXTENDS MqsOperators

CONSTANTS
  ScenarioLists,  \* values config.Scenarios may have
  OutputSets,     \* sets of output formats a run may enable
  MaxIterations,  \* config.Amr.MaxIterations
  DofLimits,      \* values of config.Amr.MaxDofs, 0 for none, in the measure of TrueDofs
  MaxRuns,        \* bound on the calls of Run on one solver
  Names, Label    \* see ResultWriter

ASSUME RunAssumption ==
  /\ MaxIterations \in Nat /\ DofLimits \subseteq Nat /\ MaxRuns \in Nat
  /\ ScenarioLists \subseteq
       Seq([name : STRING, Frequency : Frequencies, driven : SUBSET Terminals])
  /\ <<>> \notin ScenarioLists     \* Setup requires a scenario
  /\ NTerminals # 0                \* config_validator.hpp:1021-1023 requires a terminal
  /\ OutputSets \subseteq SUBSET {"paraview", "gmsh", "probes", "hdf5"}

VARIABLES
  output, wants_fields, coupling, writer, next_scenario, hdf5, probes, gmsh_mesh,
  archive, files,     \* of ResultWriter
  scenarios,          \* config.Scenarios, in declaration order
  adaptive,           \* config.Amr.Enabled
  max_dofs,           \* config.Amr.MaxDofs
  pc,                 \* where the driver stands
  runs,               \* calls of Run so far
  iteration,          \* of RunAdaptive
  item,               \* index of the current solve in the plan of a pass
  error_weights,      \* *amr_errors: see AccumulateScenarioError
  amr_error_samples,
  amr_history,
  coupling_results,
  observed,           \* history: what the solutions read in this pass were of
  factorizations      \* history: cache misses of this pass

W == INSTANCE ResultWriter
       WITH MaxScenarios <- Cardinality(Frequencies) * NTerminals + 10,
            MaxMesh <- MaxSequence

wrest == <<output, wants_fields, coupling, writer, next_scenario, hdf5, probes,
           gmsh_mesh, archive, files>>
amr == <<error_weights, amr_error_samples, amr_history, iteration>>
driver == <<scenarios, adaptive, max_dofs, runs>>
history == <<observed, factorizations>>
vars == <<opvars, wrest, driver, pc, amr, item, coupling_results, history>>

-----------------------------------------------------------------------------
(* The plan of a pass.                                                     *)

\* std::map<double, std::string> frequency_points: unique, ascending, named by
\* the first scenario of that frequency.
FrequencyPoints == {scenarios[i].Frequency : i \in DOMAIN scenarios}
FrequencyPoint(i) ==
  CHOOSE f \in FrequencyPoints : Cardinality({g \in FrequencyPoints : g < f}) = i - 1
PointName(f) ==
  scenarios[CHOOSE i \in DOMAIN scenarios :
              /\ scenarios[i].Frequency = f
              /\ \A j \in 1..(i - 1) : scenarios[j].Frequency # f].name

\* A coupling analysis drives each terminal with a unit current at each point.
CouplingPlan ==
  [k \in 1..(Cardinality(FrequencyPoints) * NTerminals) |->
     LET f == FrequencyPoint(((k - 1) \div NTerminals) + 1)
         t == ((k - 1) % NTerminals) + 1
     IN [name |-> <<PointName(f), t>>, Frequency |-> f, driven |-> {t}]]

FieldPlan ==
  [k \in DOMAIN scenarios |-> [name |-> <<scenarios[k].name, 0>>,
                               Frequency |-> scenarios[k].Frequency,
                               driven |-> scenarios[k].driven]]

Plan == IF coupling THEN CouplingPlan ELSE FieldPlan

\* The first solve of a frequency point.
OpensPoint(k) == coupling /\ (k - 1) % NTerminals = 0

-----------------------------------------------------------------------------
(* Setup, Run and the beginning of a pass.                                 *)

RunSetup ==
  /\ pc = "constructed"
  /\ Setup(scenarios[1].Frequency)
  /\ pc' = "ready"
  /\ UNCHANGED <<wrest, driver, amr, item, coupling_results, history>>

SetupFails ==
  /\ pc = "constructed"
  /\ BuildFails(scenarios[1].Frequency)
  /\ pc' = "failed"
  /\ UNCHANGED <<wrest, driver, amr, item, coupling_results, history>>

\* RunAdaptive, or the other branch of Run.
ClearHistory == amr_history' = <<>>

Run ==
  /\ pc \in {"ready", "ran", "saved"}
  /\ runs < MaxRuns
  /\ runs' = runs + 1
  /\ W!Construct
  /\ ClearHistory
  /\ iteration' = 0
  /\ observed' = {}
  /\ pc' = "begin"
  /\ UNCHANGED <<opvars, scenarios, adaptive, max_dofs, error_weights, amr_error_samples, item,
                 coupling_results, factorizations>>

\* Faulty: the sample count survives the pass.
ResetErrors_CountKept == error_weights' = <<>> /\ UNCHANGED amr_error_samples

\* The errors of a pass start from none.
ResetErrors == error_weights' = <<>> /\ amr_error_samples' = 0

PrepareAnalysis == coupling_results' = IF coupling THEN <<>> ELSE coupling_results

\* BeginMesh, then PrepareAnalysis.
BeginPass ==
  /\ pc = "begin"
  /\ W!BeginMesh
  /\ ResetErrors
  /\ PrepareAnalysis
  /\ item' = 1
  /\ factorizations' = 0
  /\ pc' = "column"
  /\ UNCHANGED <<opvars, driver, iteration, amr_history, observed>>

BeginPassFails ==
  /\ pc = "begin"
  /\ W!BeginMeshFails
  /\ pc' = "failed"
  /\ UNCHANGED <<opvars, driver, amr, item, coupling_results, history>>

-----------------------------------------------------------------------------
(* The solve loop of RunOnCurrentMesh.                                     *)

\* BeginCouplingPoint at the first terminal of a frequency, then ImprintScenario.
Imprint ==
  /\ pc = "column"
  /\ item <= Len(Plan)
  /\ ImprintScenario(Plan[item].Frequency, Plan[item].driven, ~coupling)
  /\ coupling_results' =
       IF OpensPoint(item)
       THEN Append(coupling_results, [Frequency |-> Plan[item].Frequency, columns |-> {}])
       ELSE coupling_results
  /\ pc' = "solve"
  /\ UNCHANGED <<wrest, driver, amr, item, history>>

CacheHit == IF linear_solver = "Direct" THEN FactorizationHit ELSE PreconditionerHit

Solve ==
  /\ pc = "solve"
  /\ SolveSystem
  /\ factorizations' = factorizations + (IF CacheHit THEN 0 ELSE 1)
  /\ pc' = "fold"
  /\ UNCHANGED <<wrest, driver, amr, item, coupling_results, observed>>

SolveFails ==
  /\ pc = "solve"
  /\ FactorFails \/ KrylovFails
  /\ pc' = "failed"
  /\ UNCHANGED <<wrest, driver, amr, item, coupling_results, history>>

\* One step of the running mean of squares: (e^2 n + eta^2) / (n + 1).  The
\* weight of every indicator in e^2 is kept as [mesh, num, den].
Folded(weights, n, mesh) ==
  Append([i \in DOMAIN weights |-> [weights[i] EXCEPT !.num = @ * n, !.den = @ * (n + 1)]],
         [mesh |-> mesh, num |-> 1, den |-> n + 1])

\* A no-op outside an AMR pass.
AccumulateScenarioError ==
  /\ pc = "fold"
  /\ IF adaptive
     THEN /\ EstimateCurrentSolutionError
          /\ \E s \in fespace :
               error_weights' = Folded(error_weights, amr_error_samples, s.mesh)
          /\ amr_error_samples' = amr_error_samples + 1
     ELSE UNCHANGED <<opvars, error_weights, amr_error_samples>>
  /\ pc' = "gather"
  /\ UNCHANGED <<wrest, driver, iteration, amr_history, item, coupling_results, history>>

\* What the solution being read is of.
Observed(x) ==
  [item |-> item,
   meshes |-> {x.factors.mesh, x.applied.mesh, x.rhs.mesh},
   frequencies |-> {x.factors.mass, x.applied.mass, x.applied.corner, x.rhs.omega},
   driven |-> {d[2] : d \in x.rhs.ports} \cup {e.terminal : e \in x.rhs.areas}]

\* GatherCouplingColumn, or ComputeRegionLosses of a field scenario.
Gather ==
  /\ pc = "gather"
  /\ IF coupling
     THEN /\ GatherCouplingColumn
          /\ \E t \in Plan[item].driven :
               coupling_results' = [coupling_results EXCEPT
                  ![Len(coupling_results)].columns = @ \cup {[driven |-> t, rows |-> column']}]
     ELSE ComputeRegionLosses /\ UNCHANGED coupling_results
  /\ observed' = observed \cup {Observed(x) : x \in answer}
  /\ pc' = "save"
  /\ UNCHANGED <<wrest, driver, amr, item, factorizations>>

SaveScenario ==
  /\ pc = "save"
  /\ \E s \in fespace : W!WriteScenario(Plan[item].name, s.mesh)
  /\ item' = item + 1
  /\ pc' = "column"
  /\ UNCHANGED <<opvars, driver, amr, coupling_results, history>>

SaveFails ==
  /\ pc = "save"
  /\ \E s \in fespace : W!WriteFails(Plan[item].name, s.mesh)
  /\ pc' = "failed"
  /\ UNCHANGED <<opvars, driver, amr, item, coupling_results, history>>

-----------------------------------------------------------------------------
(* The end of a pass and the refinement of RunAdaptive.                    *)

PassDone == pc = "column" /\ item > Len(Plan)

EndSinglePass ==
  /\ PassDone /\ ~adaptive
  /\ pc' = "ran"
  /\ UNCHANGED <<opvars, wrest, driver, amr, item, coupling_results, history>>

\* The number of true degrees of freedom grows with every refinement.
TrueDofs == sequence + 1

DofLimit == max_dofs > 0 /\ TrueDofs > max_dofs

\* Faulty: the limit is not tested.
LastIteration_Never == FALSE

LastIteration == iteration + 1 >= MaxIterations

\* The pass is recorded; the error tolerance and the marking, which depend on
\* the field, may stop the loop at any pass, the other two limits must.
EndAdaptivePass ==
  /\ PassDone /\ adaptive
  /\ amr_history' = Append(amr_history, [mesh |-> sequence, true_dofs |-> TrueDofs])
  /\ \E below_tolerance, none_marked \in BOOLEAN :
        pc' = IF below_tolerance \/ DofLimit \/ LastIteration \/ none_marked
              THEN "ran" ELSE "refine"
  /\ UNCHANGED <<opvars, wrest, driver, iteration, error_weights, amr_error_samples,
                 item, coupling_results, history>>

RefineMesh ==
  /\ pc = "refine"
  /\ RefineConforming
  /\ observed' = {}
  /\ pc' = "rebuild"
  /\ UNCHANGED <<wrest, driver, amr, item, coupling_results, factorizations>>

RefineMeshFails ==
  /\ pc = "refine"
  /\ RefineFails
  /\ pc' = "failed"
  /\ UNCHANGED <<wrest, driver, amr, item, coupling_results, history>>

RebuildOperators ==
  /\ pc = "rebuild"
  /\ Rebuild
  /\ iteration' = iteration + 1
  /\ pc' = "begin"
  /\ UNCHANGED <<wrest, driver, error_weights, amr_error_samples, amr_history, item,
                 coupling_results, history>>

RebuildFails ==
  /\ pc = "rebuild"
  /\ BuildFails(omega)
  /\ pc' = "failed"
  /\ UNCHANGED <<wrest, driver, amr, item, coupling_results, history>>

\* WriteImpedanceSeries, then the writer is released.
SaveAnalysis ==
  /\ pc = "ran"
  /\ W!SaveAnalysis
  /\ pc' = "saved"
  /\ UNCHANGED <<opvars, driver, amr, item, coupling_results, history>>

-----------------------------------------------------------------------------
Init ==
  /\ OpInit
  /\ scenarios \in ScenarioLists
  /\ adaptive \in BOOLEAN
  /\ max_dofs \in IF adaptive THEN DofLimits ELSE {0}
  /\ output \in OutputSets
  /\ coupling \in BOOLEAN
  /\ wants_fields \in BOOLEAN
  /\ IF coupling THEN wants_fields => output # {} ELSE wants_fields = (output # {})
  /\ writer = "closed" /\ next_scenario = 0 /\ hdf5 = FALSE
  /\ probes = {} /\ gmsh_mesh = -1 /\ archive = {} /\ files = {}
  /\ pc = "constructed" /\ runs = 0 /\ iteration = 0 /\ item = 1
  /\ error_weights = <<>> /\ amr_error_samples = 0 /\ amr_history = <<>>
  /\ coupling_results = <<>> /\ observed = {} /\ factorizations = 0

\* What the program does once Run is called; calling it is the caller's choice.
Step ==
  \/ BeginPass \/ BeginPassFails
  \/ Imprint \/ Solve \/ SolveFails
  \/ AccumulateScenarioError \/ Gather
  \/ SaveScenario \/ SaveFails
  \/ EndSinglePass \/ EndAdaptivePass
  \/ RefineMesh \/ RefineMeshFails \/ RebuildOperators \/ RebuildFails

Next == RunSetup \/ SetupFails \/ Run \/ Step \/ SaveAnalysis

\* One thread executes Run to its end.
Spec == Init /\ [][Next]_vars /\ WF_vars(Step)
-----------------------------------------------------------------------------
(* Properties.                                                             *)

Status == CASE pc \in {"constructed", "ready", "ran", "saved"} -> "idle"
            [] pc = "failed" -> "failed"
            [] OTHER -> "running"

Contract == INSTANCE RunContract
              WITH plan <- Plan, mesh <- sequence, answered <- observed, status <- Status

\* The run implements RunContract: what is read from every solution (its factors
\* or preconditioner, the operator, the right-hand side, the drives) belongs to
\* the item's own frequency and drive and to the mesh of the moment, and a run
\* ends only with the whole plan answered on its last mesh.
ImplementsContract == Contract!CSpec

\* The type of the driver's variables.
RunTypeOK ==
  /\ pc \in {"constructed", "ready", "begin", "column", "solve", "fold", "gather",
             "save", "refine", "rebuild", "ran", "saved", "failed"}
  /\ runs \in 0..MaxRuns /\ iteration \in 0..MaxIterations
  /\ item \in 1..(Len(Plan) + 1)
  /\ amr_error_samples \in 0..Len(Plan) /\ Len(error_weights) <= Len(Plan)
  /\ factorizations \in 0..Len(Plan)
  /\ Len(coupling_results) <= Cardinality(FrequencyPoints)

\* What SaveAnalysis hands to WriteFrequencies and WriteMatrixSeries after a
\* coupling run is accepted: positive, strictly ascending frequencies, each point
\* with one full column per driven terminal, each row read from its own terminal
\* at the point's frequency on the final mesh.
CouplingSeriesComplete ==
  coupling /\ pc = "ran" =>
    /\ {coupling_results[i].Frequency : i \in DOMAIN coupling_results} = FrequencyPoints
    /\ \A i, j \in DOMAIN coupling_results :
         i < j => coupling_results[i].Frequency < coupling_results[j].Frequency
    /\ \A i \in DOMAIN coupling_results :
         LET point == coupling_results[i]
         IN /\ {c.driven : c \in point.columns} = Terminals
            /\ Cardinality(point.columns) = NTerminals
            /\ \A c \in point.columns :
                 /\ {r.row : r \in c.rows} = Terminals
                 /\ \A r \in c.rows : /\ r.of = r.row /\ r.mesh = sequence
                                      /\ r.omega = point.Frequency

\* magnetoquasistatic_solver.hpp:501-504: one factorization (or preconditioner)
\* serves every terminal at a frequency.  A coupling pass never makes more of
\* them than it has frequency points.
OneFactorizationPerPoint ==
  coupling => factorizations <= Cardinality(FrequencyPoints)

\* What a coupling run hands over is whole, and was not paid for twice.
CouplingPassIsWhole == CouplingSeriesComplete /\ OneFactorizationPerPoint

\* After every fold the running combination is the mean over the solves of this
\* pass: each indicator, all of the current mesh, has the same weight.
FoldIsMean ==
  pc = "gather" /\ adaptive =>
    /\ Len(error_weights) = item
    /\ \A i \in DOMAIN error_weights : /\ error_weights[i].mesh = sequence
                                       /\ error_weights[i].num * item = error_weights[i].den

\* GetAmrHistory describes the most recent Run: one entry per mesh solved, on
\* growing meshes, at most MaxIterations of them, the last one being the mesh
\* the results are on: the final mesh is never left unsolved.
HistoryDescribesRun ==
  /\ \A i, j \in DOMAIN amr_history : i < j => amr_history[i].mesh < amr_history[j].mesh
  /\ Len(amr_history) <= IF MaxIterations = 0 THEN 1 ELSE MaxIterations
  /\ pc = "ran" => IF adaptive
                   THEN /\ amr_history # <<>>
                        /\ amr_history[Len(amr_history)].mesh = sequence
                   ELSE amr_history = <<>>

\* The driver's record of its passes is right at every moment: where a pass stands,
\* the error folded over its solves, and the history of the meshes.
PassesAreRecorded == RunTypeOK /\ FoldIsMean /\ HistoryDescribesRun

\* coupling_hdf5.md: all archived fields reference the final solved mesh, and AMR
\* intermediate results are replaced on each mesh pass.  After a run the archive
\* lists the plan's scenarios in solve order on the final mesh, and no file of an
\* intermediate mesh is left in any other format.
PublishedIsFinal ==
  pc = "ran" =>
    /\ "hdf5" \in output =>
         \E a \in archive :
           /\ a.mesh = sequence
           /\ wants_fields => /\ Len(a.scenarios) = Len(Plan)
                             /\ \A k \in DOMAIN Plan : /\ a.scenarios[k].name = Plan[k].name
                                                       /\ a.scenarios[k].fields = sequence
    /\ \A f \in files : f.fields = sequence /\ f.block = sequence
    /\ wants_fields =>
         \A t \in output \ {"hdf5"} :
           Cardinality({f \in files : f.format = t}) = Len(Plan)

\* A started run ends: the adaptive loop cannot go on for ever, and no step of the
\* driver waits for something that does not come.
Termination == pc = "begin" ~> pc \in {"ran", "failed"}
===============================================================================
