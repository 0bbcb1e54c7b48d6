-------------------------------- MODULE Mqs3D --------------------------------
(***************************************************************************)
(* The 3D magnetoquasistatic solver (MagnetoquasistaticSolver3D over         *)
(* VectorPotentialSolver3D) and a run of it from Setup to SaveAnalysis.        *)
(*                                                                         *)
(* There is one mesh: Setup rejects adaptive refinement.  What can be stale   *)
(* is the frequency: it lives in omega, in the port operator, in the prepared  *)
(* factors or preconditioner and in the right-hand side.  A matrix or vector    *)
(* is represented by the frequency and the conductors it was made from; a       *)
(* unique_ptr is a set of at most one element.                              *)
(*                                                                         *)
(* The regularizing weight is an exact number: weights are in units of         *)
(* kRegularization^2, and Ratio is 1 / kRegularization.                     *)
(***************************************************************************)
EXTENDS Integers, Counting

CONSTANTS
  NTerminals,     \* |config.Terminals|; a std::map, so 1..NTerminals is name order
  ScenarioLists,  \* values config.Scenarios may have
  StaticWeights,  \* values of nu_min / L^2
  Conductivities, \* positive values of sigma, in units that make omega sigma whole
  Ratio,          \* 1 / kRegularization
  MaxRuns         \* bound on the calls of Run on one solver

Terminals == 1..NTerminals

ASSUME Mqs3DAssumption ==
  /\ NTerminals \in Nat \ {0} /\ MaxRuns \in Nat
  /\ Ratio \in Nat \ {0}
  /\ StaticWeights \subseteq Nat \ {0}
  \* A mesh has finitely many attributes.
  /\ Conductivities \subseteq Nat \ {0} /\ IsFiniteSet(Conductivities)
  /\ \A list \in ScenarioLists :
       /\ list \in Seq([name : STRING, Frequency : Nat \ {0}, driven : SUBSET Terminals])
       /\ list # <<>>     \* Setup requires a scenario

VARIABLES
  scenarios,        \* config.Scenarios, in declaration order
  coupling,         \* config.AnalysisType is CouplingMatrix
  massive,          \* the terminals with a Massive conductor
  linear_solver,    \* config.LinearSolver
  static_weight,    \* RegularizationWeight, before kRegularization
  sigmas,           \* the conductivities of the mesh's conducting attributes
  pc,               \* where the run stands
  runs,             \* calls of Run so far
  item,             \* index of the current solve in the plan
  omega,            \* 0 before Setup; the frequency stands for it
  regularization,   \* {} or {[weight, warned]}
  gauge,            \* {} or {"rows"}
  port_of,          \* conductor -> port index, 0 for none
  port_operator,    \* {} or {[active_omega, columns]}: the massive conductors in port order
  prepared_omega,
  direct_solver,    \* {} or {the system its factors are of}
  preconditioner,   \* {} or {the system it approximates}
  rhs,              \* {} or {[omega, ports, loads]}
  solution,         \* {} or {[factors, applied, rhs]}: A and port_voltage
  losses,           \* ComputeRegionLosses of the last field scenario
  coupling_results,
  observed,         \* history: what the solutions read in this run were of
  factorizations    \* history: preparations of this run

config == <<scenarios, coupling, massive, linear_solver, static_weight, sigmas>>
operators == <<regularization, gauge, port_of>>
prepared == <<prepared_omega, direct_solver, preconditioner>>
results == <<losses, coupling_results>>
history == <<observed, factorizations>>
vars == <<config, pc, runs, item, omega, operators, port_operator, prepared, rhs, solution,
          results, history>>

Smallest(S) == CHOOSE x \in S : \A y \in S : x <= y

-----------------------------------------------------------------------------
(* The plan: std::map<double, std::string> frequency_points, ascending and    *)
(* unique, with every conductor at each point; or the scenarios.             *)

FrequencyPoints == {scenarios[i].Frequency : i \in DOMAIN scenarios}
FrequencyPoint(i) ==
  CHOOSE f \in FrequencyPoints : Cardinality({g \in FrequencyPoints : g < f}) = i - 1

Plan ==
  IF coupling
  THEN [k \in 1..(Cardinality(FrequencyPoints) * NTerminals) |->
          [Frequency |-> FrequencyPoint(((k - 1) \div NTerminals) + 1),
           driven |-> {((k - 1) % NTerminals) + 1}]]
  ELSE [k \in DOMAIN scenarios |-> [Frequency |-> scenarios[k].Frequency,
                                    driven |-> scenarios[k].driven]]

\* Faulty: only the very first solve of a run activates a frequency.
OpensPoint_Once == item = 1

\* A field scenario activates its frequency, a coupling run that of each point
\* before the point's first column.
OpensPoint == coupling => (item - 1) % NTerminals = 0

-----------------------------------------------------------------------------
(* Setup.                                                                  *)

OmegaMin == Smallest(FrequencyPoints)
SigmaMin == Smallest(sigmas)

\* Faulty: scaled to the frequency that is active, the first scenario's.
Scaled_First == scenarios[1].Frequency * SigmaMin

\* omega_min sigma_min, the weakest of the scenarios and conductors.
Scaled == OmegaMin * SigmaMin

\* EddyCurrentRegularization: the static weight without a conductor, else the
\* smaller of it and kRegularization omega_min sigma_min, floored with a warning.
EddyCurrentRegularization ==
  LET static == Ratio * static_weight
      weight == IF Ratio * Scaled < static THEN Ratio * Scaled ELSE static
      floor == static_weight
  IN IF sigmas = {} THEN [weight |-> static, warned |-> FALSE]
     ELSE IF weight >= floor THEN [weight |-> weight, warned |-> FALSE]
     ELSE [weight |-> floor, warned |-> TRUE]

\* port_loads.size() when the loop over the conductors reaches t.
PortOf(t) == IF t \in massive THEN Passed(massive, t) ELSE 0

\* port_loads and conductances, pushed in one loop.
Columns == InOrder(massive, NTerminals)

\* Setup activates the first scenario's frequency before the operators exist.
Setup ==
  /\ pc = "constructed"
  /\ omega' = scenarios[1].Frequency
  /\ regularization' = IF linear_solver = "Iterative" THEN {EddyCurrentRegularization} ELSE {}
  /\ gauge' = IF linear_solver = "Direct" THEN {"rows"} ELSE {}
  /\ port_of' = [t \in Terminals |-> PortOf(t)]
  /\ port_operator' = {[active_omega |-> omega', columns |-> Columns]}
  /\ prepared_omega' = 0 /\ direct_solver' = {} /\ preconditioner' = {}
  /\ solution' = {}
  /\ pc' = "ready"
  /\ UNCHANGED <<config, runs, item, rhs, results, history>>

\* A check of the configuration, or a conductor without conductance or
\* cross-section, is rejected before the port operator is built.
SetupFails ==
  /\ pc = "constructed"
  /\ omega' \in {0, scenarios[1].Frequency}
  /\ pc' = "failed"
  /\ UNCHANGED <<config, runs, item, operators, port_operator, prepared, rhs, solution,
                 results, history>>

-----------------------------------------------------------------------------
(* One run.                                                                *)

\* coupling_results.clear(), on the coupling path only.
ClearPoints == coupling_results' = IF coupling THEN <<>> ELSE coupling_results

Run ==
  /\ pc \in {"ready", "ran", "saved"}
  /\ runs < MaxRuns
  /\ runs' = runs + 1
  /\ ClearPoints
  /\ item' = 1 /\ observed' = {} /\ factorizations' = 0
  /\ pc' = "column"
  /\ UNCHANGED <<config, omega, operators, port_operator, prepared, rhs, solution, losses>>

\* ActivateFrequency
Activated(f) == {[o EXCEPT !.active_omega = f] : o \in port_operator}

\* The right-hand side of Solve at frequency w: a port row carries I / (j omega),
\* a stranded conductor its projected unit load.
RightHandSide(w, driven) ==
  [omega |-> w, ports |-> {<<port_of[t], t>> : t \in {t \in driven : port_of[t] > 0}},
   loads |-> {t \in driven : port_of[t] = 0}]

\* Activate the frequency when the plan says so, and assemble the load.
Drive ==
  /\ pc = "column"
  /\ item <= Len(Plan)
  /\ IF OpensPoint
     THEN /\ omega' = Plan[item].Frequency
          /\ port_operator' = Activated(omega')
          /\ coupling_results' = IF coupling
                                 THEN Append(coupling_results,
                                             [Frequency |-> omega', columns |-> {}])
                                 ELSE coupling_results
     ELSE UNCHANGED <<omega, port_operator, coupling_results>>
  /\ rhs' = {RightHandSide(omega', Plan[item].driven)}
  /\ pc' = "solve"
  /\ UNCHANGED <<config, runs, item, operators, prepared, solution, losses, history>>

\* The system at one frequency: its port corner is over some conductors, its
\* field block gauged by a multiplier or regularized by a mass term.
System(w, columns) ==
  [omega |-> w, corner |-> columns, gauged |-> gauge # {}, regularized |-> regularization # {}]

\* AssemblePackedMatrix, which uses the operator's own frequency.
Packed == {System(o.active_omega, o.columns) : o \in port_operator}

\* Faulty: any prepared frequency passes.
PreparedHit_Any == prepared_omega > 0

PreparedHit == prepared_omega = omega

\* The preconditioner's conductances: collected again over the massive conductors.
Conductances == InOrder(massive, NTerminals)

\* PrepareSolver
PrepareSolver ==
  IF PreparedHit THEN UNCHANGED prepared
  ELSE /\ prepared_omega' = omega
       /\ IF linear_solver = "Direct"
          THEN direct_solver' = Packed /\ UNCHANGED preconditioner
          ELSE /\ preconditioner' = {System(omega, Conductances)}
               /\ UNCHANGED direct_solver

Solve ==
  /\ pc = "solve"
  /\ PrepareSolver
  /\ solution' = {[factors |-> s, applied |-> a, rhs |-> b] :
                    s \in direct_solver' \cup preconditioner', a \in Packed, b \in rhs}
  /\ factorizations' = factorizations + (IF PreparedHit THEN 0 ELSE 1)
  /\ pc' = "gather"
  /\ UNCHANGED <<config, runs, item, omega, operators, port_operator, rhs, results, observed>>

\* Factor throws on a singular matrix, its factors replaced; the preconditioner's
\* constructor throws after the old one is dropped; or FGMRES does not converge.
\* prepared_omega is only assigned once the preparation is complete.
SolveFails ==
  /\ pc = "solve"
  /\ \/ /\ ~PreparedHit /\ linear_solver = "Direct"
        /\ direct_solver' = Packed
        /\ UNCHANGED <<prepared_omega, preconditioner>>
     \/ /\ ~PreparedHit /\ linear_solver = "Iterative"
        /\ preconditioner' = {}
        /\ UNCHANGED <<prepared_omega, direct_solver>>
     \/ linear_solver = "Iterative" /\ PrepareSolver
  /\ pc' = "failed"
  /\ UNCHANGED <<config, runs, item, omega, operators, port_operator, rhs, solution,
                 results, history>>

-----------------------------------------------------------------------------
(* What is read from a solution.                                           *)

\* port_voltage[p] of a solution: the voltage of the conductor p is a column of.
Voltage(p) == {o.columns[p] : o \in {o \in port_operator : p \in DOMAIN o.columns}}

\* Z of row t: its port's solved voltage, or j omega times its flux linkage.
ReadRow(t) == IF port_of[t] > 0 THEN Voltage(port_of[t]) ELSE {t}

\* Faulty: the drives are numbered as the conductors are.
DriveIndex_Conductor(t) == t

\* drives.size() when MakeElectricField reaches t.
DriveIndex(t) == Cardinality({u \in 1..(t - 1) : port_of[u] > 0}) + 1

\* MakeElectricField: the path and the voltage that drive each massive conductor's
\* elements, looked up by index in the list of drives.
ElectricField ==
  LET ported == {t \in Terminals : port_of[t] > 0}
      drives == [i \in 1..Cardinality(ported) |->
                   LET t == CHOOSE t \in ported : Cardinality({u \in ported : u < t}) = i - 1
                   IN [path |-> t, voltage |-> Voltage(port_of[t])]]
  IN [t \in ported |->
        IF DriveIndex(t) \in DOMAIN drives THEN drives[DriveIndex(t)]
        ELSE [path |-> 0, voltage |-> {}]]

\* What the solution being read is of; there is only one mesh.
Observed(x) ==
  [item |-> item, meshes |-> {0},
   frequencies |-> {x.factors.omega, x.applied.omega, x.rhs.omega},
   driven |-> {d[2] : d \in x.rhs.ports} \cup x.rhs.loads]

\* Fill a column of the current point, or recover the losses of a scenario.
Gather ==
  /\ pc = "gather"
  /\ IF coupling
     THEN /\ coupling_results' =
               [coupling_results EXCEPT ![Len(coupling_results)].columns =
                  @ \cup {[driven |-> Plan[item].driven, omega |-> omega,
                           rows |-> [t \in Terminals |-> ReadRow(t)]]}]
          /\ UNCHANGED losses
     ELSE losses' = ElectricField /\ UNCHANGED coupling_results
  /\ observed' = observed \cup {Observed(x) : x \in solution}
  /\ pc' = "save"
  /\ UNCHANGED <<config, runs, item, omega, operators, port_operator, prepared, rhs, solution,
                 factorizations>>

SaveScenario ==
  /\ pc = "save"
  /\ item' = item + 1
  /\ pc' = "column"
  /\ UNCHANGED <<config, runs, omega, operators, port_operator, prepared, rhs, solution,
                 results, history>>

\* The writer throws, in SaveScenario or in WriteImpedanceSeries.
WriteFails ==
  /\ pc \in {"save", "ran"}
  /\ pc' = "failed"
  /\ UNCHANGED <<config, runs, item, omega, operators, port_operator, prepared, rhs, solution,
                 results, history>>

PlanDone == item > Len(Plan)

EndRun ==
  /\ pc = "column"
  /\ PlanDone
  /\ pc' = "ran"
  /\ UNCHANGED <<config, runs, item, omega, operators, port_operator, prepared, rhs, solution,
                 results, history>>

SaveAnalysis ==
  /\ pc = "ran"
  /\ pc' = "saved"
  /\ UNCHANGED <<config, runs, item, omega, operators, port_operator, prepared, rhs, solution,
                 results, history>>

-----------------------------------------------------------------------------
Init ==
  /\ scenarios \in ScenarioLists
  /\ coupling \in BOOLEAN
  /\ massive \in SUBSET Terminals
  /\ linear_solver \in {"Direct", "Iterative"}
  /\ static_weight \in StaticWeights
  /\ sigmas \in {S \in SUBSET Conductivities : massive # {} => S # {}}
  /\ pc = "constructed" /\ runs = 0 /\ item = 1 /\ omega = 0
  /\ regularization = {} /\ gauge = {} /\ port_of = [t \in Terminals |-> 0]
  /\ port_operator = {} /\ prepared_omega = 0 /\ direct_solver = {} /\ preconditioner = {}
  /\ rhs = {} /\ solution = {} /\ losses = <<>> /\ coupling_results = <<>>
  /\ observed = {} /\ factorizations = 0

\* What the solver does once Run is called; calling it is the caller's choice.
Step == Drive \/ Solve \/ SolveFails \/ Gather \/ SaveScenario \/ WriteFails \/ EndRun

Next == Setup \/ SetupFails \/ Run \/ Step \/ SaveAnalysis

\* One thread executes Run to its end.
Spec == Init /\ [][Next]_vars /\ WF_vars(Step)
-----------------------------------------------------------------------------
(* Properties.                                                             *)

Frequencies == FrequencyPoints
Systems == [omega : Frequencies, corner : {Columns}, gauged : BOOLEAN, regularized : BOOLEAN]
Phases == {"constructed", "ready", "column", "solve", "gather", "save", "ran", "saved", "failed"}

\* The type of every variable: the ports number the massive conductors without a
\* gap, in the order of the port operator's columns.
M3TypeOK ==
  /\ scenarios \in ScenarioLists /\ coupling \in BOOLEAN
  /\ massive \subseteq Terminals /\ linear_solver \in {"Direct", "Iterative"}
  /\ static_weight \in StaticWeights /\ sigmas \subseteq Conductivities
  /\ pc \in Phases /\ runs \in 0..MaxRuns /\ item \in Nat \ {0}
  /\ omega \in Frequencies \cup {0} /\ prepared_omega \in Frequencies \cup {0}
  /\ port_operator \subseteq [active_omega : Frequencies, columns : {Columns}]
  /\ \A o \in port_operator, t \in massive :
       port_of[t] \in DOMAIN o.columns /\ o.columns[port_of[t]] = t
  /\ direct_solver \subseteq Systems /\ preconditioner \subseteq Systems
  /\ factorizations \in Nat

Status == CASE pc \in {"constructed", "ready", "ran", "saved"} -> "idle"
            [] pc = "failed" -> "failed"
            [] OTHER -> "running"

Contract == INSTANCE RunContract
              WITH plan <- Plan, mesh <- 0, answered <- observed, status <- Status

\* Every solve is made with factors (or a preconditioner), an operator and a load of
\* the active frequency and the same port columns, and its field block is either
\* gauged or regularized, whatever sweeps and runs came before.
SolvesActiveFrequency ==
  pc \in {"gather", "save"} =>
    \E x \in solution :
      /\ x.factors.omega = omega /\ x.applied.omega = omega /\ x.rhs.omega = omega
      /\ x.factors.corner = x.applied.corner
      /\ x.factors.gauged # x.factors.regularized

\* What WriteImpedanceSeries is given after a coupling run: every frequency once,
\* ascending, and at each a full column per conductor, each row read from the row's
\* own port or winding at the point's frequency.
SeriesComplete ==
  coupling /\ pc = "ran" =>
    /\ [i \in DOMAIN coupling_results |-> coupling_results[i].Frequency] =
         [i \in 1..Cardinality(FrequencyPoints) |-> FrequencyPoint(i)]
    /\ \A i \in DOMAIN coupling_results :
         coupling_results[i].columns =
           {[driven |-> {d}, omega |-> coupling_results[i].Frequency,
             rows |-> [t \in Terminals |-> {t}]] : d \in Terminals}

\* The magnetoquasistatic_solver_3d.hpp:85-86 comment: factored once per frequency
\* and reused for every terminal column.
FactoredOncePerPoint ==
  coupling => factorizations <= Cardinality(FrequencyPoints)

\* The loss recovery drives each massive conductor's elements with its own path and
\* its own solved voltage, and no others.
LossesUseOwnPath ==
  pc = "save" /\ ~coupling =>
    /\ DOMAIN losses = massive
    /\ \A t \in massive : losses[t] = [path |-> t, voltage |-> {t}]

\* What a run reads from its solutions is each conductor's own, complete, and from
\* one factorization per frequency point.
ReadingsAreOwn == M3TypeOK /\ SeriesComplete /\ FactoredOncePerPoint /\ LossesUseOwnPath

\* The weight stays between its floor and the static weight, and keeps
\* beta / (omega sigma) at most kRegularization for every scenario and every
\* conductor, exactly unless the warning was given.
RegularizationIsWeak ==
  \A r \in regularization :
    /\ static_weight <= r.weight /\ r.weight <= Ratio * static_weight
    /\ r.warned <=> \E i \in DOMAIN scenarios, s \in sigmas :
                      r.weight > Ratio * (scenarios[i].Frequency * s)

\* A started run ends.
EveryRunEnds == pc = "column" ~> pc \in {"ran", "failed"}

\* A run implements RunContract: what is read from every solution (its factors or
\* preconditioner, the operator, the load) belongs to the item's own frequency and
\* drive; a run ends only with the whole plan answered; and it does end.
ImplementsContract == Contract!CSpec /\ EveryRunEnds
===============================================================================
