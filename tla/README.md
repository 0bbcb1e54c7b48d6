# TLA+ models of MFEM-ElectroMag

MFEM-ElectroMag is a finite-element program for electrostatic, magnetostatic and
magnetoquasistatic (eddy current) problems. It reads one JSON configuration and one
mesh, solves for every scenario (or drives every terminal in turn to obtain a
capacitance, inductance or impedance matrix), refines the mesh adaptively if asked
to, and writes fields, probes, losses and coupling matrices. It runs on one thread.

So the hard part is not concurrency. It is *reuse across a sequence*: solvers keep
operators, factorizations, preconditioners, norms, terminal functionals, encoded
meshes and probe locations over the scenarios of a pass, the frequencies of a sweep,
the passes of an adaptive run and the calls of `Run`; every one of them is valid for
some of these and stale for others, and any step may throw half-way. The models are
about that, about the numbering that connects terminals, ports, nodes and matrix rows,
about the agreement of parts that each decide the same question (the validator, the
parser and the solvers' own checks), and about the few loops and constructions whose
ending and verdict are not obvious.

Paths below are relative to the repository; the implementation is under `src/`.

## Inventory

| Component | State it keeps | Operations | What makes it correct |
|---|---|---|---|
| `solvers/magnetoquasistatic_solver.hpp` over `magnetic_solver.hpp` | per mesh: space, forms, port operator, winding functionals, terminal areas; per mesh and frequency: factors or preconditioner; per solve: solution, port voltages | `Setup`, `BuildOperators`, `ImprintScenario`, `SolveSystem`, `GatherCouplingColumn`, `ComputeRegionLosses`, `RunOnCurrentMesh`, `SaveAnalysisResults` | every solve and every reading belongs to the mesh and frequency of the moment; port *p* is the same terminal in the matrix, the load, the column and the loss table |
| `solvers/mqs_massive_port_operator.hpp` | three copies of omega, the block matrices | `SetOmega`, `AssemblePackedMatrix`, matrix-free application | the assembled matrix and the applied operator are one system |
| `solvers/physics_solver.hpp`, `amr_support.hpp` | AMR history, error accumulator, cached energy norm, result writer | `Run`, `RunAdaptive`, `SaveAnalysis`, `EstimateRelativeZZError`, `AccumulateScenarioError`, `SolveNonsymmetricIteratively`, `RequireReferencePotential`, Dörfler marking | the loop ends, the results are the last mesh's, the error is the mean over the pass, an accepted solution is one |
| `io/result_writer.hpp` and its formats | scenario number, open archive, located probes, encoded mesh block | `BeginMesh`, `WriteScenario`, `CouplingWriter` | files and archive describe one mesh; names do not collide; failures leave no mixture |
| `io/gmsh_results_writer.hpp` | the kept mesh part (nodes, encoded block, its key) | `GetHoLayout`, `BuildInterpScheme`, `BuildExportNodes`, `WriteGmshResults` | a reader finds every element, node and value where the mesh has it, under the right shape functions |
| `solvers/electrostatic_solver.hpp`, `magnetostatic_solver.hpp` | operator and factors per mesh | as above, without frequency | one factorization per mesh serves all scenarios; columns match terminals |
| 3D vector-potential solvers | conductors with their paths, port operator, prepared factors, regularization | `MakeConductorPath`, `Setup`, `PrepareSolver`, `RunOnCurrentMesh` | a conductor's path carries the current once around or through; every solve is at its own frequency |
| `divergence_free_projector.hpp`, `linalg/gauged_direct_solver.hpp` | spaces of the projections, gauge rows, bordered factors | projection, `GaugeConstraint`, gauged solve | the gauge constraint removes exactly the null space |
| `linalg/complex_direct_solver.hpp` | field factors, Schur complement | `Factor`, `Mult` | block elimination solves the bordered system, gauge included |
| `config/*`, `solvers/solver_factory.hpp` | names collected by the validator | `Validate`, `ParseConfig`, `CreateSolver` | an accepted configuration is read as written and never trips a solver's own check |
| `main.cpp`, `io/status_reporter.hpp` | nested operations | pipeline, exit codes | every started operation is reported done or failed, innermost first |
| `coefficients/conductor_path.hpp` | cut faces, sides, lifted degrees of freedom | `ConductionPath` | the potential jumps by one across the cut and nowhere else |
| `axisym/magnetic_axis_boundary.hpp` | none | `FindAxisBoundaryMarker` | the potential vanishes on the axis |
| the integrators of `axisym/*`, mesh loading, matrix text output | none | evaluation | numerical, or pure input and output; not modelled |

Interaction is by calls and shared objects: the driver (`PhysicsSolver::Run`) calls
the concrete solver's virtual functions, which call back into the driver's helpers
(`AccumulateScenarioError`, `SaveScenario`); solver and writer share the mesh, which
refinement changes in place; the preconditioner keeps references to the forms'
matrices; caches are stamped with `mesh.GetSequence()`, an address, or a frequency.

Hard behaviours: stale caches (sweeps that return to a frequency, refinement, a
second `Run`, an address the allocator reuses), exceptions in the middle of a rebuild,
a factorization, a pass or a multi-format write, parallel counters that must agree,
and loops with several exits.

## Modules

**MqsOperators** is the discrete system of the 2D magnetoquasistatic solver. A matrix,
vector or field is represented by what it was made from: the mesh's refinement
sequence and the frequency. A stale read is then visible as a provenance that is not
the current one, whatever the numbers in it. A `unique_ptr` is a set of at most one
element. The actions are the solver's operations (`Setup`, `Rebuild`, `BuildFails`,
`RefineConforming`, `RefineFails`, `ImprintScenario`, `SolveSystem`, `FactorFails`,
`KrylovFails`, `EstimateCurrentSolutionError`, `GatherCouplingColumn`,
`ComputeRegionLosses`); each does all its function does, the nested cache updates
included. The client is free to call them in any order the phases allow, which is
more than the driver does. `BuildOperators` chooses an address for the new space
among those the old one does not occupy, because the new one is made before the old
one is released.

**ResultWriter** is `ResultWriter` with the archive, the probe sampler, the Gmsh and
ParaView serializers and the coupling writer. Field data are the sequence of the mesh
they live on. A failing write leaves a prefix of the formats. One format's file is
written whole or not at all: what a half-written file holds is not modelled.

**MqsRun** composes the two, sharing `sequence` (the mesh), under the driver: plan of
a pass, solve loop, error accumulation, the exits of the adaptive loop, refinement,
rebuild, `SaveAnalysis`, and repeated calls of `Run`. `Step` is what the program does
by itself; calling `Setup`, `Run` and `SaveAnalysis` is the caller's choice. A failure
is final: the program stops on an exception.

**RunContract** says what a run promises without any cache: the plan is answered item
by item, each answer on the mesh of the moment and at the item's own frequency and
drive, refinement discards the answers, and a run ends with the plan answered on one
mesh or with a failure. `MqsRun` is shown to implement it under the mapping
`Contract`: an item is answered by what the solution was read from, namely the
factors or preconditioner, the applied operator, the load and its drives.

**FgmresRestart** is the restart loop of the iterative path: norms are natural numbers
on one scale so that "at least halves" is exact; where a restart's true residual ends
is the solver's choice, since the recurrence does not tell.

**ReferencePotential** is the union-find of `RequireReferencePotential`, one action per
iteration of `find` and per turn of the three loops. A boundary attribute is a marker
index; one below 1 is `NonPositive`, which reads in front of the marker and may find
anything. Pieces are connected through faces, as in the code: two parts that only
share a vertex are two pieces, so the check may ask for more than the operator needs.

**DorflerMarking** is `MarkElementsDorfler`: the early returns, the sort (any order among
equal elements), and the loop. Indicators are naturals and fractions are quotients, so
comparisons are exact; rounding at the threshold is not modelled.

**EssentialDofs** is what the three scalar solvers do about essential degrees of freedom:
the sequence of checks in `Setup`, the markers and their union, the axis, the prescribed
values and terminal voltages imprinted for a scenario, the solve that leaves pinned
values alone, and the charge columns of an electrostatic coupling run. A mesh is its
edges, with the attributes of those that are boundary elements, and the vertices on the axis; a degree of freedom is
the set of vertices it lies on, which at second order tells an edge's inside from its
ends. The mesh is in one piece, `ReferencePotential` being about the others.

**StaticRun** is a run of the electrostatic, the 2D magnetostatic or the 3D magnetostatic
solver, adaptive or not, over the same driver as `MqsRun` and against the same
`RunContract`: space, operator, factors, loads, areas and charge operator by the mesh
they were made on, imprinting, both solve paths, and the matrix entry by entry, each entry
recording the functional it was read with and the load it responds to. The three solvers
differ in guards inside shared actions, as they do in the code.

**Mqs3D** is the 3D eddy-current solver from `Setup` to `SaveAnalysis`. It has one mesh, so
what can be stale is the frequency, which lives in `omega`, the port operator, the
prepared factors and the right-hand side. The weight of the regularization is an exact
number, in units that keep it whole. It, too, implements `RunContract`.

**ConductorPath** is how a 3D terminal gets its current path: the checks on electrodes,
walls, sectors and cuts, and `ConductionPath`'s search for the side of each element near
a cut, one action per element taken from the queue. A mesh is its faces with their
elements, vertices and edges and the few signs of its geometry that are used. The
potential is not solved; its circulation is zero exactly when its jumps are those of a
function, which is all the later comparison with zero depends on.

**GaugeSpace** is the divergence-free projector's choice of spaces: which degrees of freedom
of the gauge potential are zero, which share a column because a wall or a conductor
joins them, and which one is pinned in each part. Each call is an action.

**PackedSystem** is the direct solvers themselves, in exact arithmetic over the field of
`Prime` elements and its extension by a root of -1: the port operator's blocks and their
packing, the application without a matrix, elimination of essential rows, the gauge rows,
the split into field and port parts, the Schur complement in blocks of `kBlock` ports,
and the solution put together again. The algorithms use nothing of the numbers but the
field operations, so an identity that fails up to round-off in the program fails exactly
here. The sparse factorization is a bordered inverse and external.

**Json**, **ConfigValidator**, **InputParser** and **ConfigPipeline** are the way from a
document to a solver that is set up. `Json` has the values of a document and the conversions
of the JSON library, widths included. `ConfigValidator` is every check in its order, the
early returns and the names collected on the way; `InputParser` is the parser with its
fallbacks, aliases, skipped entries and sweeps. A point of a logarithmic sweep is `exp` of an
interpolated logarithm, so each of them, the first too, may be off by `LastPlace` (the errors are
the constant `ExpLogErrors`); the last of several points and a single one are cases of their own in the
code, and exact. `ConfigPipeline` runs them as `main` does
(a pass without the mesh, parsing, loading, a pass with it on the same object, the
factory, and the checks `Setup` makes about the configuration). Names and paths are
members of a small set; numbers are hundredths.

**Program** is `main` with its `StatusReporter`: the command line, the stages, the
operations that solvers open and the messages they report and print inside them, an
exception anywhere, and the events that come of it in either format. What a reader makes of
the events (which operations are open behind the first so many, which stages have completed)
is part of the properties.

**GmshLayout**, **GmshScheme** and **GmshWriter** are the Gmsh file. `GmshLayout` is the
recursive node order of every geometry; `GmshScheme` builds the shape functions, one
action per pivot of the elimination, over the residues modulo a prime; `GmshWriter`
numbers the export nodes, writes the mesh sections of both formats, the schemes and the
views, and keeps the mesh part from one file to the next. A reader that knows the format
only is part of the properties.

**Counting** has the loops over numbered entries that the modules above share: the list such a
loop pushes (`InOrder`), the counter it keeps (`Passed`), the sum it adds up (`SumUpTo`).
`MqsOperators`, `Mqs3D`, `ConductorPath`, `DorflerMarking` and `Json` extend it.

The theorems are in modules of their own: **Counting_proofs** (lemmas for the others),
**MqsRun_proofs** (with `MqsOperators`), **Output_proofs** (`ResultWriter` and `Program`),
**StaticRun_proofs**, **Mqs3D_proofs**, **Config_proofs** (`ConfigPipeline` with validator and parser), **ModelSetup_proofs** (`EssentialDofs`, `ConductorPath`,
`GaugeSpace`) and **Algorithms_proofs** (`FgmresRestart`, `ReferencePotential`, `DorflerMarking` and
`PackedSystem`).

The modules named MC give the constants their values. Three of them put parts that share no
state into one run: **MCModelSetup** (`EssentialDofs`, `GaugeSpace`, `ConductorPath`),
**MCOutput** (`Program`, `ResultWriter`, `GmshScheme`, `GmshWriter`) and **MCAlgorithms** (`FgmresRestart`, `ReferencePotential`, `DorflerMarking`,
`PackedSystem`). A behaviour is of one of the parts, named by the variable `subject`; the
others stay in a fixed initial state. The reachable states are the sum of those of the parts,
and an invariant of one part is checked in all of them.

## Runs

| Run | Configuration | Properties | Shows |
|---|---|---|---|
| `operators` | `MqsOperators.cfg` | `SolvesCurrentSystem`, `PortsMatchTerminals`, `EnergyNormIsCurrent`, `PreconditionerReferencesLive` | under any order of calls nothing the 2D eddy-current solver keeps is used for another mesh or frequency, and matrix, load, column and loss table number the ports alike |
| `run` | `MqsRun.cfg` | `CouplingPassIsWhole`, `PassesAreRecorded`, `PublishedIsFinal`, `ImplementsContract`, `Termination` | driver, solver and writer together: what a run answers, records and publishes is complete and of its final mesh, it implements the contract, and it ends |
| `static_run` | `StaticRun.cfg` | `MatrixIsOfTerminals`, `ImplementsContract` | the static solvers implement the contract, the end of every run included; a coupling matrix is reciprocal and free of boundary data |
| `mqs_3d` | `Mqs3D.cfg` | `SolvesActiveFrequency`, `ReadingsAreOwn`, `RegularizationIsWeak`, `ImplementsContract` | the same of the 3D eddy-current solver; its weight, its ports and losses |
| `model_setup` | `ModelSetup.cfg` | `OneOwner`, `PinnedAsConfigured`, `ColumnsDriveRows`, `AxisVerticesVanish`; `SpacesAreExact`; `JumpsOnlyAtCut`, `ConductorEndsFit`, `ExtentIsArc` | what accepted models are solved with: roles, values, columns, axis; the projector's spaces have the columns they need and no other; an accepted conductor carries its current in one sense, from electrodes on one wall or over the arc it covers |
| `configuration` | `Configuration.cfg` | `AcceptedAsWritten`, `ValidationSuffices`, `AcceptedModelIsWhole`, `ValidatorIsConsistent` | what validation accepts is read field by field as written, resolves, and is a whole model (what a solver does not support is left to `Setup`'s model errors); the two passes of one validator agree |
| `output` | `Output.cfg` | `StatusIsTrue`; `ArchiveHolds`, `FilesMatchTheirMesh`, `ArtifactsAreKept`; `SchemeIsLagrange`; `MeshRoundTrips`, `FieldsRoundTrip` | the events of a run name what failed, nest, and have the format and verbosity asked for; archive and files are of one mesh, whatever fails; shape functions belong to their nodes; a reader of a Gmsh file finds the mesh and the fields |
| `algorithms` | `Algorithms.cfg` | `VerdictIsSound`, `RestartsHalve`; `PiecesAreHeld`; `MarksLeastSet`; `OperatorIsAssembled`, `SolutionIsExact` | the restart loop's verdict and progress; the union-find's verdict against connectivity, both ways; the marked set against all subsets; the direct solvers solve the assembled system, which is the applied one, with the gauge |
| `factored_omega` | `FactoredOmega.cfg` | `FactoredOmegaRecordsFactors` | a violation: `factored_omega` does not always record which factors there are |
| `unmarked_boundary` | `UnmarkedBoundary.cfg` | `AcceptedIsHeld` | a violation: an attribute below 1 may let a loose piece pass |
| `axis_regularity` | `AxisRegularity.cfg` | `AxisVanishes` | a violation: an untagged axis edge beside a tagged one |
| `massive_overlap` | `MassiveOverlap.cfg` | `MassiveConducts` | a violation: a massive conductor that does not conduct |

Bounds, and why they suffice:

- `NTerminals = 2`, `NOpen = 1`, every choice of massive terminals: a stranded
  terminal before a massive one, a port that is no terminal after both. A counter that
  is off by one, or counts the wrong thing, shows with two.
- `Frequencies = {50, 60}`: a sweep that leaves a frequency and comes back.
- `MaxSequence = 2` with `Addresses = {1, 2}`: two refinements are the least after
  which a space can have the address of an earlier mesh's space.
- `MaxRuns = 2`: a second `Run` finds what the first one left.
- `MaxIterations = 2`, `DofLimits = {0, 1}`: the loop ended by either limit, or earlier
  by the tolerance or the marking, which are nondeterministic. `TrueDofs` is any
  measure that grows with each refinement.
- Scenario lists: one in descending frequency with a shared drive, one that repeats a
  frequency after another. All names have one label, the worst case for file names.
- `Output.cfg`, results: `MaxScenarios = 2` bounds the scenarios of a pass, not of the run;
  `MaxMesh = 1` is one refinement, the least that makes a kept block, probe or archive stale.
- `Algorithms.cfg`, restarts: six iterations, residuals up to 17 times the target, which
  leaves room for four halvings.
- `Algorithms.cfg`, reference potential: four elements, every list of two different faces, and of three
  up to their direction, the least in which a link is made below a root that is linked later (a chain three deep, which
  path halving shortens); up to two boundary elements, of every kind of attribute.
- `Algorithms.cfg`, marking: up to four elements with indicators 0 to 3, so with ties, zeros
  and sums that meet the threshold exactly; fractions below, at, inside and above (0, 1].
- `ModelSetup.cfg`, essential degrees of freedom: five vertices in a ring and one edge across it, orders 1 and 2;
  an axis of no vertex, of a single one, and of two adjacent edges, each tagged or not;
  every pair of the conditions listed, and up to two terminals. Values are in units of the tolerance; a
  triple of conditions whose values drift by one tolerance shows that two are the bound.
- `StaticRun.cfg`: two terminals, a list with an undriven scenario and a repeated drive;
  three iterations, so two refinements, and a second `Run`.
- `Mqs3D.cfg`: three terminals of either kind, so that a stranded one can lie between
  two massive ones; a sweep that descends and one that repeats; static weights and
  conductivities on both sides of the floor.
- `ModelSetup.cfg`, paths: rings of four and six sectors and a bar of two, two layers wide.
  Cuts are all sets of up to three (`MaxCutFaces`) internal faces of the ring of four and all
  sets of planes of both rings; sectors start and end anywhere, so every angle wraps somewhere.
- `ModelSetup.cfg`, gauge: six degrees of freedom; every set of up to half the boundary
  attributes, and of all, as essential ones, and every set of
  conductors on a strip (in two numberings) and on a ring, whose wall has two pieces.
- `Algorithms.cfg`, packed system: three field degrees of freedom and up to three ports in blocks of
  two, so a full block, a partial one, and none; with and without a gauge and essential
  degrees of freedom, at two frequencies on one operator. Three elements are the smallest
  field without a root of -1.
- `Configuration.cfg`: three documents and `MaxEdits = 2` out of some 140 changes each,
  against three meshes: two changes are what a disagreement of two checks takes. `Values` is what
  these documents and changes are made of. `ExpLogErrors` has errors of both signs at the first,
  inner and last points, also of a sweep whose start is its stop.
  A directory on the command line counts as one of the two changes.
- `Output.cfg`, program: command lines of up to four arguments, with each option given before or
  after the others, twice, without its value, or as the value of another; two operations inside
  the stages, nested (`MaxDepth`) or in turn, `MaxPrints` messages of solvers, one or two ranks.
- `Output.cfg`, schemes: all geometries and orders of the layout (and one of each beyond), and the
  elimination up to order 7 for triangles, 4 for tetrahedra, 5 for quads and 3 for hexahedra; modulo 101 no node
  coordinate's denominator vanishes.
- `Output.cfg`, Gmsh files: two triangles and a quad in two attributes and a refinement of them, two
  tetrahedra, two hexahedra that name a shared face differently, a prism, orders up to 4;
  field lists with one that fails in the middle.

`CHECK_DEADLOCK FALSE` is given where the program stops: after a failure, after
`SaveAnalysis` when no further `Run` is called, after a verdict, and where an algorithm
has returned.

Fairness is `WF_vars(Step)` in `MqsRun`, `StaticRun` and `Mqs3D`; `Termination` needs it, and
so does the `EveryRunEnds` that `ImplementsContract` includes for the other two. One thread
executes `Run`, so a step that can be taken is taken. The properties are that a started run
ends; the exits by tolerance or marking are not assumed to happen, and calling `Run` is not
either.

### The findings

**The label of the factors** (`factored_omega`).

`EnsureFactorizationForActiveFrequency` calls `Factor`, which replaces the stored
factors and may then throw, before it assigns `factored_omega`. The comment on the
member says that `factored_omega` records which frequency the current factors belong
to; after a throw it does not. Within the program the exception ends the run, so the
label is never read. A caller of the solver that catches the exception and runs again
at the earlier frequency would be answered with the other frequency's factors.

**Attributes below 1** (`unmarked_boundary`). `RequireReferencePotential` indexes the
markers by `attribute - 1` after checking the upper bound only. MFEM loads meshes with
non-positive boundary attributes, as the axis code notes and guards against, and so does
the boundary validator. What is read in front of the array decides about the piece.

**The axis in several stretches** (`axis_regularity`). The search for axis edges no marker
selects is made only when no attribute lies on the axis at all. One tagged stretch
switches it off; an untagged edge beside it keeps its two vertices pinned, but from
second order on not what lies between them, while the documentation says that the axis
condition is imposed along axis edges. `AxisVerticesVanish` states what does hold.

**A conductor that does not conduct** (`massive_overlap`). A stranded winding's
attributes lose their conductivity, a massive terminal's are checked against the
material's; a group that overlaps both passes the check.

### Further divergences

Met while modelling, reproduced by the models' definitions, and without a run of their own:

- In a machine-readable run the handler of `main` writes the error as JSON, which the
  library refuses when the message, a path from the command line say, is not UTF-8. The
  exception leaves the handler, and the program ends without the event the format promises.
- The validator converts the order to `int` before it looks at its range; 2^32 + 1 is taken
  for 1.
- The documentation says that every attribute of the mesh is claimed by exactly one region.
  The check is made from inside the check of the regions, which returns first if the
  document has none.
- The documentation says all failures are reported together; after a wrong type the
  validator returns before the checks that read the values.
- `epsilon_r` has a documented default that electrostatic models may not use.
- `--verbosity 0` is documented as status and timing only. The magnetostatic solver prints its
  warning of a right-hand side that is zero to MFEM's stream at any verbosity;
  `VerbosityAsAsked` excepts it.
- A cut in pieces is recognised by elements that the search from one seed did not reach. Two
  sheets whose neighbouring elements touch are reached from one seed; the jumps across them
  cancel, and the path integral that should reject them is compared with zero after a
  numerical solve.

## Proofs

Every theorem is for all values of the constants that the named assumptions allow. Where a
run checks an invariant on a small instance, the theorem is about every instance.

**The discrete system** (`MqsRun_proofs`). For every number of terminals, open regions
and refinements and every set of frequencies and addresses that satisfies the assumptions
of `MqsOperators` (frequencies are positive; there is a second address), `Invariance` shows
that `IInv` is inductive, and from it follow all four invariants of the run `operators`
(`SolvesAreCurrent`, `PreconditionerIsLive`, `EnergyNormCorrect`, `PortsAreOwn`).
`SolvesCurrentSystem` is not inductive: that the factors are current when a solve ends
depends on the stamp they were cached under, on the stamp being reset with the mesh,
and on a failed build leaving phases in which nothing is solved. `IInv` adds these:
what is live in each phase, that everything built for the mesh is of the current one
outside `refined` and `failed`, that each cache is what its stamp says, and that an
imprinted load belongs to the active frequency. Ports need a second invariant, `ReadsOwn`: the
counters that the load and the column keep while they walk over the terminals agree with
the number of massive terminals before the current one, the loss table collects the ports in the
operator's order, and a terminal's areas and functionals are its own.

**The run** (`MqsRun_proofs`). `RunInvariance` shows for the whole 2D eddy-current run, driver,
solver and writer, that the conjunction of the following is inductive on top of `IInv`. Where
the driver is in its plan determines the phase of the solver (`DriverInv`); the last solve is
of the mesh, frequency and drive of its item (`SolvedInv`, `LoadInv`); the answers are those of
the items behind (`AnswerInv`); a coupling run has the columns of those items at their own
points, and at most one factorization for each point opened (`SeriesInv`, `PointsInv`); the
folded error weighs every solve of the pass alike, and the history lists what the passes had
(`ErrorInv`, `HistoryInv`); archive and files follow the items (`WriterInv`, `FilesInv`). From it
follow the three invariants of the run (`CouplingIsWhole`, `PassesRecorded`,
`LastMeshIsPublished`), and `RunsTheContract`: `ImplementsContract`, the refinement of
`RunContract`, step by step. An item's point and column are a quotient and a remainder of its
place in the plan, and a point's frequency is found by rank; the facts about both are
lemmas of `Counting_proofs`.

**The writer** (`Output_proofs`). `WInv` says which of writer, archive, probes and kept mesh
block exist in each phase and that they are of one mesh. `WriterInvariance`, and from it
`ArchiveIsWhole`, `FilesMatch` and `ArtifactsKept`, hold for any client that begins a mesh before
it writes on it, and wherever a format fails.

**The status of a run** (`Output_proofs`). `StatusHolds` shows `StatusIsTrue` for every set of
command lines over `Words`, any operations solvers open, and any bounds on nesting and
messages. The one assumption about the code is that no solver calls an operation what `main`
calls a stage (`InnerAssumption`): otherwise a completed operation could be read as a completed
stage. The properties read the events from the first one on, by recursive functions; the
lemmas `OpenStep`, `NamesUpToStep` and `IsReadStep` say what one more event, stage or argument
changes, and every step is reduced to its effect on what is told and what is alive (`Silent`,
`Says`, `Opens`, `Closes`, `Excuses`). The invariant `PInv` adds what the properties do not say:
that the exception in flight is counted once and no operation was opened under one (`Counted`,
`PTypeOK`), what the argument loop has kept of the options behind it (`Parsed`), that the
outermost operation alive is the current stage's and the others are solvers' (`StageOpen`), and
that while an exception unwinds the events behind some event `cut` are the failures of what was
open there, innermost first, and what was not yet ended is alive (`CutShort`).

**The static solvers and the 3D solver** (`StaticRun_proofs`, `Mqs3D_proofs`). The same shape
of invariant (`SInv`, `M3Inv` with `ReadInv` and `AnswerInv`) gives `MatrixOfTerminals`,
`SolvesAreActive`, `ReadingsOwn` and `RegularizationBound`. Both refinements are proved as
far as they are about safety: `RunsTheContractStatic` and `RunsTheContract3D` show that every
behaviour is one of `RunContract`; the end of every run, which their `ImplementsContract` also
claims, is liveness and checked by TLC. Assumptions are that frequencies, weights and
conductivities are positive. `M3Inv` has that `omega` is one of the plan's frequencies, which
needs that a finite set of them has an element of every rank, and that what is prepared is
nothing or the system of `prepared_omega` over the same port columns; the latter holds although
the operator moves to a new frequency before it is prepared, because preparing comes
before solving in one step. The bound of the weight is a fact about the least frequency and
the least conductivity alone.

**Essential degrees of freedom and paths** (`ModelSetup_proofs`). The four properties of
`EssentialDofs` hold for every mesh, order, and list of conditions and terminals that satisfies
`ModelAssumption` (edges have vertices, axis vertices belong to the mesh, only electrostatic
models have boundary terminals). The invariant `EInv` says what each check established at the
point it was passed, that the pinned values are those of the last imprint, and what each
gathered column recorded. The two-tolerance bound comes from all values being compared with
the first. Of `ConductorPath`, `JumpIsTheCut` proves `JumpsOnlyAtCut` for every mesh
whose faces have one or two different elements. Its invariant `CutInv` follows the search:
what has a side and is behind the head of the queue has settled its neighbours, the queue is
what has been given a side, and only faces of the cut change it. When the queue is
empty every element near the cut is settled, so the lifted degrees of freedom differ across
exactly the faces of the cut.
`ElectrodesShareWall` proves `ConductorEndsFit` for every mesh, list of walls and electrodes,
with no bound on the number of pieces. A set of walls that is closed under sharing a vertex
holds a piece of the union-find or misses it (`PiecesAreConnected`, an induction over the
loop), and what as many steps as there are walls lead to from a face is such a set, since each
step adds a wall or nothing any more (`WaysAreClosed`). One piece touched by all electrodes thus
lies in the walls reached from any of their faces. The types need that the cut is not empty
while it is searched and that degrees of freedom are numbers, so that one is the least.

**The projector's spaces** (`ModelSetup_proofs`). `SpacesExact` proves `SpacesAreExact` for every
mesh, every essential boundary and every conductor; `SpaceAssumption` asks only that there is a
degree of freedom and that a boundary element has one. "Joined" is said without paths: no set
that is closed under sharing an element tells the two apart. The invariant `GInv` has a part
for each of the loops, indexed by how far the loop has come. A find's map keeps every closed
set, and gives one root to what it has been given (`WallsInv`, `GroupsJoined`); the search
leaves what is off its stack with its neighbours in its part, and a part keeps every closed
set (`PartsNumbered`); pieces and columns are numbered without a gap, so there are no more of
them than degrees of freedom (`PiecesNumbered`, `ColumnsAssigned`). For the gauge each degree of
freedom has a key, its group of wall pieces, its part or itself; `KeysExact` shows that keys are
alike exactly for what walls and conductor join, through one another too, and `ColumnsGiven`
that equal keys have equal columns. Which part is grounded is in the invariant of the
search, and with it each part without a wall has one pin (`PinsSet`).

**From a document to a solver** (`Config_proofs`). All four invariants of the run
`configuration` hold for every set of documents, of edits with keys or array positions along a
path, and of meshes that have an element. `DocumentsAssumption` says of the documents that they
are JSON values (`IsJson`: a value has the payload of its type, and what it holds is such a value
again), and `OverridesAssumption` that the command line gives absolute directories, as `main`
makes them. The proof has three layers.

- What each check of the validator establishes when it reports nothing, section by section
  (`TypesPass`, `GroupsPass`, `TerminalsPass`, `ScenariosPass` and their like): `Passes(d, m)` is
  all of them together, and does not depend on what the object has seen before
  (`VerdictIsFresh`). `SchemaNecessary` adds that a mesh with a region for every attribute
  has the dimension the first pass guesses, so that pass refuses nothing of its own.
- What the parser makes of a document that has passed, by function. No read throws
  (`ParserReads`). A name finds the entry that carries it, because names are distinct
  (`OwnNames`, `GroupsByName`, `TerminalsByName`, `MaterialsByName`). The scenarios are joined
  one after the other by a recursive function; `JoinedParts` shows that each is found again
  where it was put, and `PointsFound` that its points are the block under its name. `SweepFits`
  has the spacing: the linear one by quotients, the logarithmic one because the bound
  on the power of a point grows from point to point, and up to the errors of `exp` and `log`;
  exact are the ends of a linear sweep, the last of several points and a single one, and no more.
- The invariant `CInv`, which says what the steps of `main` have left behind: which verdicts
  hold for document and mesh at each step (`VerdictInv`), that the configuration is the decoded
  document (`ConfigInv`), that the directory of the command line is in it (`DocumentInv`), and
  that nothing has failed in the parser or for a mistake of the configuration (`FailureInv`). The
  properties alone are not inductive: `ValidationSuffices` speaks of what has failed, and only
  the verdict that came before says why the next step cannot. That an edit leaves a JSON value
  is `SetAtHolds`, by induction along the path.

`AcceptedAsWrittenAlways` goes through the document field by field: the simulation with its
refinement (`SimulationKept`, `AmrKept`), groups, materials and regions, boundary conditions with
their values and coefficients (`BoundariesKept`), terminals with their directions
(`TerminalsKept`), scenarios with the excitations of every point (`ScenariosKept`), output with its
formats and probes (`OutputKept`). A path is compared by what was written, however it is resolved; a
mesh that is given as an empty text passes validation and stands for `default.msh`, so it is excepted. Of
the points along a line probe their number and the first are compared, and a field that is
absent has its fallback. The theorem has a hypothesis, `IsNarrow(Values)`: no integer in documents and edits
needs more than 32 bits. Without it the property is false in the code (see the divergences: 2^32 + 1
is taken for 1). `NarrowAssumption` states it for the run.

**The algorithms** (`Algorithms_proofs`).

- Restarts, for every budget, target and stall limit: what the loop accepts is solved, or
  stalled at the round-off floor within the limit, and what it refuses is not within the
  target (`SoundVerdict`); every restart beyond the stalled ones at least halves the residual
  (`ProgressIsGeometric`).
- The union-find, for every mesh: an accepted one with positive
  boundary attributes has no piece that nothing holds, and, for all attributes, a
  rejected one has such a piece (`AcceptanceIsSound`, `RejectionIsJustified`, and both as
  `VerdictIsRight`). For the first, a set of elements closed under faces
  is closed under `root` as well, so every element's `find` ends in its own piece and meets
  a fixed root that a pinned boundary put there. For the second, every element is assigned a
  class named by its root, and a rank that grows along `root`; linking merges two classes,
  halving keeps them, and the class of the rejected root is a piece that nothing holds. The
  rank is what shows that a link never closes a cycle.
- Marking, for every list of indicators and every fraction: `LeastSetMarked`. The invariant
  `DInv` says that what is marked is a prefix of an order by error that does not reach the
  threshold without its last element; that no smaller set reaches it is an exchange argument, the
  lemma `LargestSum` of `Counting_proofs`: no `k` elements weigh more than the first `k` of such
  an order.
- The packed system, for matrices of any size over any finite field without a root of -1, any
  number of ports and any frequency: the packed matrix is the operator applied without one
  (`PathsAgree`). That the three copies of omega agree (`OneFrequency`) is the invariant; the
  rest is algebra on unit vectors, column by column. That `Prime` makes a field is an assumption
  in the form of exact division.

Only model-checked, and why:

- `Termination`, and the end of every run in the `ImplementsContract` of `StaticRun` and `Mqs3D`:
  liveness under fairness.
- `SolutionIsExact`: the elimination is recursive, and its correctness an induction over data.
- `SchemeIsLagrange`, `MeshRoundTrips` and `FieldsRoundTrip` rest on the recursive node layout.
- `ExtentIsArc`: the arcs of sectors are data that the run enumerates, every angle wrapping.

## Not modelled, and why

- Numbers: quadrature, coefficients at a point, finite-element assembly, round-off (but for the
  `exp` and `log` of a sweep), and how fast an iterative solver converges. A field is what it was made from, or lies in a
  finite field.
- The preconditioners' approximation (`mqs_block_preconditioner.hpp`, `serial_ams.hpp`,
  `amg_preconditioner.hpp`): it decides how many iterations are needed, which
  `FgmresRestart` leaves open, and not what is accepted.
- Projections in `divergence_free_projector.hpp` and the path's Laplace solve: scalar solves
  to a tolerance, over spaces that are modelled.
- Library code: MFEM's refinement, sparse LU, MPI, HDF5, the JSON parser and ParaView output
  appear as the operations the program calls, with their ways of failing.
- `io/mesh_loader.hpp` (one library call) and `io/matrix_writer.hpp` (a formatted print).
- The integrators of `axisym/`: integrals over the reals.
- A file half-written when a format fails, and files left by another process.
