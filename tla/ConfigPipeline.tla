-------------------------- MODULE ConfigPipeline --------------------------
(***************************************************************************)
(* From a configuration document to a solver that is set up: the steps of  *)
(* main (src/src/main.cpp:150-238) with one validator object for both of   *)
(* its passes, the parser, the solver factory and what the chosen solver's *)
(* Setup verifies about the configuration.                                 *)
(*                                                                         *)
(* The document is one of Documents with up to MaxEdits of Edits made in   *)
(* it, each a path and the value written there (or Absent); a directory on *)
(* the command line counts as one of them.  A mesh's space dimension is    *)
(* its dimension.                                                          *)
(***************************************************************************)
EXTENDS ConfigValidator, InputParser

CONSTANTS Documents, Edits, MaxEdits, Meshes,
          Values,        \* the documents, what edits write, and all they hold
          Overrides      \* values of --output-directory; "" when not given

ASSUME DocumentsAssumption ==
    /\ IsJson(Values)
    /\ \A d \in Documents : d \in Values /\ d.type = "object"
    /\ \A e \in Edits : e.path \in Seq(STRING) \ {<<>>} /\ e.value \in Values \cup {Absent}

\* A mesh has elements.
ASSUME MeshesAssumption == \A m \in Meshes : m.dim \in 1 .. 3 /\ m.attributes # {}

ASSUME EditsAssumption == MaxEdits \in Nat

ASSUME OverridesAssumption == Overrides \subseteq AbsolutePaths \cup {""}

VARIABLES reached,      \* the last step done, or "failed"
          document,   \* the JSON document, shared by validator and parser
          edits,
          override,
          validator,
          config,     \* the decoded ProblemConfig
          mesh,
          solver,
          failure     \* <<the step that failed, what it reported>>

vars == <<reached, document, edits, override, validator, config, mesh, solver, failure>>

NoConfig == [Order |-> 0]
NoFailure == <<"", {}>>

CInit ==
    /\ reached = "document"
    /\ document \in Documents
    /\ edits = 0
    /\ override = ""
    /\ validator = NewValidator
    /\ config = NoConfig
    /\ mesh = NoMesh
    /\ solver = ""
    /\ failure = NoFailure

Reject(step, report) ==
    /\ reached' = "failed"
    /\ failure' = <<step, report>>

Reach(next) == reached' = next /\ UNCHANGED failure

Edit(edit) ==
    /\ reached = "document" /\ edits < MaxEdits
    /\ HasParent(document, edit.path)
    /\ document' = SetAt(document, edit.path, edit.value)
    /\ document' # document
    /\ edits' = edits + 1
    /\ UNCHANGED <<reached, override, validator, config, mesh, solver, failure>>

\* A missing or malformed simulation section becomes an empty one.
Injected(doc, dir) ==
    LET sim == Field(doc, "simulation", Null)
        simulated == IF sim.type = "object" THEN doc
                     ELSE Put(doc, "simulation", Obj(<<>>))
        output == Field(simulated, "output", Obj(<<>>))
    IN  IF dir = "" THEN simulated
        ELSE Put(simulated, "output", Put(output, "directory", Str(dir)))

Load(dir) ==
    /\ reached = "document"
    /\ dir # "" => edits < MaxEdits
    /\ override' = dir
    /\ IF dir # "" /\ Has(document, "output") /\ document.fields["output"].type # "object"
       THEN Reject("load", {"output"}) /\ UNCHANGED document
       ELSE Reach("loaded") /\ document' = Injected(document, dir)
    /\ UNCHANGED <<edits, validator, config, mesh, solver>>

Check(from, to, against) ==
    /\ reached = from
    /\ validator' = Validate(validator, document, against)
    /\ IF Accepts(validator') THEN Reach(to)
       ELSE Reject(to, {e[1] : e \in validator'.errors})
    /\ UNCHANGED <<document, edits, override, config, mesh, solver>>

CheckSchema == Check("loaded", "checked", NoMesh)
CheckWithMesh == Check("meshed", "accepted", mesh)

Decode ==
    /\ reached = "checked"
    /\ IF Throws(document) # {}
       THEN Reject("decoded", Throws(document)) /\ UNCHANGED config
       ELSE Reach("decoded") /\ config' = GetProblemConfig(document)
    /\ UNCHANGED <<document, edits, override, validator, mesh, solver>>

LoadMesh(m) ==
    /\ reached = "decoded"
    /\ mesh' = m
    /\ Reach("meshed")
    /\ UNCHANGED <<document, edits, override, validator, config, solver>>

-----------------------------------------------------------------------------
(* The factory and what Setup verifies.                                    *)

ThreeD == config.GeometryType = "3d"

SolverFor ==
    CASE config.PhysicsType = "electrostatics" -> "ElectrostaticSolver"
      [] config.PhysicsType = "magnetostatics" ->
            IF ThreeD THEN "MagnetostaticSolver3D" ELSE "MagnetostaticSolver"
      [] OTHER ->
            IF ThreeD THEN "MagnetoquasistaticSolver3D" ELSE "MagnetoquasistaticSolver"

Create ==
    /\ reached = "accepted"
    /\ solver' = SolverFor
    /\ Reach("created")
    /\ UNCHANGED <<document, edits, override, validator, config, mesh>>

Terminals == {config.Terminals[n] : n \in DOMAIN config.Terminals}
TerminalsOf(conductor) == {t \in Terminals : t.Conductor = conductor}
Listed(list) == {list[i] : i \in DOMAIN list}

\* config.EntityGroups.at(name), and the marker of a boundary group.
IsGroup(name) == name \in DOMAIN config.EntityGroups
IsBoundary(name) == IsGroup(name) /\ config.EntityGroups[name].Dim = mesh.dim - 1
Attributes(name) == config.EntityGroups[name].AttributeIds

ElectrodesOf(t) ==
    CASE t.Direction.Type = "electrodes" -> {t.Direction.Input, t.Direction.Output}
      [] t.Direction.Type = "cut"        -> {t.Direction.Cut}
      [] OTHER                           -> {}

\* The names Setup looks up without finding what it needs.
Unresolved ==
    \/ \E bc \in Listed(config.BoundaryConditions) : ~IsBoundary(bc.EntityGroupName)
    \/ \E r \in Listed(config.Regions) :
            ~IsGroup(r.EntityGroupName) \/ r.MaterialName \notin DOMAIN config.Materials
    \/ \E t \in Terminals :
            \/ ~IsGroup(t.EntityGroupName)
            \/ t.DriveQuantity = "voltage" /\ ~IsBoundary(t.EntityGroupName)
            \/ \E e \in ElectrodesOf(t) : ~IsBoundary(e)

\* The conductivity of the region that claims the attribute first.
MaterialConductivity(a) ==
    LET claiming == {i \in DOMAIN config.Regions :
                        a \in Attributes(config.Regions[i].EntityGroupName)}
    IN  IF claiming = {} THEN 0
        ELSE config.Materials[config.Regions[Min(claiming)].MaterialName].Conductivity

\* The conductivity of the eddy-current term: none on a stranded conductor.
FieldConductivity(a) ==
    IF \E t \in TerminalsOf("stranded") : a \in Attributes(t.EntityGroupName)
    THEN 0 ELSE MaterialConductivity(a)

\* The groups of the conductors whose current is sigma E.
MassivePorts ==
    {t.EntityGroupName : t \in TerminalsOf("massive")}
    \cup {r.EntityGroupName : r \in {q \in Listed(config.Regions) :
            q.CurrentConstraint = "open" /\ solver = "MagnetoquasistaticSolver"}}

MassiveErrors ==
    {<<"conductivity", g>> : g \in {h \in MassivePorts :
        \E a \in Attributes(h) : MaterialConductivity(a) <= 0}}
    \cup {<<"conductance", g>> : g \in {h \in MassivePorts :
        /\ ~ThreeD
        /\ \A a \in Attributes(h) \cap mesh.attributes : FieldConductivity(a) <= 0}}
    \cup {<<"attributes", g>> : g \in {h \in MassivePorts :
        ~(Attributes(h) \subseteq mesh.attributes)}}

\* Kept apart: the mistakes validation should have caught, and the ones that
\* are Setup's to find.
ConfigurationErrors ==
    LET drive == IF solver = "ElectrostaticSolver" THEN "voltage" ELSE "current"
    IN  {e \in {"reference", "quantity", "scenarios", "direction", "dimension"} :
            CASE e = "reference" -> Unresolved
              [] e = "quantity"  -> \E t \in Terminals : t.DriveQuantity # drive
              [] e = "scenarios" -> /\ config.PhysicsType = "magnetoquasistatics"
                                    /\ config.Scenarios = <<>>
              [] e = "direction" -> /\ solver \in {"MagnetostaticSolver3D",
                                                   "MagnetoquasistaticSolver3D"}
                                    /\ \E t \in Terminals : t.Direction = NoDirection
              [] OTHER           -> mesh.dim # (IF ThreeD THEN 3 ELSE 2)}

ModelErrors ==
    LET bcs == Listed(config.BoundaryConditions)
        magnetic == solver # "ElectrostaticSolver"
        magnetic3D == ThreeD /\ magnetic
    IN  {e \in {"robin", "value", "amr", "build"} :
            CASE e = "robin" -> \E bc \in bcs : /\ bc.Type = "robin"
                                                /\ magnetic \/ bc.RobinCoeff < 0
              [] e = "value" -> magnetic3D /\ \E bc \in bcs : bc.Value # 0
              [] e = "amr"   -> magnetic3D /\ config.Amr.Enabled
              [] OTHER       -> /\ magnetic3D /\ config.LinearSolver = "iterative"
                                /\ ~Parallel}
        \cup (IF magnetic THEN {e[1] : e \in MassiveErrors} ELSE {})

SetUp ==
    /\ reached = "created"
    /\ IF ConfigurationErrors # {} THEN Reject("configuration", ConfigurationErrors)
       ELSE IF ModelErrors # {} THEN Reject("model", ModelErrors)
       ELSE Reach("ready")
    /\ UNCHANGED <<document, edits, override, validator, config, mesh, solver>>

CNext ==
    \/ \E e \in Edits : Edit(e)
    \/ \E dir \in Overrides : Load(dir)
    \/ CheckSchema
    \/ Decode
    \/ \E m \in Meshes : LoadMesh(m)
    \/ CheckWithMesh
    \/ Create
    \/ SetUp

CSpec == CInit /\ [][CNext]_vars
-----------------------------------------------------------------------------
(* What validation promises the rest of the program.                       *)

Steps == {"document", "loaded", "checked", "decoded", "meshed", "accepted",
           "created", "ready", "failed"}

Decoded == config # NoConfig
Accepted == reached \in {"accepted", "created", "ready"}

\* The pipeline's state has its type, and only the steps of main fail.
CTypeOK ==
    /\ reached \in Steps
    /\ edits \in 0 .. MaxEdits
    /\ mesh \in Meshes \cup {NoMesh}
    /\ reached = "failed" <=> failure # NoFailure
    /\ failure[1] \in {"", "load", "checked", "decoded", "accepted",
                       "configuration", "model"}

\* A document the schema pass accepts never makes the parser throw: the
\* types and presence the validator tests are those the parser relies on.
ParserReadsAccepted == failure[1] # "decoded"

\* The named entries of a section and of what was decoded from it agree one
\* to one: no entry is lost to another of its name.
OneEach(key, decoded) ==
    /\ Cardinality(DOMAIN decoded) = Len(Section(document, key))
    /\ \A item \in Members(document, key) : Text(item, "name", "") \in DOMAIN decoded

SameText(object, key, value) == Has(object, key) => object.fields[key].text = value
SameNumber(object, key, hundredths) ==
    Has(object, key) => Written(object.fields[key]) = hundredths

SameTruth(object, key, truth) == Has(object, key) => object.fields[key].truth = truth
SameNumbers(value, numbers) ==
    /\ DOMAIN numbers = DOMAIN Items(value)
    /\ \A i \in DOMAIN numbers : numbers[i] = Written(Items(value)[i])
SameVector(object, key, numbers) == Has(object, key) => SameNumbers(object.fields[key], numbers)

\* The path, however it was resolved, ends in what was written.
SamePath(object, key, path) == Has(object, key) => path[Len(path)] = object.fields[key].text

\* An empty mesh passes validation, and then stands for a default.
SimulationAsWritten ==
    LET sim == Sim(document)
    IN  /\ SameText(sim, "physics_type", config.PhysicsType)
        /\ SameText(sim, "geometry_type", config.GeometryType)
        /\ SameText(sim, "analysis_type", config.AnalysisType)
        /\ SameText(sim, "linear_solver", config.LinearSolver)
        /\ Text(sim, "mesh", "") # "" => SamePath(sim, "mesh", config.MeshPath)
        /\ SameNumber(sim, "order", 100 * config.Order)
        /\ SameNumber(sim, "solver_max_iter", 100 * config.SolverMaxIter)
        /\ SameNumber(sim, "solver_print_level", 100 * config.SolverPrintLevel)
        /\ SameNumber(sim, "solver_tolerance", config.SolverTolerance)

AmrAsWritten ==
    LET amr == Field(Sim(document), "amr", Null)
    IN  /\ SameTruth(amr, "enabled", config.Amr.Enabled)
        /\ SameNumber(amr, "max_iterations", 100 * config.Amr.MaxIterations)
        /\ SameNumber(amr, "max_dofs", 100 * config.Amr.MaxDofs)
        /\ SameNumber(amr, "error_fraction", config.Amr.ErrorFraction)
        /\ SameNumber(amr, "error_tolerance", config.Amr.ErrorTolerance)
        /\ SameTruth(amr, "conforming", config.Amr.Conforming)

GroupsAsWritten ==
    \A g \in Members(document, "entity_groups") :
        LET group == config.EntityGroups[Text(g, "name", "")]
        IN  /\ SameNumber(g, "dim", 100 * group.Dim)
            /\ {100 * a : a \in group.AttributeIds}
                = {Written(a) : a \in Members(g, "attribute_ids")}

MaterialsAsWritten ==
    \A m \in Members(document, "materials") :
        LET material == config.Materials[Text(m, "name", "")]
            properties == Field(m, "properties", Null)
        IN  /\ SameNumber(properties, "sigma", material.Conductivity)
            /\ SameNumber(properties, "epsilon_r", material.RelPermittivity)
            /\ SameNumber(properties, "mu_r", material.RelPermeability)

RegionsAsWritten ==
    \A i \in DOMAIN Section(document, "regions") :
        LET written == Section(document, "regions")[i]
            region == config.Regions[i]
        IN  /\ SameText(written, "entity_group", region.EntityGroupName)
            /\ SameText(written, "material", region.MaterialName)
            /\ SameText(written, "current_constraint", region.CurrentConstraint)

BoundariesAsWritten ==
    /\ Len(config.BoundaryConditions) = Len(Section(document, "boundary_conditions"))
    /\ \A i \in DOMAIN Section(document, "boundary_conditions") :
        LET written == Section(document, "boundary_conditions")[i]
            bc == config.BoundaryConditions[i]
        IN  /\ SameText(written, "type", bc.Type)
            /\ SameText(written, "entity_group", bc.EntityGroupName)
            /\ SameNumber(written, "value", bc.Value)
            /\ SameNumber(written, "robin_coefficient", bc.RobinCoeff)

DirectionAsWritten(written, direction) ==
    /\ SameText(written, "type", direction.Type)
    /\ SameText(written, "input", direction.Input)
    /\ SameText(written, "output", direction.Output)
    /\ SameText(written, "cut", direction.Cut)
    /\ SameVector(written, "origin", direction.Origin)
    /\ SameVector(written, "axis", direction.Axis)
    /\ SameVector(written, "normal", direction.Normal)

TerminalsAsWritten ==
    \A t \in Members(document, "terminals") :
        LET terminal == config.Terminals[Text(t, "name", "")]
        IN  /\ SameText(t, "quantity", terminal.DriveQuantity)
            /\ SameText(t, "conductor_type", terminal.Conductor)
            /\ SameText(t, "entity_group", terminal.EntityGroupName)
            /\ SameNumber(t, "turns", terminal.Turns)
            /\ Has(t, "direction") =>
                    DirectionAsWritten(t.fields["direction"], terminal.Direction)

\* The points of the scenario of that name, in their order.
PointsOf(name) ==
    LET own == {i \in DOMAIN config.Scenarios : config.Scenarios[i].Name[1] = name}
        order == InOrder(own, Len(config.Scenarios))
    IN  [p \in DOMAIN order |-> config.Scenarios[order[p]]]

ExcitationsAsWritten(written, excitations) ==
    /\ DOMAIN excitations = DOMAIN written
    /\ \A j \in DOMAIN written :
        /\ SameText(written[j], "terminal", excitations[j].TerminalName)
        /\ SameNumber(written[j], "value", excitations[j].Value)
        /\ SameNumber(written[j], "phase", excitations[j].Phase)

\* Each scenario is run, and every point of it with its excitations.
ScenariosAsWritten ==
    \A s \in Members(document, "scenarios") :
        LET points == PointsOf(Text(s, "name", ""))
        IN  /\ points # <<>>
            /\ \A p \in DOMAIN points :
                    ExcitationsAsWritten(Section(s, "excitations"), points[p].Excitations)

\* Of the points along a line, the number and the first one are exact.
ProbeAsWritten(written, probe) ==
    LET points == Items(Field(written, "points", Null))
        line == Field(written, "line", Null)
    IN  /\ SameText(written, "name", probe.Name)
        /\ SameText(written, "entity_group", probe.Group)
        /\ Has(written, "points") =>
                /\ Len(probe.Points) = Len(points)
                /\ \A i \in DOMAIN points : SameNumbers(points[i], probe.Points[i])
        /\ Has(written, "line") =>
                /\ SameNumber(line, "count", 100 * Len(probe.Points))
                /\ SameVector(line, "from", probe.Points[1])

OutputAsWritten ==
    LET written == Field(document, "output", Obj(<<>>))
        output == config.Output
        Target(format, key, path) ==
            /\ path # <<>> <=> Has(written, format)
            /\ SamePath(Field(written, format, Null), key, path)
    IN  /\ SamePath(written, "directory", output.Directory)
        /\ SameTruth(written, "export_fields_for_coupling_matrix", output.Export)
        /\ Target("paraview", "directory", output.Paraview)
        /\ Target("gmsh", "directory", output.Gmsh)
        /\ SameText(Field(written, "gmsh", Null), "version", output.Version)
        /\ Target("hdf5", "file", output.Hdf5)
        /\ Len(output.Probes) = Len(Section(written, "probes"))
        /\ \A i \in DOMAIN Section(written, "probes") :
                ProbeAsWritten(Section(written, "probes")[i], output.Probes[i])

\* Every value the author wrote in a section is the value the run uses: no
\* fallback, no duplicate name, no skipped or misplaced entry and no conversion
\* replaces it.  (The frequencies are SweepsCoverTheirRange's.)
ValuesAreKept ==
    Decoded =>
        /\ OneEach("entity_groups", config.EntityGroups)
        /\ OneEach("materials", config.Materials)
        /\ OneEach("terminals", config.Terminals)
        /\ SimulationAsWritten
        /\ AmrAsWritten
        /\ GroupsAsWritten
        /\ MaterialsAsWritten
        /\ RegionsAsWritten
        /\ BoundariesAsWritten
        /\ TerminalsAsWritten
        /\ ScenariosAsWritten
        /\ OutputAsWritten

\* Setup never finds a mistake that validation is for: every name resolves to
\* a group of the role it is used in, every terminal has the quantity and
\* the direction its solver drives, and the mesh has the model's dimension.
SetUpFindsNoMistake == failure[1] # "configuration"

\* A scenario excites declared terminals, each at most once.
ExcitationsResolve ==
    Decoded => \A s \in Listed(config.Scenarios) :
        LET named(j) == s.Excitations[j].TerminalName
        IN  /\ \A j \in DOMAIN s.Excitations : named(j) \in DOMAIN config.Terminals
            /\ IsInjective([j \in DOMAIN s.Excitations |-> named(j)])

ClaimedBy(a) ==
    {i \in DOMAIN config.Regions : a \in Attributes(config.Regions[i].EntityGroupName)}

Coefficient(material) ==
    IF config.PhysicsType = "electrostatics" THEN material.RelPermittivity
    ELSE material.RelPermeability

MaterialEverywhere ==
    \A a \in mesh.attributes :
        \E i \in DOMAIN config.Regions :
            /\ ClaimedBy(a) = {i}
            /\ Coefficient(config.Materials[config.Regions[i].MaterialName]) > 0

\* With a regions section, every meshed attribute lies in exactly one region
\* and its coefficient is positive: the stiffness matrix covers the mesh
\* whatever order the regions are declared in.
OneMaterialPerElement ==
    Accepted /\ Has(document, "regions") => MaterialEverywhere

\* The pass without a mesh refuses nothing that the pass with the mesh would
\* have accepted, although it has to guess which groups are boundaries.
SchemaPassIsNecessary ==
    failure[1] = "checked" /\ Has(document, "regions") =>
        \A m \in Meshes : ~Accepts(Validate(NewValidator, document, m))

\* What the second pass reports does not depend on the first having used the
\* same object.
ReuseIsFresh ==
    reached \in {"accepted", "failed"} /\ mesh # NoMesh =>
        validator.errors = Validate(NewValidator, document, mesh).errors

OpenRegions == {i \in DOMAIN config.Regions : config.Regions[i].CurrentConstraint = "open"}

\* An open region is a conductor of its own: in a 2D MQS model, of a
\* conducting material, apart from every massive terminal and every other
\* open region, so that each port has its own current.
OpenRegionsFloat ==
    Accepted => \A i \in OpenRegions :
        LET region == config.Regions[i]
            own == Attributes(region.EntityGroupName)
        IN  /\ config.PhysicsType = "magnetoquasistatics" /\ ~ThreeD
            /\ config.Materials[region.MaterialName].Conductivity > 0
            /\ \A t \in TerminalsOf("massive") :
                    own \cap Attributes(t.EntityGroupName) = {}
            /\ \A j \in OpenRegions \ {i} :
                    own \cap Attributes(config.Regions[j].EntityGroupName) = {}

\* The points of a sweep between the ends: the last of several is the stop and
\* a single one is the start, exactly.  A linear sweep ascends from exactly its
\* start; a logarithmic one does so, within its range, but for the error of exp
\* and log, even where it starts.
SweepFromTo(sweep, points) ==
    LET start == Written(sweep.fields["start"])
        stop == Written(sweep.fields["stop"])
        n == Len(points)
        log == sweep.fields["scale"].text = "log"
        slack == IF log THEN LastPlace ELSE 0
    IN  /\ 100 * n = Written(sweep.fields["points"])
        /\ n = 1 \/ ~log => points[1].Frequency = start
        /\ n > 1 => points[n].Frequency = stop
        /\ \A p \in 1 .. n : points[p].Frequency \in start - slack .. stop + slack
        /\ \A p \in 1 .. n - 1 :
                points[p].Frequency <= points[p + 1].Frequency + 2 * slack

\* An MQS scenario runs at the frequency, at each of the list or along the
\* sweep its author wrote, and always at a positive one.
SweepsCoverTheirRange ==
    Decoded /\ config.PhysicsType = "magnetoquasistatics" =>
        /\ \A s \in Listed(config.Scenarios) : s.Frequency > 0
        /\ \A scenario \in Members(document, "scenarios") :
            LET frequency == scenario.fields["frequency"]
                points == PointsOf(Text(scenario, "name", ""))
            IN  CASE frequency.type = "object" -> SweepFromTo(frequency, points)
                  [] frequency.type = "array"  ->
                        SameNumbers(frequency, [p \in DOMAIN points |-> points[p].Frequency])
                  [] OTHER -> [p \in DOMAIN points |-> points[p].Frequency]
                                = <<Written(frequency)>>

\* The solver is of the model's kind, and a 3D magnetic run that asked for no
\* linear solver is given one the build has.
SolverFitsModel ==
    reached \in {"created", "ready"} =>
        /\ solver \in {"MagnetostaticSolver3D", "MagnetoquasistaticSolver3D"}
                <=> mesh.dim = 3 /\ config.PhysicsType # "electrostatics"
        /\ mesh.dim = 3 => config.GeometryType = "3d"
        /\ (solver # "ElectrostaticSolver" /\ mesh.dim = 3 /\ ~Parallel
             /\ ~Given(Sim(document), "linear_solver")) => config.LinearSolver = "direct"

\* A directory given on the command line is where the run writes, whatever
\* the document says of its output.
OutputGoesWhereAsked ==
    Decoded /\ override # "" => config.Output.Directory = <<override>>

\* What the parser makes of an accepted document is what its author wrote: the
\* values, the points of the sweeps and, on the command line, the directory.
AcceptedAsWritten ==
    CTypeOK /\ ValuesAreKept /\ SweepsCoverTheirRange /\ OutputGoesWhereAsked

\* A document that passes validation does not fail behind it for a mistake of
\* type, reference, quantity, direction or dimension: neither in the parser nor in
\* Setup.  What a solver does not support (robin in magnetics; boundary values or
\* refinement in 3D magnetics) is for Setup to refuse, as a model error.
ValidationSuffices == ParserReadsAccepted /\ SetUpFindsNoMistake

\* The sections of an accepted model fit each other and the mesh: every element
\* has one material, ports are apart, excitations name terminals, and the solver
\* is the model's.
AcceptedModelIsWhole ==
    OneMaterialPerElement /\ OpenRegionsFloat /\ ExcitationsResolve /\ SolverFitsModel

\* The two passes of one validator agree: the first refuses only what the second
\* would, and leaves nothing behind in it.
ValidatorIsConsistent == SchemaPassIsNecessary /\ ReuseIsFresh

-----------------------------------------------------------------------------
(* What the documentation says and the code does not do.                   *)

\* The comment on ValidateMassiveConductivity: every attribute of a massive
\* conductor must conduct.
MassiveConducts ==
    reached = "ready" => \A t \in TerminalsOf("massive") :
        config.PhysicsType # "electrostatics" =>
            \A a \in Attributes(t.EntityGroupName) : FieldConductivity(a) > 0

=============================================================================
