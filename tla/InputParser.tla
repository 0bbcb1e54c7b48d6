---------------------------- MODULE InputParser ----------------------------
(***************************************************************************)
(* The configuration parser (src/src/config/input_parser.hpp): the         *)
(* ProblemConfig GetProblemConfig builds from a document, and the reads    *)
(* that make it throw instead.  Decimals stay in hundredths, paths are     *)
(* sequences of components, and the name of a sweep point is the pair of   *)
(* the scenario's name and the point (0 outside a sweep).  The points of a *)
(* logarithmic sweep carry the rounding of exp and log.                    *)
(***************************************************************************)
EXTENDS Json, TLC

CONSTANTS Parallel,        \* parallel::Enabled() of the build
          AbsolutePaths,   \* the paths of the documents that are absolute
          ExpLogErrors     \* of the points of logarithmic sweeps that have one, by
                           \* <<start, stop, points, i>>

ASSUME ParallelAssumption == Parallel \in BOOLEAN

\* What exp and log of the C library may be off by, together.
LastPlace == 1

ASSUME ErrorsAssumption ==
    \A q \in DOMAIN ExpLogErrors : ExpLogErrors[q] \in -LastPlace .. LastPlace

DefaultTolerance == 1
DefaultMaxIter == 1000
DefaultPrintLevel == 1

Sim(config) ==
    LET sim == Field(config, "simulation", Null)
    IN  IF sim.type = "object" THEN sim ELSE Obj(<<>>)

\* The field, where null counts as absent.
Given(object, key) == Has(object, key) /\ object.fields[key] # Null

GetText(object, key, fallback) ==
    IF Given(object, key) THEN object.fields[key].text ELSE fallback
GetInt(object, key, fallback) ==
    IF Given(object, key) THEN AsInt(object.fields[key]) ELSE fallback
GetNumber(object, key, fallback) ==
    IF Given(object, key) THEN AsNumber(object.fields[key]) ELSE fallback
GetLong(object, key, fallback) ==
    IF Given(object, key) THEN AsNumber(object.fields[key]) \div 100 ELSE fallback
GetBool(object, key, fallback) ==
    IF Given(object, key) THEN object.fields[key].truth ELSE fallback

\* Text outside the table falls back.
ParseEnum(object, key, fallback, table) ==
    LET text == GetText(object, key, fallback)
    IN  IF text \in table THEN text ELSE fallback

PhysicsTypes == {"electrostatics", "magnetostatics", "magnetoquasistatics"}

GetPhysicsType(config) == ParseEnum(Sim(config), "physics_type", "electrostatics", PhysicsTypes)
GetGeometryType(config) ==
    ParseEnum(Sim(config), "geometry_type", "planar", {"axisymmetric", "planar", "3d"})

GetLinearSolver(config) ==
    LET magnetic == GetPhysicsType(config) # "electrostatics"
        available == ~magnetic \/ Parallel
        fallback == IF GetGeometryType(config) = "3d" /\ available
                    THEN "iterative" ELSE "direct"
    IN  ParseEnum(Sim(config), "linear_solver", fallback, {"iterative", "direct"})

GetAmrSettings(config) ==
    LET amr == Field(Sim(config), "amr", Null)
    IN  [Enabled        |-> GetBool(amr, "enabled", FALSE),
         MaxIterations  |-> GetInt(amr, "max_iterations", 5),
         MaxDofs        |-> GetLong(amr, "max_dofs", 2000000),
         ErrorFraction  |-> GetNumber(amr, "error_fraction", 70),
         ErrorTolerance |-> GetNumber(amr, "error_tolerance", 0),
         Conforming     |-> GetBool(amr, "conforming", TRUE)]

Resolve(parent, path) ==
    IF path \in AbsolutePaths THEN <<path>> ELSE Append(parent, path)

GetMeshPath(config) ==
    LET mesh == GetText(Sim(config), "mesh", "")
    IN  IF mesh = "" THEN <<"default.msh">> ELSE Resolve(<<"config">>, mesh)

Numbers(value) == [i \in DOMAIN Items(value) |-> AsNumber(Items(value)[i])]

GetProbe(probe) ==
    LET line == Field(probe, "line", Null)
        from == Numbers(Field(line, "from", Null))
        to == Numbers(Field(line, "to", Null))
        count == Integer(line, "count", 0)
        points == Items(Field(probe, "points", Null))
    IN  [Name   |-> Text(probe, "name", ""),
         Group  |-> GetText(probe, "entity_group", ""),
         Points |-> IF Has(probe, "points")
                    THEN [i \in DOMAIN points |-> Numbers(points[i])]
                    ELSE [i \in 1 .. count |->
                            [c \in DOMAIN from |->
                                from[c] + ((i - 1) * (to[c] - from[c])) \div (count - 1)]]]

GetOutputSettings(config) ==
    LET settings == Field(config, "output", Obj(<<>>))
        directory == Resolve(<<"config">>, GetText(settings, "directory", "results"))
        Target(format, key, name) ==
            IF Has(settings, format)
            THEN Resolve(directory, GetText(settings.fields[format], key, name))
            ELSE <<>>
    IN  [Directory |-> directory,
         Export    |-> GetBool(settings, "export_fields_for_coupling_matrix", FALSE),
         Paraview  |-> Target("paraview", "directory", "paraview"),
         Gmsh      |-> Target("gmsh", "directory", "gmsh"),
         Version   |-> GetText(Field(settings, "gmsh", Null), "version", "2.2"),
         Hdf5      |-> Target("hdf5", "file", "results.h5"),
         ProbeDirectory |-> Append(directory, "probes"),
         Probes    |-> [i \in DOMAIN Section(settings, "probes") |->
                            GetProbe(Section(settings, "probes")[i])]]

-----------------------------------------------------------------------------
(* Named entries: emplace keeps the first of a name.                       *)

ByName(items, Value(_)) ==
    LET name(i) == Text(items[i], "name", "")
    IN  [n \in {name(i) : i \in DOMAIN items} |->
            Value(items[FirstNamed(items, n)])]

GetEntityGroups(config) ==
    ByName(Section(config, "entity_groups"), LAMBDA g :
        [Dim |-> Integer(g, "dim", 0),
         AttributeIds |-> IntegersOf(Field(g, "attribute_ids", Null))])

GetMaterials(config) ==
    ByName(Section(config, "materials"), LAMBDA m :
        LET properties == Field(m, "properties", Null)
        IN  [Conductivity    |-> Number(properties, "sigma", 0),
             RelPermittivity |-> Number(properties, "epsilon_r", 100),
             RelPermeability |-> Number(properties, "mu_r", 100)])

NoDirection == [Type |-> "none"]

Read3(direction, key, default) ==
    LET value == Field(direction, key, Null)
    IN  IF Len(Items(value)) = 3 THEN Numbers(value) ELSE default

GetCurrentDirection(direction) ==
    [Type   |-> ParseEnum(direction, "type", "azimuthal",
                          {"azimuthal", "electrodes", "cut"}),
     Input  |-> GetText(direction, "input", ""),
     Output |-> GetText(direction, "output", ""),
     Cut    |-> GetText(direction, "cut", ""),
     Origin |-> Read3(direction, "origin", <<0, 0, 0>>),
     Axis   |-> Read3(direction, "axis", <<0, 0, 100>>),
     Normal |-> Read3(direction, "normal", <<0, 0, 0>>)]

GetTerminals(config) ==
    ByName(Section(config, "terminals"), LAMBDA t :
        [DriveQuantity   |-> ParseEnum(t, "quantity", "voltage", {"voltage", "current"}),
         Conductor       |-> ParseEnum(t, "conductor_type", "massive",
                                       {"massive", "stranded"}),
         EntityGroupName |-> GetText(t, "entity_group", ""),
         Turns           |-> Number(t, "turns", 100),
         Direction       |-> IF Has(t, "direction")
                             THEN GetCurrentDirection(t.fields["direction"])
                             ELSE NoDirection])

-----------------------------------------------------------------------------
(* Listed entries.                                                         *)

GetRegions(config) ==
    LET regions == Section(config, "regions")
    IN  [i \in DOMAIN regions |->
            [EntityGroupName   |-> GetText(regions[i], "entity_group", ""),
             MaterialName      |-> GetText(regions[i], "material", ""),
             CurrentConstraint |-> ParseEnum(regions[i], "current_constraint",
                                             "none", {"none", "open"})]]

\* Entries without a type, a value or a group are left out.
GetBoundaries(config) ==
    LET listed == Section(config, "boundary_conditions")
        complete == {i \in DOMAIN listed :
                        \A k \in {"type", "value", "entity_group"} : Has(listed[i], k)}
        kept == InOrder(complete, Len(listed))
    IN  [i \in DOMAIN kept |->
            LET bc == listed[kept[i]]
            IN  [Type            |-> Text(bc, "type", ""),
                 EntityGroupName |-> Text(bc, "entity_group", ""),
                 Value           |-> Number(bc, "value", 0),
                 RobinCoeff      |-> Number(bc, "robin_coefficient", 100)]]

ParseScenarioExcitations(scenario) ==
    LET excitations == Section(scenario, "excitations")
    IN  [j \in DOMAIN excitations |->
            [TerminalName |-> Text(excitations[j], "terminal", ""),
             Value        |-> Number(excitations[j], "value", 0),
             Phase        |-> Number(excitations[j], "phase", 0)]]

\* a to the n.
Power(a, n) == LET power[k \in Nat] == IF k = 0 THEN 1 ELSE a * power[k - 1] IN power[n]

\* The geometric spacing of start .. stop at i of m, rounded down.
LogSpaced(start, stop, m, i) ==
    Max({f \in start .. stop : Power(f, m) <= Power(start, m - i) * Power(stop, i)})

\* exp of the interpolated logarithms: near the spacing, and positive.
ExpLog(start, stop, points, i) ==
    LET point == <<start, stop, points, i>>
        error == IF point \in DOMAIN ExpLogErrors THEN ExpLogErrors[point] ELSE 0
    IN  Max({1, LogSpaced(start, stop, points - 1, i) + error})

\* Faulty: the last point is spaced like the others.
SweepFrequency_NoLast(scale, start, stop, points, i) ==
    IF points = 1 THEN start
    ELSE IF scale = "log" THEN ExpLog(start, stop, points, i)
    ELSE start + (i * (stop - start)) \div (points - 1)

\* The frequency of point i (from 0) of a sweep.
SweepFrequency(scale, start, stop, points, i) ==
    IF points = 1 THEN start
    ELSE IF i = points - 1 THEN stop
    ELSE IF scale = "log" THEN ExpLog(start, stop, points, i)
    ELSE start + (i * (stop - start)) \div (points - 1)

Frequencies(frequency) ==
    CASE frequency.type = "object" ->
            LET points == Integer(frequency, "points", 0)
            IN  [p \in 1 .. points |->
                    SweepFrequency(Text(frequency, "scale", ""),
                                   Number(frequency, "start", 0),
                                   Number(frequency, "stop", 0), points, p - 1)]
      [] frequency.type = "array"  -> Numbers(frequency)
      [] OTHER                     -> <<AsNumber(frequency)>>

ExpandScenario(config, scenario) ==
    LET name == Text(scenario, "name", "")
        frequency == Field(scenario, "frequency", Null)
        Point(p, f) == [Name |-> <<name, p>>, Frequency |-> f,
                        Excitations |-> ParseScenarioExcitations(scenario)]
        hz == Frequencies(frequency)
    IN  IF GetPhysicsType(config) # "magnetoquasistatics" \/ ~Has(scenario, "frequency")
        THEN <<Point("0", 0)>>
        ELSE IF HasType(frequency, "number") THEN <<Point("0", hz[1])>>
        ELSE [p \in DOMAIN hz |-> Point(ToString(p), hz[p])]

GetScenarios(config) ==
    LET scenarios == Section(config, "scenarios")
        expanded[n \in 0 .. Len(scenarios)] ==
            IF n = 0 THEN <<>>
            ELSE expanded[n - 1] \o ExpandScenario(config, scenarios[n])
    IN  expanded[Len(scenarios)]

GetProblemConfig(config) ==
    LET sim == Sim(config)
    IN  [Order             |-> GetInt(sim, "order", 1),
         PhysicsType       |-> GetPhysicsType(config),
         GeometryType      |-> GetGeometryType(config),
         AnalysisType      |-> ParseEnum(sim, "analysis_type", "field",
                                         {"field", "coupling_matrix"}),
         MeshPath          |-> GetMeshPath(config),
         Output            |-> GetOutputSettings(config),
         EntityGroups      |-> GetEntityGroups(config),
         Regions           |-> GetRegions(config),
         Materials         |-> GetMaterials(config),
         Terminals         |-> GetTerminals(config),
         BoundaryConditions |-> GetBoundaries(config),
         Scenarios         |-> GetScenarios(config),
         SolverTolerance   |-> GetNumber(sim, "solver_tolerance", DefaultTolerance),
         SolverMaxIter     |-> GetInt(sim, "solver_max_iter", DefaultMaxIter),
         SolverPrintLevel  |-> GetInt(sim, "solver_print_level", DefaultPrintLevel),
         LinearSolver      |-> GetLinearSolver(config),
         Amr               |-> GetAmrSettings(config)]

-----------------------------------------------------------------------------
(* The reads that throw.                                                   *)

\* get<T>() throws on a value of another type; a bool converts to an int.
Converts(value, type) ==
    \/ HasType(value, IF type = "integer" THEN "number" ELSE type)
    \/ type = "integer" /\ value.type = "boolean"

Unreadable(object, types) ==
    \E k \in DOMAIN types :
        Has(object, k) /\ ~Converts(object.fields[k], types[k])

\* A lookup with a fallback forgives null as well.
UnreadableUnlessNull(object, types) ==
    \E k \in DOMAIN types :
        Given(object, k) /\ ~Converts(object.fields[k], types[k])

\* The documents of a section's items, whatever the section is.
AnyItem(config, key, Bad(_)) == \E item \in Members(config, key) : Bad(item)

GroupThrows(group) ==
    \/ Unreadable(group, [name |-> "string"])
    \/ Has(group, "kind")
    \/ ~Has(group, "dim")
    \/ group.fields["dim"].type # "integer"
    \/ AsInt(group.fields["dim"]) \notin 1 .. 3
    \/ \E id \in Members(group, "attribute_ids") : ~Converts(id, "integer")

TerminalThrows(terminal) ==
    \/ ~Given(terminal, "quantity")
    \/ UnreadableUnlessNull(terminal, [name |-> "string", quantity |-> "string",
            conductor_type |-> "string", entity_group |-> "string"])
    \/ Unreadable(terminal, [turns |-> "number"])
    \/ UnreadableUnlessNull(Field(terminal, "direction", Null),
            [type |-> "string", input |-> "string", output |-> "string",
             cut |-> "string"])
    \/ \E k \in {"origin", "axis", "normal"} :
            \E x \in Members(Field(terminal, "direction", Null), k) : ~Converts(x, "number")

BoundaryThrows(bc) ==
    /\ \A k \in {"type", "value", "entity_group"} : Has(bc, k)
    /\ \/ Unreadable(bc, [type |-> "string", entity_group |-> "string",
                          value |-> "number", robin_coefficient |-> "number"])
       \/ bc.fields["type"].text \notin {"dirichlet", "neumann", "robin"}

ScenarioThrows(config, scenario) ==
    LET frequency == Field(scenario, "frequency", Whole(1))
        sweep == {"scale", "start", "stop", "points"}
    IN  \/ Unreadable(scenario, [name |-> "string"])
        \/ \E e \in Members(scenario, "excitations") :
                Unreadable(e, [terminal |-> "string", value |-> "number",
                               phase |-> "number"])
        \/ /\ GetPhysicsType(config) = "magnetoquasistatics"
           /\ ~HasType(frequency, "number")
           /\ \/ \E f \in Elements(frequency) : ~Converts(f, "number")
              \/ /\ frequency.type # "array"
                 /\ \/ \E k \in sweep : ~Has(frequency, k)
                    \/ Unreadable(frequency, [scale |-> "string", start |-> "number",
                                              stop |-> "number", points |-> "integer"])

ProbeThrows(probe) ==
    LET line == Field(probe, "line", Null)
        IsVector(v) == v.type = "array" /\ \A x \in Elements(v) : Converts(x, "number")
    IN  \/ ~Has(probe, "name")
        \/ UnreadableUnlessNull(probe, [entity_group |-> "string"])
        \/ Unreadable(probe, [name |-> "string"])
        \/ IF Has(probe, "points")
           THEN \E p \in Members(probe, "points") : ~IsVector(p)
           ELSE \/ \E k \in {"from", "to"} : ~IsVector(Field(line, k, Null))
                \/ ~Has(line, "count")
                \/ Unreadable(line, [count |-> "integer"])

OutputThrows(config) ==
    LET output == Field(config, "output", Obj(<<>>))
    IN  \/ output.type # "object"
        \/ UnreadableUnlessNull(output, [directory |-> "string",
                export_fields_for_coupling_matrix |-> "boolean"])
        \/ \E f \in {"paraview", "gmsh", "hdf5"} :
                /\ Has(output, f)
                /\ \/ output.fields[f].type # "object"
                   \/ UnreadableUnlessNull(output.fields[f], [directory |-> "string",
                            version |-> "string", file |-> "string"])
        \/ \E p \in Members(output, "probes") : ProbeThrows(p)

SimulationThrows(config) ==
    \/ UnreadableUnlessNull(Sim(config),
        [physics_type |-> "string", geometry_type |-> "string",
         analysis_type |-> "string", linear_solver |-> "string",
         mesh |-> "string", order |-> "integer", solver_tolerance |-> "number",
         solver_max_iter |-> "integer", solver_print_level |-> "integer"])
    \/ UnreadableUnlessNull(Field(Sim(config), "amr", Null),
        [enabled |-> "boolean", max_iterations |-> "integer",
         max_dofs |-> "integer", error_fraction |-> "number",
         error_tolerance |-> "number", conforming |-> "boolean"])

MaterialThrows(material) ==
    \/ UnreadableUnlessNull(material, [name |-> "string"])
    \/ Unreadable(Field(material, "properties", Null),
                  [sigma |-> "number", epsilon_r |-> "number", mu_r |-> "number"])

RegionThrows(region) ==
    UnreadableUnlessNull(region, [entity_group |-> "string", material |-> "string",
                                  current_constraint |-> "string"])

\* The parts of the document GetProblemConfig throws on.
Throws(config) ==
    {part \in {"simulation", "output", "entity_groups", "regions", "materials",
               "terminals", "boundary_conditions", "scenarios"} :
        CASE part = "simulation" -> SimulationThrows(config)
          [] part = "output" -> OutputThrows(config)
          [] part = "entity_groups" -> AnyItem(config, part, GroupThrows)
          [] part = "regions" -> AnyItem(config, part, RegionThrows)
          [] part = "materials" -> AnyItem(config, part, MaterialThrows)
          [] part = "terminals" -> AnyItem(config, part, TerminalThrows)
          [] part = "boundary_conditions" -> AnyItem(config, part, BoundaryThrows)
          [] OTHER -> AnyItem(config, part, LAMBDA s : ScenarioThrows(config, s))}
=============================================================================
