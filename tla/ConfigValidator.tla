-------------------------- MODULE ConfigValidator --------------------------
(***************************************************************************)
(* The configuration validator (src/src/config/config_validator.hpp): what *)
(* Validate(config, mesh) reports.  An error is the pair of the section    *)
(* and the field it is added at; indices and wording are left out.         *)
(* validator is the object main keeps for both of its passes: the errors   *)
(* of the last call and the entity group names by role.                    *)
(*                                                                         *)
(* JSON numbers are finite (the library refuses any other literal), so the *)
(* isfinite tests never decide.                                            *)
(***************************************************************************)
EXTENDS Json

CONSTANTS NamelessPaths,   \* paths whose last component names no file
          IllFormedNames   \* probe names with characters outside [A-Za-z0-9_-]

ASSUME NamesAssumption == NamelessPaths \cup IllFormedNames \subseteq STRING

NoMesh == [dim |-> 0, attributes |-> {}, boundary |-> {}]

ErrorIf(broken, section, field) == IF broken THEN {<<section, field>>} ELSE {}

Errors(sets) == UNION sets

-----------------------------------------------------------------------------
(* The types of the document's fields.                                     *)

SimulationTypes ==
    [physics_type |-> "string", geometry_type |-> "string",
     analysis_type |-> "string", linear_solver |-> "string",
     mesh |-> "string", order |-> "integer", solver_tolerance |-> "number",
     solver_max_iter |-> "integer", solver_print_level |-> "integer",
     amr |-> "object"]
AmrTypes ==
    [enabled |-> "boolean", max_iterations |-> "integer",
     max_dofs |-> "integer", error_fraction |-> "number",
     error_tolerance |-> "number", conforming |-> "boolean"]
GroupTypes == [name |-> "string", dim |-> "integer", attribute_ids |-> "array"]
RegionTypes ==
    [entity_group |-> "string", material |-> "string",
     current_constraint |-> "string"]
MaterialTypes == [name |-> "string", properties |-> "object"]
PropertyTypes == [sigma |-> "number", epsilon_r |-> "number", mu_r |-> "number"]
TerminalTypes ==
    [name |-> "string", quantity |-> "string", conductor_type |-> "string",
     entity_group |-> "string", direction |-> "object", turns |-> "number"]
BoundaryTypes ==
    [type |-> "string", entity_group |-> "string", value |-> "number",
     robin_coefficient |-> "number"]
ScenarioTypes == [name |-> "string", excitations |-> "array"]
SweepTypes ==
    [scale |-> "string", start |-> "number", stop |-> "number",
     points |-> "integer"]
ExcitationTypes == [terminal |-> "string", value |-> "number", phase |-> "number"]
OutputTypes ==
    [directory |-> "string", export_fields_for_coupling_matrix |-> "boolean"]

SupersededSimulation ==
    {"physics", "geometry", "type", "output_paraview", "output_gmsh",
     "output_hdf5", "gmsh_format", "results_path", "results_file",
     "results_filename", "output"}

CheckFieldTypes(object, section, types) ==
    {<<section, k>> : k \in {j \in DOMAIN types :
        Has(object, j) /\ ~HasType(object.fields[j], types[j])}}

Unsupported(object, section, keys) ==
    {<<section, k>> : k \in {j \in keys : Has(object, j)}}

CheckObjectArrayTypes(config, key, CheckItem(_)) ==
    IF ~Has(config, key) THEN {}
    ELSE IF config.fields[key].type # "array" THEN {<<key, "">>}
    ELSE Errors({IF item.type = "object" THEN CheckItem(item) ELSE {<<key, "[]">>} :
                    item \in Elements(config.fields[key])})

CheckPath(object, section, key, file) ==
    LET path == Text(object, key, "")
    IN  ErrorIf(/\ Has(object, key)
                /\ object.fields[key].type = "string"
                /\ \/ path = ""
                   \/ file /\ path \in NamelessPaths, section, key)

FormatKeys ==
    [paraview |-> {"directory"}, gmsh |-> {"directory", "version"},
     hdf5 |-> {"file"}]

ValidateFormat(target, format) ==
    LET section == "output." \o format
        path == IF format = "hdf5" THEN "file" ELSE "directory"
    IN  IF target.type # "object" THEN {<<section, "">>}
        ELSE Errors({
            {<<section, k>> : k \in DOMAIN target.fields \ FormatKeys[format]},
            CheckFieldTypes(target, section,
                            [k \in FormatKeys[format] |-> "string"]),
            CheckPath(target, section, path, format = "hdf5"),
            ErrorIf(/\ format = "gmsh" /\ Has(target, "version")
                    /\ target.fields["version"].type = "string"
                    /\ target.fields["version"].text \notin {"2.2", "4.1"},
                    section, "version")})

ValidateOutput(config) ==
    LET output == config.fields["output"]
    IN  IF ~Has(config, "output") THEN {}
        ELSE IF output.type # "object" THEN {<<"output", "">>}
        ELSE Errors({
            {<<"output", k>> : k \in DOMAIN output.fields \
                (DOMAIN OutputTypes \cup DOMAIN FormatKeys \cup {"probes"})},
            CheckFieldTypes(output, "output", OutputTypes),
            CheckPath(output, "output", "directory", FALSE),
            Errors({ValidateFormat(output.fields[f], f) :
                f \in DOMAIN output.fields \cap DOMAIN FormatKeys})})

GroupTypeErrors(group) ==
    LET ids == Field(group, "attribute_ids", Null)
    IN  CheckFieldTypes(group, "entity_groups", GroupTypes)
        \cup Unsupported(group, "entity_groups", {"kind"})
        \cup ErrorIf(\E id \in Elements(ids) : id.type # "integer",
                     "entity_groups", "attribute_ids")

ScenarioTypeErrors(scenario) ==
    LET frequency == Field(scenario, "frequency", Whole(1))
        excitations == Members(scenario, "excitations")
    IN  Errors({
            CheckFieldTypes(scenario, "scenarios", ScenarioTypes),
            CheckFieldTypes(frequency, "scenarios.frequency", SweepTypes),
            ErrorIf(\/ frequency.type \notin {"object", "array", "number", "integer"}
                    \/ \E f \in Elements(frequency) : ~HasType(f, "number"),
                    "scenarios", "frequency"),
            ErrorIf(\E e \in excitations : e.type # "object",
                    "scenarios.excitations", "[]"),
            Errors({CheckFieldTypes(e, "scenarios.excitations", ExcitationTypes) :
                e \in excitations})})

ValidateDocumentTypes(config) ==
    LET simulation == Field(config, "simulation", Obj(<<>>))
        amr == Field(simulation, "amr", Null)
    IN  IF config.type # "object" THEN {<<"config", "">>}
        ELSE Errors({
            ValidateOutput(config),
            ErrorIf(simulation.type # "object", "simulation", ""),
            CheckFieldTypes(simulation, "simulation", SimulationTypes),
            Unsupported(simulation, "simulation", SupersededSimulation),
            CheckFieldTypes(amr, "simulation.amr", AmrTypes),
            Unsupported(config, "boundaries", {"boundaries"}),
            CheckObjectArrayTypes(config, "entity_groups", GroupTypeErrors),
            CheckObjectArrayTypes(config, "regions",
                LAMBDA r : CheckFieldTypes(r, "regions", RegionTypes)),
            CheckObjectArrayTypes(config, "materials",
                LAMBDA m : CheckFieldTypes(m, "materials", MaterialTypes)
                    \cup CheckFieldTypes(Field(m, "properties", Null),
                                         "materials.properties", PropertyTypes)),
            CheckObjectArrayTypes(config, "terminals",
                LAMBDA t : CheckFieldTypes(t, "terminals", TerminalTypes)
                    \cup Unsupported(t, "terminals",
                                     {"excitation_type", "excitation"})),
            CheckObjectArrayTypes(config, "boundary_conditions",
                LAMBDA b : CheckFieldTypes(b, "boundary_conditions", BoundaryTypes)),
            CheckObjectArrayTypes(config, "scenarios", ScenarioTypeErrors)})

-----------------------------------------------------------------------------
(* The meaning of a document whose fields have their types.                *)

Simulation(config) == Field(config, "simulation", Obj(<<>>))
PhysicsType(config) == Text(Simulation(config), "physics_type", "")
GeometryType(config) == Text(Simulation(config), "geometry_type", "planar")
Magnetic(config) == PhysicsType(config) \in {"magnetostatics", "magnetoquasistatics"}
IsMqs(config) == PhysicsType(config) = "magnetoquasistatics"

Missing(object, section, keys) ==
    {<<section, k>> : k \in {j \in keys : ~Has(object, j)}}

NotOneOf(object, section, key, choices) ==
    ErrorIf(Has(object, key) /\ object.fields[key].text \notin choices,
            section, key)

\* Every item has a name, and its own.
NameErrors(items, section) ==
    LET name(i) == Text(items[i], "name", "")
    IN  ErrorIf(\/ \E i \in DOMAIN items : name(i) = ""
                \/ \E i, j \in DOMAIN items : i < j /\ name(i) = name(j),
                section, "name")

ValidateSimulation(config) ==
    LET sim == Simulation(config)
        amr == Field(sim, "amr", Null)
        tolerance == Number(sim, "solver_tolerance", 1)
        fraction == Number(amr, "error_fraction", 70)
    IN  IF ~Has(config, "simulation") THEN {<<"simulation", "">>}
        ELSE Errors({
            Missing(sim, "simulation", {"physics_type", "mesh"}),
            NotOneOf(sim, "simulation", "physics_type",
                {"electrostatics", "magnetostatics", "magnetoquasistatics"}),
            ErrorIf(IsMqs(config) /\ Has(sim, "frequency"),
                    "simulation", "frequency"),
            NotOneOf(sim, "simulation", "geometry_type",
                {"axisymmetric", "planar", "3d"}),
            NotOneOf(sim, "simulation", "linear_solver", {"direct", "iterative"}),
            NotOneOf(sim, "simulation", "analysis_type", {"field", "coupling_matrix"}),
            ErrorIf(Integer(sim, "order", 1) \notin 1 .. 10, "simulation", "order"),
            ErrorIf(tolerance <= 0 \/ tolerance >= 100,
                    "simulation", "solver_tolerance"),
            ErrorIf(Integer(sim, "solver_max_iter", 1) < 1,
                    "simulation", "solver_max_iter"),
            ErrorIf(Integer(amr, "max_iterations", 5) < 0,
                    "simulation.amr", "max_iterations"),
            ErrorIf(fraction <= 0 \/ fraction > 100,
                    "simulation.amr", "error_fraction"),
            ErrorIf(Number(amr, "error_tolerance", 0) < 0,
                    "simulation.amr", "error_tolerance")})

ValidateGeometryCompatibility(config, mesh) ==
    LET geometry == GeometryType(config)
        required == IF geometry = "3d" THEN 3 ELSE 2
    IN  IF geometry \notin {"axisymmetric", "planar", "3d"} THEN {}
        ELSE ErrorIf(mesh # NoMesh /\ mesh.dim # required,
                     "simulation", "geometry_type")
             \cup ErrorIf(/\ geometry = "3d"
                          /\ \E r \in Members(config, "regions") :
                                Has(r, "current_constraint"),
                          "regions", "current_constraint")

-----------------------------------------------------------------------------
(* Entity groups: name, dimension and attributes; the role is derived.     *)

GroupName(group) == Text(group, "name", "")

\* The dimension roles are measured against: the mesh's, or without a mesh
\* the highest one declared.
MeshDim(config, mesh) ==
    IF mesh # NoMesh THEN mesh.dim
    ELSE Max({0} \cup {Integer(g, "dim", 0) : g \in Members(config, "entity_groups")})

IsBoundaryGroup(config, mesh, group) ==
    Has(group, "dim") /\ Integer(group, "dim", 0) = MeshDim(config, mesh) - 1

Highest(attributes) == Max({0} \cup attributes)

GroupErrors(config, mesh, group) ==
    LET dim == Integer(group, "dim", 0)
        meshDim == MeshDim(config, mesh)
        last == Highest(IF IsBoundaryGroup(config, mesh, group)
                        THEN mesh.boundary ELSE mesh.attributes)
    IN  Errors({
            Missing(group, "entity_groups", {"dim", "attribute_ids"}),
            ErrorIf(/\ Has(group, "dim")
                    /\ \/ dim \notin 1 .. 3
                       \/ meshDim > 0 /\ dim \notin {meshDim - 1, meshDim},
                    "entity_groups", "dim"),
            ErrorIf(\E id \in IntegersOf(Field(group, "attribute_ids", Null)) :
                        id <= 0 \/ (mesh # NoMesh /\ id > last),
                    "entity_groups", "attribute_ids")})

NoNames == [names |-> {}, boundary |-> {}, domain |-> {}]

\* Faulty: the names of the previous call are kept.
Cleared_Kept(known) == known

Cleared(known) == NoNames

EntityGroupNames(known, config, mesh) ==
    LET named == {g \in Members(config, "entity_groups") : GroupName(g) # ""}
        boundary == {g \in named : IsBoundaryGroup(config, mesh, g)}
        start == Cleared(known)
        With(names, groups) == names \cup {GroupName(g) : g \in groups}
    IN  [names    |-> With(start.names, named),
         boundary |-> With(start.boundary, boundary),
         domain   |-> With(start.domain, named \ boundary)]

ValidateEntityGroups(known, config, mesh) ==
    NameErrors(Section(config, "entity_groups"), "entity_groups")
    \cup Errors({GroupErrors(config, mesh, g) : g \in Members(config, "entity_groups")})
    \cup ErrorIf(\E g \in Members(config, "entity_groups") :
                    GroupName(g) \in Cleared(known).names, "entity_groups", "name")

\* Faulty: any declared group will do, whatever the role it is used in.
RefersTo_AnyRole(node, names, role) ==
    node.type = "string" /\ node.text \in names.names

RefersTo(node, names, role) ==
    /\ node.type = "string"
    /\ node.text \in names.names
    /\ role = "boundary" => node.text \in names.boundary
    /\ role = "domain" => node.text \in names.domain

\* A required reference to a declared group of the role the field needs.
CheckEntityGroupRef(node, names, role, section, key) ==
    ErrorIf(~Has(node, key) \/ ~RefersTo(node.fields[key], names, role),
            section, key)

\* The attributes of the first group of that name.
GroupAttributes(config, name) ==
    LET groups == Section(config, "entity_groups")
    IN  IF \A i \in DOMAIN groups : GroupName(groups[i]) # name THEN {}
        ELSE IntegersOf(Field(groups[FirstNamed(groups, name)], "attribute_ids", Null))

AttributesOf(config, node) ==
    IF Has(node, "entity_group")
    THEN GroupAttributes(config, node.fields["entity_group"].text) ELSE {}

-----------------------------------------------------------------------------
(* Probes: nothing in them is typed by the first pass.                     *)

IsPoint(value, dim) ==
    /\ value.type = "array"
    /\ Len(Items(value)) = dim
    /\ \A x \in Elements(value) : HasType(x, "number")

ProbeName(probe) ==
    LET name == Field(probe, "name", Null)
    IN  IF name.type = "string" THEN name.text ELSE ""

LineErrors(line, dim) ==
    LET count == Field(line, "count", Null)
    IN  IF line.type # "object" THEN {<<"output.probes", "line">>}
        ELSE {<<"output.probes.line", k>> :
                k \in (DOMAIN line.fields \ {"from", "to", "count"})
                    \cup {e \in {"from", "to"} : ~IsPoint(Field(line, e, Null), dim)}}
            \cup ErrorIf(count.type # "integer" \/ (count.type = "integer" /\ AsInt(count) < 2),
                         "output.probes.line", "count")

PointErrors(probe, dim) ==
    LET points == Members(probe, "points")
    IN  IF Has(probe, "points") = Has(probe, "line")
        THEN {<<"output.probes", "[]">>}
        ELSE IF Has(probe, "line") THEN LineErrors(probe.fields["line"], dim)
        ELSE ErrorIf(points = {} \/ \E p \in points : ~IsPoint(p, dim),
                     "output.probes", "points")

ProbeErrors(probe, names, dim) ==
    IF probe.type # "object" THEN {<<"output.probes", "[]">>}
    ELSE Errors({
        {<<"output.probes", k>> : k \in DOMAIN probe.fields
            \ {"name", "points", "line", "entity_group"}},
        ErrorIf(ProbeName(probe) \in {""} \cup IllFormedNames, "output.probes", "name"),
        PointErrors(probe, dim),
        IF Has(probe, "entity_group")
        THEN CheckEntityGroupRef(probe, names, "domain", "output.probes", "entity_group")
        ELSE {}})

ValidateProbes(config, mesh, names) ==
    LET output == Field(config, "output", Null)
        probes == Items(Field(output, "probes", Null))
        dim == IF mesh # NoMesh THEN mesh.dim
               ELSE IF GeometryType(config) = "3d" THEN 3 ELSE 2
    IN  IF ~Has(output, "probes") THEN {}
        ELSE Errors({
            ErrorIf(output.fields["probes"].type # "array", "output", "probes"),
            ErrorIf(\E i, j \in DOMAIN probes :
                        /\ i < j
                        /\ ProbeName(probes[i]) = ProbeName(probes[j])
                        /\ ProbeName(probes[i]) # "", "output.probes", "name"),
            Errors({ProbeErrors(probes[i], names, dim) : i \in DOMAIN probes})})

-----------------------------------------------------------------------------
(* Materials, regions and the coverage of the mesh.                        *)

MaterialErrors(config, material) ==
    LET coefficient == IF PhysicsType(config) = "electrostatics"
                       THEN "epsilon_r" ELSE "mu_r"
        properties == Field(material, "properties", Null)
    IN  IF ~Has(material, "properties") THEN {<<"materials", "properties">>}
        ELSE ErrorIf(/\ Magnetic(config) \/ PhysicsType(config) = "electrostatics"
                     /\ Number(properties, coefficient, 0) <= 0,
                     "materials.properties", coefficient)
            \cup ErrorIf(Number(properties, "sigma", 0) < 0,
                         "materials.properties", "sigma")

ValidateMaterials(config) ==
    NameErrors(Section(config, "materials"), "materials")
    \cup Errors({MaterialErrors(config, m) : m \in Members(config, "materials")})

MaterialNames(config) ==
    {Text(m, "name", "") : m \in Members(config, "materials")} \ {""}

\* The conductivity of the first material of that name, if it states any.
Conductivities(config, name) ==
    LET materials == Section(config, "materials")
        first == materials[FirstNamed(materials, name)]
    IN  IF \A i \in DOMAIN materials : Text(materials[i], "name", "") # name THEN {}
        ELSE IF ~Has(first, "properties") THEN {}
        ELSE {Number(first.fields["properties"], "sigma", 0)}

MassiveTerminalAttributes(config) ==
    UNION {AttributesOf(config, t) : t \in {u \in Members(config, "terminals") :
        Text(u, "conductor_type", "massive") = "massive"}}

IsOpen(region) == Text(region, "current_constraint", "none") = "open"

\* Faulty: an open region may overlap one declared before it.
OpenRegionErrors_Alone(config, regions, i) ==
    LET material == Text(regions[i], "material", "")
    IN  ErrorIf(\/ ~IsMqs(config)
                \/ \E sigma \in Conductivities(config, material) : sigma <= 0,
                "regions", "current_constraint")

OpenRegionErrors(config, regions, i) ==
    LET material == Text(regions[i], "material", "")
        constrained == MassiveTerminalAttributes(config)
            \cup UNION {AttributesOf(config, regions[j]) :
                            j \in {k \in 1 .. i - 1 : IsOpen(regions[k])}}
    IN  ErrorIf(\/ ~IsMqs(config)
                \/ \E sigma \in Conductivities(config, material) : sigma <= 0
                \/ AttributesOf(config, regions[i]) \cap constrained # {},
                "regions", "current_constraint")

\* The attributes claimed by the regions before the i-th.
Claimed(config, regions, i) ==
    UNION {AttributesOf(config, regions[j]) : j \in 1 .. i - 1}

RegionErrors(config, names, regions, i) ==
    LET region == regions[i]
    IN  Errors({
            CheckEntityGroupRef(region, names, "domain", "regions", "entity_group"),
            ErrorIf(Text(region, "material", "") \notin MaterialNames(config),
                    "regions", "material"),
            ErrorIf(AttributesOf(config, region) \cap Claimed(config, regions, i) # {},
                    "regions", "entity_group"),
            NotOneOf(region, "regions", "current_constraint", {"none", "open"}),
            IF IsOpen(region) THEN OpenRegionErrors(config, regions, i) ELSE {}})

ValidateDomainCoverage(config, mesh) ==
    ErrorIf(/\ mesh # NoMesh
            /\ ~(mesh.attributes \subseteq
                    UNION {AttributesOf(config, r) : r \in Members(config, "regions")}),
            "regions", "")

\* Without a regions section the coverage is not looked at either.
ValidateRegions(config, mesh, names) ==
    LET regions == Section(config, "regions")
    IN  IF ~Has(config, "regions") THEN {}
        ELSE Errors({RegionErrors(config, names, regions, i) : i \in DOMAIN regions})
            \cup ValidateDomainCoverage(config, mesh)
-----------------------------------------------------------------------------
(* Boundary conditions, terminals and scenarios.                           *)

BoundaryErrors(bc, names) ==
    LET type == Text(bc, "type", "")
    IN  Errors({
            Missing(bc, "boundary_conditions", {"type", "value"}),
            NotOneOf(bc, "boundary_conditions", "type",
                     {"dirichlet", "neumann", "robin"}),
            ErrorIf(/\ Has(bc, "type")
                    /\ (type = "robin") # Has(bc, "robin_coefficient"),
                    "boundary_conditions", "robin_coefficient"),
            CheckEntityGroupRef(bc, names, "boundary",
                                "boundary_conditions", "entity_group")})

ValidateBoundaries(config, names) ==
    Errors({BoundaryErrors(bc, names) : bc \in Members(config, "boundary_conditions")})

DirectionKeys ==
    [azimuthal |-> {"type", "origin", "axis"},
     electrodes |-> {"type", "input", "output"},
     cut |-> {"type", "cut", "normal"}]

IsZero(vector) == \A x \in Elements(vector) : AsNumber(x) = 0

DirectionErrors(direction, names) ==
    LET kind == Field(direction, "type", Null)
        section == "terminals.direction"
        Nonzero(key) ==
            LET v == Field(direction, key, Null)
            IN  ErrorIf(~IsPoint(v, 3) \/ IsZero(v), section, key)
        Wall(key) == CheckEntityGroupRef(direction, names, "boundary", section, key)
    IN  IF kind \notin {Str(k) : k \in DOMAIN DirectionKeys}
        THEN {<<section, "type">>}
        ELSE {<<section, k>> :
                k \in DOMAIN direction.fields \ DirectionKeys[kind.text]}
            \cup CASE kind.text = "azimuthal" ->
                        Nonzero("axis")
                        \cup ErrorIf(/\ Has(direction, "origin")
                                     /\ ~IsPoint(direction.fields["origin"], 3),
                                     section, "origin")
                   [] kind.text = "electrodes" -> Wall("input") \cup Wall("output")
                   [] kind.text = "cut" -> Wall("cut") \cup Nonzero("normal")

\* Only a current terminal of a 3D magnetic model has a direction, and has one.
WantsDirection(config, terminal) ==
    /\ GeometryType(config) = "3d"
    /\ Magnetic(config)
    /\ Text(terminal, "quantity", "voltage") = "current"

ValidateCurrentDirection(config, terminal, names) ==
    IF WantsDirection(config, terminal) # Has(terminal, "direction")
    THEN {<<"terminals", "direction">>}
    ELSE IF Has(terminal, "direction")
    THEN DirectionErrors(terminal.fields["direction"], names)
    ELSE {}

TerminalErrors(config, terminal, names) ==
    LET quantity == Text(terminal, "quantity", "voltage")
        conductor == Text(terminal, "conductor_type", "massive")
        turns == Number(terminal, "turns", 100)
    IN  Errors({
            Missing(terminal, "terminals", {"quantity"}),
            ErrorIf(\/ quantity \notin {"voltage", "current"}
                    \/ PhysicsType(config) = "electrostatics" /\ quantity # "voltage"
                    \/ Magnetic(config) /\ quantity # "current",
                    "terminals", "quantity"),
            ErrorIf(conductor \notin {"massive", "stranded"},
                    "terminals", "conductor_type"),
            ValidateCurrentDirection(config, terminal, names),
            ErrorIf(\/ turns <= 0
                    \/ turns # 100 /\ ~(Magnetic(config) /\ conductor = "stranded"),
                    "terminals", "turns"),
            CheckEntityGroupRef(terminal, names,
                IF quantity = "current" THEN "domain" ELSE "boundary",
                "terminals", "entity_group")})

ValidateTerminals(config, names) ==
    LET terminals == Section(config, "terminals")
    IN  IF Magnetic(config) /\ terminals = <<>> THEN {<<"terminals", "">>}
        ELSE NameErrors(terminals, "terminals")
            \cup Errors({TerminalErrors(config, terminals[i], names) :
                            i \in DOMAIN terminals})

SweepErrors(sweep) ==
    LET start == Number(sweep, "start", 1)
        stop == Number(sweep, "stop", 1)
    IN  IF \E k \in DOMAIN SweepTypes : ~Has(sweep, k)
        THEN {<<"scenarios", "frequency">>}
        ELSE Errors({
            NotOneOf(sweep, "scenarios.frequency", "scale", {"linear", "log"}),
            ErrorIf(start <= 0, "scenarios.frequency", "start"),
            ErrorIf(stop <= 0 \/ stop < start, "scenarios.frequency", "stop"),
            ErrorIf(Integer(sweep, "points", 1) < 1, "scenarios.frequency", "points")})

FrequencyErrors(scenario) ==
    LET frequency == Field(scenario, "frequency", Null)
    IN  CASE frequency.type = "object" -> SweepErrors(frequency)
          [] frequency.type = "array"  ->
                ErrorIf(\/ Elements(frequency) = {}
                        \/ \E f \in Elements(frequency) : AsNumber(f) <= 0,
                        "scenarios", "frequency")
          [] frequency.type = "null"   -> {<<"scenarios", "frequency">>}
          [] OTHER -> ErrorIf(AsNumber(frequency) <= 0, "scenarios", "frequency")

TerminalNames(config) ==
    {Text(t, "name", "") : t \in Members(config, "terminals")} \ {""}

ExcitationErrors(config, excitations, j) ==
    LET terminal == Text(excitations[j], "terminal", "")
    IN  IF ~Has(excitations[j], "terminal")
        THEN {<<"scenarios.excitations", "terminal">>}
        ELSE Errors({
            Missing(excitations[j], "scenarios.excitations", {"value"}),
            ErrorIf(\/ terminal \notin TerminalNames(config)
                    \/ \E k \in 1 .. j - 1 :
                            /\ Has(excitations[k], "terminal")
                            /\ Text(excitations[k], "terminal", "") = terminal,
                    "scenarios.excitations", "terminal"),
            ErrorIf(~IsMqs(config) /\ Number(excitations[j], "phase", 0) # 0,
                    "scenarios.excitations", "phase")})

ScenarioErrors(config, scenario) ==
    LET excitations == Section(scenario, "excitations")
    IN  (IF IsMqs(config) THEN FrequencyErrors(scenario) ELSE {})
        \cup Errors({ExcitationErrors(config, excitations, j) :
                        j \in DOMAIN excitations})

ValidateScenarios(config) ==
    LET scenarios == Section(config, "scenarios")
    IN  ErrorIf(IsMqs(config) /\ scenarios = <<>>, "scenarios", "")
        \cup NameErrors(scenarios, "scenarios")
        \cup Errors({ScenarioErrors(config, scenarios[i]) : i \in DOMAIN scenarios})

-----------------------------------------------------------------------------
(* Validate, on an object that may have validated before.                  *)

NewValidator == [errors |-> {}, known |-> NoNames]

SemanticErrors(known, config, mesh) ==
    LET names == EntityGroupNames(known, config, mesh)
    IN  Errors({
            ValidateSimulation(config),
            ValidateGeometryCompatibility(config, mesh),
            ValidateEntityGroups(known, config, mesh),
            ValidateProbes(config, mesh, names),
            ValidateMaterials(config),
            ValidateRegions(config, mesh, names),
            ValidateBoundaries(config, names),
            ValidateTerminals(config, names),
            ValidateScenarios(config)})

Validate(validator, config, mesh) ==
    LET types == ValidateDocumentTypes(config)
    IN  IF types # {} THEN [validator EXCEPT !.errors = types]
        ELSE [errors |-> SemanticErrors(validator.known, config, mesh),
              known  |-> EntityGroupNames(validator.known, config, mesh)]

Accepts(validator) == validator.errors = {}
=============================================================================
