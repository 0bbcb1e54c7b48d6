-------------------------- MODULE MCConfigPipeline --------------------------
(***************************************************************************)
(* One document per kind of model and the changes made in them: wrong      *)
(* types, missing and superseded fields, dangling and misdirected          *)
(* references, overlaps, limits and their neighbours.                      *)
(***************************************************************************)
EXTENDS ConfigPipeline

Empty == Obj([k \in {} |-> Null])

Sim2D(physics) == Obj([physics_type |-> Str(physics), mesh |-> Str("model.msh")])
Sim3D(physics) == Obj([physics_type |-> Str(physics), mesh |-> Str("model.msh"),
                       solver_print_level |-> Whole(3),
                       geometry_type |-> Str("3d")])

Group(name, dim, ids) ==
    Obj([name |-> Str(name), dim |-> Whole(dim),
         attribute_ids |-> Arr([i \in DOMAIN ids |-> Whole(ids[i])])])

Region(group, material) == Obj([entity_group |-> Str(group), material |-> Str(material)])

Mat(name, properties) == Obj([name |-> Str(name), properties |-> Obj(properties)])

Copper == Mat("copper", [mu_r |-> Num(100), epsilon_r |-> Num(100), sigma |-> Num(500)])
Air == Mat("air", [mu_r |-> Num(100), epsilon_r |-> Num(200)])

Term(name, quantity, group) ==
    Obj([name |-> Str(name), quantity |-> Str(quantity), entity_group |-> Str(group)])

Bc(type, group) == Obj([type |-> Str(type), entity_group |-> Str(group), value |-> Whole(0)])

Excite(terminal) == Obj([terminal |-> Str(terminal), value |-> Num(100)])

Sweep(scale, start, stop, points) ==
    Obj([scale |-> Str(scale), start |-> Num(start), stop |-> Num(stop),
         points |-> Whole(points)])

Sections(dim) ==
    [entity_groups |-> Arr(<<Group("wire", dim, <<1>>), Group("space", dim, <<2>>),
                             Group("wall", dim - 1, <<1>>)>>),
     regions |-> Arr(<<Region("wire", "copper"), Region("space", "air")>>),
     materials |-> Arr(<<Copper, Air>>),
     boundary_conditions |-> Arr(<<Bc("dirichlet", "wall")>>)]

Electrostatic ==
    Obj(Sections(2) @@
        [simulation |-> Sim2D("electrostatics"),
         terminals |-> Arr(<<Term("A", "voltage", "wall")>>),
         boundary_conditions |-> Arr(<<>>),
         output |-> Obj([directory |-> Str("out"),
            export_fields_for_coupling_matrix |-> Bool(TRUE),
            paraview |-> Obj([directory |-> Str("fields")]),
            probes |-> Arr(<<Obj([name |-> Str("p"), line |-> Obj(
                [from |-> Arr(<<Num(0), Num(0)>>), to |-> Arr(<<Num(200), Num(0)>>),
                 count |-> Whole(3)])])>>)]),
         scenarios |-> Arr(<<Obj([name |-> Str("s"),
                                  excitations |-> Arr(<<Excite("A")>>)])>>)])

Quasistatic ==
    Obj([simulation |-> Sim2D("magnetoquasistatics"),
         terminals |-> Arr(<<Term("A", "current", "wire")>>),
         boundary_conditions |-> Arr(<<Bc("dirichlet", "wall"),
                                       Put(Bc("neumann", "wall"), "value", Num(300))>>),
         scenarios |-> Arr(<<Obj([name |-> Str("s"),
                                  frequency |-> Sweep("log", 100, 400, 3),
                                  excitations |-> Arr(<<Excite("A")>>)])>>)]
        @@ Sections(2))

Solid ==
    Obj([simulation |-> Sim3D("magnetostatics"),
         terminals |-> Arr(<<Put(Put(Term("A", "current", "wire"),
            "conductor_type", Str("stranded")), "direction",
            Obj([type |-> Str("cut"), cut |-> Str("wall"),
                 normal |-> Arr(<<Num(0), Num(0), Num(100)>>)]))>>),
         scenarios |-> Arr(<<Obj([name |-> Str("s"), frequency |-> Num(5000)])>>)]
        @@ Sections(3))

\* A massive winding of both groups, and a stranded one in the second.
Overlapping ==
    LET groups == Put(Quasistatic.fields["entity_groups"], "3", Group("both", 2, <<1, 2>>))
        regions == Arr(<<Region("both", "copper")>>)
        inner == Put(Term("B", "current", "space"), "conductor_type", Str("stranded"))
    IN  Put(Put(Put(Quasistatic, "entity_groups", groups), "regions", regions),
            "terminals", Arr(<<Term("A", "current", "both"), inner>>))

OverlappingDef == {Overlapping}

DocumentsDef == {Electrostatic, Quasistatic, Solid}

Plane == [dim |-> 2, attributes |-> {1, 2}, boundary |-> {1}]
Wider == [dim |-> 2, attributes |-> {1, 2, 3}, boundary |-> {1}]
Volume == [dim |-> 3, attributes |-> {1, 2}, boundary |-> {1}]
MeshesDef == {Plane, Wider, Volume}
-----------------------------------------------------------------------------
At(path, values) == {[path |-> path, value |-> v] : v \in values}

Strs(texts) == {Str(t) : t \in texts}

SimKey(key) == <<"simulation", key>>
First(section, key) == <<section, "0", key>>

SimulationEdits == UNION {
    At(<<"simulation">>, {Absent, Str("none")}),
    At(SimKey("physics_type"), {Absent} \cup Strs({"electrostatics",
        "magnetostatics", "magnetoquasistatics", "thermal"})),
    At(SimKey("geometry_type"), {Absent} \cup Strs({"axisymmetric", "3d", "cube"})),
    At(SimKey("analysis_type"), Strs({"coupling_matrix", "matrix"})),
    At(SimKey("linear_solver"), Strs({"iterative", "cg"})),
    At(SimKey("order"), {Whole(0), Whole(10), Whole(11), Num(150), Null}),
    At(SimKey("mesh"), {Absent, Str("")}),
    At(SimKey("frequency"), {Num(5000)}),
    At(SimKey("output"), {Empty}),
    At(SimKey("solver_tolerance"), {Whole(0), Num(1), Whole(1)}),
    At(SimKey("solver_max_iter"), {Whole(0), Whole(1)}),
    At(SimKey("amr"), {Obj([enabled |-> Bool(TRUE), max_dofs |-> Whole(10),
                                error_fraction |-> Num(50), conforming |-> Bool(FALSE)]),
        Obj([max_iterations |-> Whole(-1)]),
        Obj([error_fraction |-> Num(101)]), Obj([error_tolerance |-> Num(-1)])})}

GroupEdits == UNION {
    At(<<"entity_groups">>, {Absent, Empty}),
    At(First("entity_groups", "name"), {Str(""), Str("space"), Absent}),
    At(First("entity_groups", "dim"), {Whole(1), Whole(2), Whole(3), Whole(4), Absent}),
    At(First("entity_groups", "kind"), {Str("domain")}),
    At(First("entity_groups", "attribute_ids"), {Arr(<<>>), Arr(<<Whole(0)>>),
        Arr(<<Whole(1), Whole(2)>>), Arr(<<Whole(4)>>), Arr(<<Num(150)>>), Absent}),
    At(<<"entity_groups", "2", "dim">>, {Whole(2)}),
    At(<<"entity_groups", "2", "attribute_ids">>, {Arr(<<Whole(2)>>)}),
    At(<<"entity_groups", "3">>, {Group("rest", 2, <<3>>), Group("both", 2, <<1, 2>>)})}

RegionEdits == UNION {
    At(<<"regions">>, {Arr(<<>>), Null}),
    At(First("regions", "entity_group"), Strs({"wall", "nowhere", "both"})),
    At(First("regions", "material"), {Absent} \cup Strs({"air", "gold"})),
    At(First("regions", "current_constraint"), Strs({"none", "open", "closed"})),
    At(<<"regions", "1", "current_constraint">>, {Str("open")}),
    At(<<"regions", "1", "material">>, {Str("copper")}),
    At(<<"regions", "2">>, {Region("rest", "air"), Whole(1)}),
    At(First("materials", "properties"), {Absent, Obj([mu_r |-> Whole(0)]),
        Obj([mu_r |-> Whole(1), sigma |-> Whole(-1)])}),
    At(<<"materials", "1", "name">>, {Str("copper")}),
    At(<<"boundary_conditions">>, {Absent}),
    At(First("boundary_conditions", "type"), Strs({"neumann", "robin", "Dirichlet"})),
    At(First("boundary_conditions", "robin_coefficient"), {Num(-100), Num(100)}),
    At(First("boundary_conditions", "value"), {Num(500), Absent}),
    At(First("boundary_conditions", "entity_group"), {Str("wire")}),
    At(<<"boundary_conditions", "0">>, {Bc("robin", "wall")})}

Azimuthal == Obj([type |-> Str("azimuthal"), axis |-> Arr(<<Num(0), Num(0), Num(100)>>),
                  origin |-> Arr(<<Num(0), Num(100), Num(0)>>)])

TerminalEdits == UNION {
    At(<<"terminals">>, {Arr(<<>>), Absent}),
    At(First("terminals", "name"), {Str(""), Whole(1)}),
    At(First("terminals", "quantity"), {Absent} \cup Strs({"voltage", "current", "charge"})),
    At(First("terminals", "conductor_type"), Strs({"massive", "stranded", "solid"})),
    At(First("terminals", "entity_group"), {Absent} \cup Strs({"space", "wall", "both"})),
    At(First("terminals", "turns"), {Num(250), Num(0)}),
    At(First("terminals", "excitation"), {Str("current")}),
    At(First("terminals", "direction"), {Absent, Azimuthal, Put(Azimuthal, "axis", Null),
        Obj([type |-> Str("electrodes"), input |-> Str("wall"), output |-> Str("wire")])}),
    At(<<"terminals", "0", "direction", "cut">>, Strs({"wire", "nowhere"})),
    At(<<"terminals", "1">>, {Term("A", "current", "space"), Term("B", "current", "space"),
        Put(Term("B", "current", "space"), "conductor_type", Str("stranded"))})}

ScenarioEdits == UNION {
    At(<<"scenarios">>, {Arr(<<>>), Absent}),
    At(First("scenarios", "name"), {Absent}),
    At(First("scenarios", "frequency"), {Absent, Num(5000), Num(0), Arr(<<>>),
        Arr(<<Num(200), Num(100)>>), Arr(<<Num(-100)>>), Sweep("linear", 100, 300, 3),
        Sweep("linear", 300, 100, 3), Sweep("log", 100, 100, 2), Sweep("log", 100, 400, 1),
        Sweep("log", 1, 2, 3), Sweep("log", 100, 400, 0), Empty, Str("dc")}),
    At(<<"scenarios", "0", "excitations", "1">>, {Excite("A"), Excite("B"), Null}),
    At(<<"scenarios", "0", "excitations", "0", "value">>, {Absent}),
    At(<<"scenarios", "0", "excitations", "0", "phase">>, {Num(9000)}),
    At(<<"scenarios", "1">>, {Obj([name |-> Str("s")]),
        Obj([name |-> Str("t"), frequency |-> Whole(2)])})}

OutputEdits == UNION {
    At(<<"output">>, {Null, Absent}),
    At(<<"output", "directory">>, {Str("")}),
    At(<<"output", "hdf5">>, {Str("on"), Empty, Obj([file |-> Str("dir/")]),
        Obj([file |-> Str("a.h5")])}),
    At(<<"output", "gmsh">>, {Obj([version |-> Str("4.1")]), Obj([version |-> Str("3")])}),
    At(<<"output", "vtk">>, {Empty}),
    At(<<"output", "probes">>, {Empty}),
    At(<<"output", "probes", "0", "name">>, {Str("a b"), Absent}),
    At(<<"output", "probes", "0", "entity_group">>, Strs({"wire", "wall"})),
    At(<<"output", "probes", "0", "points">>, {Arr(<<Arr(<<Num(0), Num(0)>>)>>)}),
    At(<<"output", "probes", "0", "line">>, {Absent}),
    At(<<"output", "probes", "0", "line", "count">>, {Whole(1), Whole(2), Num(300)}),
    At(<<"output", "probes", "0", "line", "to">>, {Arr(<<Num(0)>>)})}

EditsDef == UNION {SimulationEdits, GroupEdits, RegionEdits, TerminalEdits,
                   ScenarioEdits, OutputEdits}

NoEdits == {}

\* The values, and those that are at most so many levels inside them.
ValuesDef ==
    LET written == DocumentsDef \cup OverlappingDef \cup ({e.value : e \in EditsDef} \ {Absent})
        deep[n \in 0 .. 8] ==
            IF n = 0 THEN written
            ELSE deep[n - 1] \cup UNION {{v.fields[k] : k \in DOMAIN v.fields} :
                    v \in {w \in deep[n - 1] : w.type \in {"object", "array"}}}
    IN  deep[8]

ASSUME NarrowAssumption == IsNarrow(Values)

\* Off in both directions, at first, inner and last points.
ExpLogErrorsDef ==
    <<100, 400, 3, 0>> :> -1 @@ <<100, 400, 3, 1>> :> 1 @@ <<100, 400, 3, 2>> :> -1
    @@ <<100, 100, 2, 0>> :> 1 @@ <<100, 100, 2, 1>> :> 1
    @@ <<1, 2, 3, 0>> :> -1 @@ <<1, 2, 3, 1>> :> -1

OverridesDef == {"", "/cli"}
NoOverrides == {""}
AbsolutePathsDef == {"/cli"}
NamelessPathsDef == {"dir/", ".", ".."}
IllFormedNamesDef == {"a b"}
=============================================================================
