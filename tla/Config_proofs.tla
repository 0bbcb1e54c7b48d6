--------------------------- MODULE Config_proofs ---------------------------
(***************************************************************************)
(* Proofs about ConfigPipeline: what the validator has accepted, the       *)
(* parser reads as it was written and Setup finds no mistake in.           *)
(***************************************************************************)
EXTENDS ConfigPipeline, Counting_proofs

-----------------------------------------------------------------------------
(* Values.                                                                 *)

\* A JSON value: it and all it holds are in a set of such values.
IsValue(v) == \E V : IsJson(V) /\ v \in V

\* The elements of an array are values it holds.
LEMMA ItemsOf ==
  ASSUME NEW value
  PROVE  /\ Len(Items(value)) \in Nat
         /\ DOMAIN Items(value) = 1 .. Len(Items(value))
         /\ \A x \in Elements(value) :
               /\ value.type = "array"
               /\ \E k \in DOMAIN value.fields : x = value.fields[k]
<1> DEFINE M == {i \in DOMAIN Tokens : Tokens[i] \in DOMAIN value.fields}
           held == InOrder(M, Len(Tokens))
           taken == [i \in DOMAIN held |-> value.fields[Tokens[held[i]]]]
<1>1. Len(Tokens) = 4 /\ DOMAIN Tokens = 1 .. 4 /\ M \in SUBSET (Nat \ {0})
  BY DEF Tokens
<1> HIDE DEF M
<1>2. held \in Seq(Nat)
  BY <1>1, InOrderStep
<1>3. /\ Len(held) = Passed(M, 4)
      /\ \A p \in 1 .. Passed(M, 4) : held[p] \in M
  BY <1>1, OrderIsCount
<1> HIDE DEF held
<1>4. Len(held) \in Nat /\ DOMAIN held = 1 .. Len(held)
  BY <1>2
<1>5. Len(taken) = Len(held) /\ DOMAIN taken = 1 .. Len(held)
  BY <1>4
<1>6. \A i \in DOMAIN taken : \E k \in DOMAIN value.fields : taken[i] = value.fields[k]
  BY <1>1, <1>3, <1>4 DEF M
<1>7. Items(value) = IF value.type # "array" THEN <<>> ELSE taken
  BY DEF Items, held, M
<1> HIDE DEF taken
<1>8. CASE value.type = "array"
  BY <1>4, <1>5, <1>6, <1>7, <1>8 DEF Elements
<1>9. CASE value.type # "array"
  BY <1>7, <1>9 DEF Elements
<1> QED
  BY <1>8, <1>9

LEMMA EmptyItems ==
  ASSUME NEW value, DOMAIN Items(value) = {}
  PROVE  Items(value) = <<>>
<1>1. CASE value.type # "array"
  BY <1>1 DEF Items
<1>2. CASE value.type = "array"
  <2> DEFINE held == InOrder({i \in DOMAIN Tokens : Tokens[i] \in DOMAIN value.fields},
                             Len(Tokens))
  <2>1. Items(value) = [i \in DOMAIN held |-> value.fields[Tokens[held[i]]]]
    BY <1>2 DEF Items
  <2> HIDE DEF held
  <2>2. DOMAIN held = {}
    BY <2>1
  <2>3. Items(value) = [i \in {} |-> i]
    BY <2>1, <2>2
  <2>4. DOMAIN <<>> = {} /\ <<>> = [i \in {} |-> i]
    OBVIOUS
  <2> QED
    BY <2>3, <2>4
<1> QED
  BY <1>1, <1>2

\* What a value holds is a value.
LEMMA Held ==
  ASSUME NEW v, IsValue(v)
  PROVE  /\ \A k : Has(v, k) => IsValue(v.fields[k])
         /\ \A x \in Elements(v) : IsValue(x)
         /\ \A k : IsValue(Field(v, k, Null)) /\ IsValue(Field(v, k, Obj(<<>>)))
         /\ \A k : \A x \in Members(v, k) : IsValue(x)
<1>1. IsValue(Null)
  <2>1. IsJson({Null})
    BY DEF IsJson, Null, Types
  <2> QED
    BY <2>1 DEF IsValue
<1>2. IsValue(Obj(<<>>))
  <2>1. DOMAIN <<>> = {}
    OBVIOUS
  <2>2. IsJson({Obj(<<>>)})
    BY <2>1 DEF IsJson, Obj, Types
  <2> QED
    BY <2>2 DEF IsValue
<1>3. ASSUME NEW w, IsValue(w)
      PROVE  /\ \A k : Has(w, k) => IsValue(w.fields[k])
             /\ \A x \in Elements(w) : IsValue(x)
  <2>1. PICK V : IsJson(V) /\ w \in V
    BY <1>3 DEF IsValue
  <2>2. w.type \in {"object", "array"} => \A k \in DOMAIN w.fields : w.fields[k] \in V
    BY <2>1 DEF IsJson
  <2>3. \A k : Has(w, k) => w.fields[k] \in V
    BY <2>2 DEF Has
  <2>4. \A x \in Elements(w) : x \in V
    BY <2>2, ItemsOf
  <2> QED
    BY <2>1, <2>3, <2>4 DEF IsValue
<1>4. \A k : IsValue(Field(v, k, Null)) /\ IsValue(Field(v, k, Obj(<<>>)))
  BY <1>1, <1>2, <1>3 DEF Field
<1>5. \A k : \A x \in Members(v, k) : IsValue(x)
  BY <1>3, <1>4 DEF Members
<1> QED
  BY <1>3, <1>4, <1>5

\* What the type of a value says of it.
LEMMA ValueTypes ==
  ASSUME NEW v, IsValue(v)
  PROVE  /\ v.type \in Types
         /\ v = Null <=> v.type = "null"
         /\ v.type = "integer" => v.low \in Int /\ AsInt(v) = v.low /\ AsInt(v) \in Int
         /\ HasType(v, "number") => AsNumber(v) \in Int
         /\ \A s : v = Str(s) <=> v.type = "string" /\ v.text = s
<1>1. PICK V : IsJson(V) /\ v \in V
  BY DEF IsValue
<1>2. v.type = "string" => v = Str(v.text)
  BY <1>1 DEF IsJson
<1>3. \A s : v = Str(s) => v.type = "string" /\ v.text = s
  BY DEF Str
<1>4. \A s : v = Str(s) <=> v.type = "string" /\ v.text = s
  BY <1>2, <1>3
<1>5. v = Null <=> v.type = "null"
  BY <1>1 DEF IsJson, Null
<1>6. v.type = "integer" => v.low \in Int /\ v.wraps \in Int
  BY <1>1 DEF IsJson
<1>7. v.type = "number" => v.hundredths \in Int
  BY <1>1 DEF IsJson
<1>8. HasType(v, "number") => AsNumber(v) \in Int
  BY <1>6, <1>7 DEF HasType, AsNumber, Beyond
<1>9. v.type = "integer" => AsInt(v) = v.low /\ AsInt(v) \in Int
  BY <1>6 DEF AsInt
<1>10. v.type \in Types
  BY <1>1 DEF IsJson
<1> QED
  BY <1>4, <1>5, <1>6, <1>8, <1>9, <1>10

-----------------------------------------------------------------------------
(* What the first look at a document's types has established.              *)

\* The fields that an object has are of their types.
Typed(object, types) ==
  \A k \in DOMAIN types : Has(object, k) => HasType(object.fields[k], types[k])

LEMMA NoErrors == \A S : Errors(S) = {} <=> \A e \in S : e = {}
  BY DEF Errors

LEMMA NoneRefused ==
  ASSUME NEW broken, NEW s, NEW k, ErrorIf(broken, s, k) = {}
  PROVE  ~broken
BY DEF ErrorIf

LEMMA NoTypeErrors ==
  ASSUME NEW o, NEW s, NEW t
  PROVE  CheckFieldTypes(o, s, t) = {} <=> Typed(o, t)
BY DEF CheckFieldTypes, Typed

LEMMA NoneUnsupported ==
  ASSUME NEW o, NEW s, NEW K
  PROVE  Unsupported(o, s, K) = {} <=> \A k \in K : ~Has(o, k)
BY DEF Unsupported

LEMMA NoneMissing ==
  ASSUME NEW o, NEW s, NEW K
  PROVE  Missing(o, s, K) = {} <=> \A k \in K : Has(o, k)
BY DEF Missing

\* Sections whose entries are objects.
ObjectSections ==
  {"entity_groups", "regions", "materials", "terminals", "boundary_conditions", "scenarios"}

WellTyped(d) ==
  /\ d.type = "object"
  /\ Simulation(d).type = "object"
  /\ Typed(Simulation(d), SimulationTypes)
  /\ Typed(Field(Simulation(d), "amr", Null), AmrTypes)
  /\ \A key \in ObjectSections :
        /\ Has(d, key) => d.fields[key].type = "array"
        /\ \A x \in Members(d, key) : x.type = "object"
  /\ \A g \in Members(d, "entity_groups") :
        /\ Typed(g, GroupTypes) /\ ~Has(g, "kind")
        /\ \A id \in Members(g, "attribute_ids") : id.type = "integer"
  /\ \A r \in Members(d, "regions") : Typed(r, RegionTypes)
  /\ \A m \in Members(d, "materials") :
        Typed(m, MaterialTypes) /\ Typed(Field(m, "properties", Null), PropertyTypes)
  /\ \A t \in Members(d, "terminals") : Typed(t, TerminalTypes)
  /\ \A b \in Members(d, "boundary_conditions") : Typed(b, BoundaryTypes)
  /\ \A s \in Members(d, "scenarios") :
        LET frequency == Field(s, "frequency", Whole(1))
        IN  /\ Typed(s, ScenarioTypes)
            /\ Typed(frequency, SweepTypes)
            /\ frequency.type \in {"object", "array", "number", "integer"}
            /\ \A f \in Elements(frequency) : HasType(f, "number")
            /\ \A e \in Members(s, "excitations") :
                  e.type = "object" /\ Typed(e, ExcitationTypes)

LEMMA MembersOf ==
  ASSUME NEW d, NEW key
  PROVE  Members(d, key) = IF Has(d, key) THEN Elements(d.fields[key]) ELSE {}
BY DEF Members, Field, Elements, Items, Null

LEMMA TypesPass ==
  ASSUME NEW d, ValidateDocumentTypes(d) = {}
  PROVE  WellTyped(d) /\ ValidateOutput(d) = {}
<1>1. d.type = "object"
  BY DEF ValidateDocumentTypes
<1> DEFINE sim == Field(d, "simulation", Obj(<<>>))
           amr == Field(sim, "amr", Null)
           output == ValidateOutput(d)
           object == ErrorIf(sim.type # "object", "simulation", "")
           fields == CheckFieldTypes(sim, "simulation", SimulationTypes)
           superseded == Unsupported(sim, "simulation", SupersededSimulation)
           refinement == CheckFieldTypes(amr, "simulation.amr", AmrTypes)
           boundaries == Unsupported(d, "boundaries", {"boundaries"})
           groups == CheckObjectArrayTypes(d, "entity_groups", GroupTypeErrors)
           regions == CheckObjectArrayTypes(d, "regions",
                LAMBDA r : CheckFieldTypes(r, "regions", RegionTypes))
           materials == CheckObjectArrayTypes(d, "materials",
                LAMBDA m : CheckFieldTypes(m, "materials", MaterialTypes)
                    \cup CheckFieldTypes(Field(m, "properties", Null),
                                         "materials.properties", PropertyTypes))
           terminals == CheckObjectArrayTypes(d, "terminals",
                LAMBDA t : CheckFieldTypes(t, "terminals", TerminalTypes)
                    \cup Unsupported(t, "terminals",
                                     {"excitation_type", "excitation"}))
           conditions == CheckObjectArrayTypes(d, "boundary_conditions",
                LAMBDA b : CheckFieldTypes(b, "boundary_conditions", BoundaryTypes))
           scenarios == CheckObjectArrayTypes(d, "scenarios", ScenarioTypeErrors)
<1>10. ValidateDocumentTypes(d) = Errors({
          output, object, fields, superseded, refinement, boundaries, groups, regions,
          materials, terminals, conditions, scenarios})
  BY <1>1 DEF ValidateDocumentTypes
<1> HIDE DEF sim, amr, output, object, fields, superseded, refinement, boundaries, groups,
             regions, materials, terminals, conditions, scenarios
<1>2. /\ output = {} /\ object = {} /\ fields = {} /\ refinement = {} /\ groups = {}
      /\ regions = {} /\ materials = {} /\ terminals = {} /\ conditions = {} /\ scenarios = {}
  BY <1>10, NoErrors
<1>3. /\ sim.type = "object"
      /\ Typed(sim, SimulationTypes)
      /\ Typed(amr, AmrTypes)
  BY <1>2, NoTypeErrors DEF ErrorIf, object, fields, refinement
<1>4. /\ Has(d, "entity_groups") => d.fields["entity_groups"].type = "array"
      /\ \A g \in Members(d, "entity_groups") : g.type = "object" /\ GroupTypeErrors(g) = {}
  <2> DEFINE wrong(x) == IF x.type = "object"
                         THEN GroupTypeErrors(x)
                         ELSE {<<"entity_groups", "[]">>}
             all == {wrong(x) : x \in Elements(d.fields["entity_groups"])}
  <2>1. Has(d, "entity_groups") => d.fields["entity_groups"].type = "array" /\ Errors(all) = {}
    BY <1>2 DEF CheckObjectArrayTypes, groups
  <2> HIDE DEF all
  <2>2. Has(d, "entity_groups") => \A y \in all : y = {}
    BY <2>1, NoErrors
  <2> HIDE DEF wrong
  <2>3. Has(d, "entity_groups") => \A x \in Elements(d.fields["entity_groups"]) : wrong(x) = {}
    BY <2>2 DEF all
  <2> QED
    BY <2>1, <2>3, MembersOf DEF wrong
<1>5. /\ Has(d, "regions") => d.fields["regions"].type = "array"
      /\ \A r \in Members(d, "regions") :
            r.type = "object" /\ CheckFieldTypes(r, "regions", RegionTypes) = {}
  <2> DEFINE wrong(x) == IF x.type = "object"
                         THEN CheckFieldTypes(x, "regions", RegionTypes)
                         ELSE {<<"regions", "[]">>}
             all == {wrong(x) : x \in Elements(d.fields["regions"])}
  <2>1. Has(d, "regions") => d.fields["regions"].type = "array" /\ Errors(all) = {}
    BY <1>2 DEF CheckObjectArrayTypes, regions
  <2> HIDE DEF all
  <2>2. Has(d, "regions") => \A y \in all : y = {}
    BY <2>1, NoErrors
  <2> HIDE DEF wrong
  <2>3. Has(d, "regions") => \A x \in Elements(d.fields["regions"]) : wrong(x) = {}
    BY <2>2 DEF all
  <2> QED
    BY <2>1, <2>3, MembersOf DEF wrong
<1>6. /\ Has(d, "materials") => d.fields["materials"].type = "array"
      /\ \A m \in Members(d, "materials") :
            /\ m.type = "object" /\ CheckFieldTypes(m, "materials", MaterialTypes) = {}
            /\ CheckFieldTypes(Field(m, "properties", Null),
                               "materials.properties", PropertyTypes) = {}
  <2> DEFINE wrong(x) == IF x.type = "object"
                         THEN CheckFieldTypes(x, "materials", MaterialTypes)
                                \cup CheckFieldTypes(Field(x, "properties", Null),
                                                     "materials.properties", PropertyTypes)
                         ELSE {<<"materials", "[]">>}
             all == {wrong(x) : x \in Elements(d.fields["materials"])}
  <2>1. Has(d, "materials") => d.fields["materials"].type = "array" /\ Errors(all) = {}
    BY <1>2 DEF CheckObjectArrayTypes, materials
  <2> HIDE DEF all
  <2>2. Has(d, "materials") => \A y \in all : y = {}
    BY <2>1, NoErrors
  <2> HIDE DEF wrong
  <2>3. Has(d, "materials") => \A x \in Elements(d.fields["materials"]) : wrong(x) = {}
    BY <2>2 DEF all
  <2> QED
    BY <2>1, <2>3, MembersOf DEF wrong
<1>7. /\ Has(d, "terminals") => d.fields["terminals"].type = "array"
      /\ \A t \in Members(d, "terminals") :
            t.type = "object" /\ CheckFieldTypes(t, "terminals", TerminalTypes) = {}
  <2> DEFINE wrong(x) == IF x.type = "object"
                         THEN CheckFieldTypes(x, "terminals", TerminalTypes)
                                \cup Unsupported(x, "terminals",
                                                 {"excitation_type", "excitation"})
                         ELSE {<<"terminals", "[]">>}
             all == {wrong(x) : x \in Elements(d.fields["terminals"])}
  <2>1. Has(d, "terminals") => d.fields["terminals"].type = "array" /\ Errors(all) = {}
    BY <1>2 DEF CheckObjectArrayTypes, terminals
  <2> HIDE DEF all
  <2>2. Has(d, "terminals") => \A y \in all : y = {}
    BY <2>1, NoErrors
  <2> HIDE DEF wrong
  <2>3. Has(d, "terminals") => \A x \in Elements(d.fields["terminals"]) : wrong(x) = {}
    BY <2>2 DEF all
  <2> QED
    BY <2>1, <2>3, MembersOf DEF wrong
<1>8. /\ Has(d, "boundary_conditions") => d.fields["boundary_conditions"].type = "array"
      /\ \A b \in Members(d, "boundary_conditions") :
            /\ b.type = "object"
            /\ CheckFieldTypes(b, "boundary_conditions", BoundaryTypes) = {}
  <2> DEFINE wrong(x) == IF x.type = "object"
                         THEN CheckFieldTypes(x, "boundary_conditions", BoundaryTypes)
                         ELSE {<<"boundary_conditions", "[]">>}
             all == {wrong(x) : x \in Elements(d.fields["boundary_conditions"])}
  <2>1. Has(d, "boundary_conditions") => d.fields["boundary_conditions"].type = "array" /\ Errors(all) = {}
    BY <1>2 DEF CheckObjectArrayTypes, conditions
  <2> HIDE DEF all
  <2>2. Has(d, "boundary_conditions") => \A y \in all : y = {}
    BY <2>1, NoErrors
  <2> HIDE DEF wrong
  <2>3. Has(d, "boundary_conditions") => \A x \in Elements(d.fields["boundary_conditions"]) : wrong(x) = {}
    BY <2>2 DEF all
  <2> QED
    BY <2>1, <2>3, MembersOf DEF wrong
<1>9. /\ Has(d, "scenarios") => d.fields["scenarios"].type = "array"
      /\ \A s \in Members(d, "scenarios") : s.type = "object" /\ ScenarioTypeErrors(s) = {}
  <2> DEFINE wrong(x) == IF x.type = "object"
                         THEN ScenarioTypeErrors(x)
                         ELSE {<<"scenarios", "[]">>}
             all == {wrong(x) : x \in Elements(d.fields["scenarios"])}
  <2>1. Has(d, "scenarios") => d.fields["scenarios"].type = "array" /\ Errors(all) = {}
    BY <1>2 DEF CheckObjectArrayTypes, scenarios
  <2> HIDE DEF all
  <2>2. Has(d, "scenarios") => \A y \in all : y = {}
    BY <2>1, NoErrors
  <2> HIDE DEF wrong
  <2>3. Has(d, "scenarios") => \A x \in Elements(d.fields["scenarios"]) : wrong(x) = {}
    BY <2>2 DEF all
  <2> QED
    BY <2>1, <2>3, MembersOf DEF wrong
<1>13. ASSUME NEW g \in Members(d, "entity_groups")
       PROVE  /\ Typed(g, GroupTypes) /\ ~Has(g, "kind")
              /\ \A id \in Members(g, "attribute_ids") : id.type = "integer"
  <2>1. /\ CheckFieldTypes(g, "entity_groups", GroupTypes) = {}
        /\ Unsupported(g, "entity_groups", {"kind"}) = {}
        /\ ErrorIf(\E id \in Elements(Field(g, "attribute_ids", Null)) : id.type # "integer",
                   "entity_groups", "attribute_ids") = {}
    BY <1>4 DEF GroupTypeErrors
  <2> QED
    BY <2>1, NoTypeErrors, NoneUnsupported DEF ErrorIf, Members
<1>11. ASSUME NEW s \in Members(d, "scenarios")
       PROVE  LET frequency == Field(s, "frequency", Whole(1))
              IN  /\ Typed(s, ScenarioTypes)
                  /\ Typed(frequency, SweepTypes)
                  /\ frequency.type \in {"object", "array", "number", "integer"}
                  /\ \A f \in Elements(frequency) : HasType(f, "number")
                  /\ \A e \in Members(s, "excitations") :
                        e.type = "object" /\ Typed(e, ExcitationTypes)
  <2> DEFINE frequency == Field(s, "frequency", Whole(1))
             typed(e) == CheckFieldTypes(e, "scenarios.excitations", ExcitationTypes)
             wrong == {typed(e) : e \in Members(s, "excitations")}
             own == CheckFieldTypes(s, "scenarios", ScenarioTypes)
             swept == CheckFieldTypes(frequency, "scenarios.frequency", SweepTypes)
             kinds == ErrorIf(\/ frequency.type \notin {"object", "array", "number", "integer"}
                              \/ \E f \in Elements(frequency) : ~HasType(f, "number"),
                              "scenarios", "frequency")
             objects == ErrorIf(\E e \in Members(s, "excitations") : e.type # "object",
                                "scenarios.excitations", "[]")
  <2>0. ScenarioTypeErrors(s) = Errors({own, swept, kinds, objects, Errors(wrong)})
    BY DEF ScenarioTypeErrors
  <2> HIDE DEF frequency, typed, wrong, own, swept, kinds, objects
  <2>1. own = {} /\ swept = {} /\ kinds = {} /\ objects = {} /\ Errors(wrong) = {}
    BY <1>9, <2>0, NoErrors
  <2>6. \A x \in wrong : x = {}
    BY <2>1, NoErrors
  <2>5. \A e \in Members(s, "excitations") : typed(e) = {}
    BY <2>6 DEF wrong
  <2>2. \A e \in Members(s, "excitations") : Typed(e, ExcitationTypes)
    BY <2>5, NoTypeErrors DEF typed
  <2>3. \A e \in Members(s, "excitations") : e.type = "object"
    BY <2>1 DEF ErrorIf, objects
  <2>4. /\ frequency.type \in {"object", "array", "number", "integer"}
        /\ \A f \in Elements(frequency) : HasType(f, "number")
    BY <2>1 DEF ErrorIf, kinds
  <2> QED
    BY <2>1, <2>2, <2>3, <2>4, NoTypeErrors DEF frequency, own, swept
<1>12. \A key \in ObjectSections :
          /\ Has(d, key) => d.fields[key].type = "array"
          /\ \A x \in Members(d, key) : x.type = "object"
  BY <1>4, <1>5, <1>6, <1>7, <1>8, <1>9 DEF ObjectSections
<1> QED
  BY <1>1, <1>2, <1>3, <1>5, <1>6, <1>7, <1>8, <1>11, <1>12, <1>13, NoTypeErrors
     DEF WellTyped, Simulation, sim, amr, output

-----------------------------------------------------------------------------
(* What the checks of a document whose types are right have established.   *)

\* The document is accepted, with a mesh or without.
Passes(d, m) == ValidateDocumentTypes(d) = {} /\ SemanticErrors(NoNames, d, m) = {}

\* What a validator collected before makes no difference.
LEMMA NamesAreFresh ==
  ASSUME NEW known, NEW d, NEW m
  PROVE  /\ EntityGroupNames(known, d, m) = EntityGroupNames(NoNames, d, m)
         /\ SemanticErrors(known, d, m) = SemanticErrors(NoNames, d, m)
<1>1. Cleared(known) = Cleared(NoNames)
  BY DEF Cleared
<1>2. EntityGroupNames(known, d, m) = EntityGroupNames(NoNames, d, m)
  BY <1>1 DEF EntityGroupNames
<1>3. ValidateEntityGroups(known, d, m) = ValidateEntityGroups(NoNames, d, m)
  BY <1>1 DEF ValidateEntityGroups
<1> QED
  BY <1>2, <1>3 DEF SemanticErrors

IsValidator(v) == v = [errors |-> v.errors, known |-> v.known]

LEMMA VerdictIsFresh ==
  ASSUME NEW v, IsValidator(v), NEW d, NEW m
  PROVE  /\ IsValidator(Validate(v, d, m))
         /\ Validate(v, d, m).errors = Validate(NewValidator, d, m).errors
         /\ Accepts(Validate(v, d, m)) <=> Passes(d, m)
<1>1. CASE ValidateDocumentTypes(d) # {}
  <2>1. Validate(v, d, m) = [errors |-> ValidateDocumentTypes(d), known |-> v.known]
    BY <1>1 DEF Validate, IsValidator
  <2>2. Validate(NewValidator, d, m).errors = ValidateDocumentTypes(d)
    BY <1>1 DEF Validate, NewValidator
  <2> QED
    BY <1>1, <2>1, <2>2 DEF IsValidator, Accepts, Passes
<1>2. CASE ValidateDocumentTypes(d) = {}
  <2>1. Validate(v, d, m) = [errors |-> SemanticErrors(v.known, d, m),
                             known  |-> EntityGroupNames(v.known, d, m)]
    BY <1>2 DEF Validate
  <2>2. Validate(NewValidator, d, m).errors = SemanticErrors(NewValidator.known, d, m)
    BY <1>2 DEF Validate
  <2>3. /\ SemanticErrors(v.known, d, m) = SemanticErrors(NoNames, d, m)
        /\ SemanticErrors(NewValidator.known, d, m) = SemanticErrors(NoNames, d, m)
    BY NamesAreFresh
  <2> QED
    BY <1>2, <2>1, <2>2, <2>3 DEF IsValidator, Accepts, Passes
<1> QED
  BY <1>1, <1>2

\* The names the references of an accepted document are looked up in.
Names(d, m) == EntityGroupNames(NoNames, d, m)

LEMMA ChecksPass ==
  ASSUME NEW d, NEW m, Passes(d, m)
  PROVE  /\ WellTyped(d)
         /\ ValidateOutput(d) = {}
         /\ ValidateSimulation(d) = {}
         /\ ValidateGeometryCompatibility(d, m) = {}
         /\ ValidateEntityGroups(NoNames, d, m) = {}
         /\ ValidateProbes(d, m, Names(d, m)) = {}
         /\ ValidateMaterials(d) = {}
         /\ ValidateRegions(d, m, Names(d, m)) = {}
         /\ ValidateBoundaries(d, Names(d, m)) = {}
         /\ ValidateTerminals(d, Names(d, m)) = {}
         /\ ValidateScenarios(d) = {}
<1>1. SemanticErrors(NoNames, d, m) = Errors({
            ValidateSimulation(d),
            ValidateGeometryCompatibility(d, m),
            ValidateEntityGroups(NoNames, d, m),
            ValidateProbes(d, m, Names(d, m)),
            ValidateMaterials(d),
            ValidateRegions(d, m, Names(d, m)),
            ValidateBoundaries(d, Names(d, m)),
            ValidateTerminals(d, Names(d, m)),
            ValidateScenarios(d)})
  BY DEF SemanticErrors, Names
<1> QED
  BY <1>1, NoErrors, TypesPass DEF Passes

\* The simulation section.
LEMMA SimulationPasses ==
  ASSUME NEW d, IsValue(d), WellTyped(d), ValidateSimulation(d) = {}
  PROVE  LET sim == Simulation(d)
             amr == Field(sim, "amr", Null)
         IN  /\ Has(d, "simulation") /\ sim = Sim(d) /\ IsValue(sim)
             /\ Has(sim, "physics_type") /\ PhysicsType(d) \in PhysicsTypes
             /\ GeometryType(d) \in {"axisymmetric", "planar", "3d"}
             /\ Has(sim, "linear_solver") =>
                    sim.fields["linear_solver"].text \in {"direct", "iterative"}
             /\ Has(sim, "analysis_type") =>
                    sim.fields["analysis_type"].text \in {"field", "coupling_matrix"}
             /\ Integer(sim, "order", 1) \in 1 .. 10
<1> DEFINE sim == Simulation(d)
           amr == Field(sim, "amr", Null)
           tolerance == Number(sim, "solver_tolerance", 1)
           fraction == Number(amr, "error_fraction", 70)
           missing == Missing(sim, "simulation", {"physics_type", "mesh"})
           physics == NotOneOf(sim, "simulation", "physics_type",
                {"electrostatics", "magnetostatics", "magnetoquasistatics"})
           frequency == ErrorIf(IsMqs(d) /\ Has(sim, "frequency"), "simulation", "frequency")
           geometry == NotOneOf(sim, "simulation", "geometry_type",
                {"axisymmetric", "planar", "3d"})
           linear == NotOneOf(sim, "simulation", "linear_solver", {"direct", "iterative"})
           analysis == NotOneOf(sim, "simulation", "analysis_type", {"field", "coupling_matrix"})
           order == ErrorIf(Integer(sim, "order", 1) \notin 1 .. 10, "simulation", "order")
           tol == ErrorIf(tolerance <= 0 \/ tolerance >= 100,
                    "simulation", "solver_tolerance")
           iters == ErrorIf(Integer(sim, "solver_max_iter", 1) < 1,
                    "simulation", "solver_max_iter")
           amrIters == ErrorIf(Integer(amr, "max_iterations", 5) < 0,
                    "simulation.amr", "max_iterations")
           amrFraction == ErrorIf(fraction <= 0 \/ fraction > 100,
                    "simulation.amr", "error_fraction")
           amrTol == ErrorIf(Number(amr, "error_tolerance", 0) < 0,
                    "simulation.amr", "error_tolerance")
<1>1. Has(d, "simulation")
  BY DEF ValidateSimulation
<1>2. ValidateSimulation(d) = Errors({missing, physics, frequency, geometry, linear, analysis,
                                      order, tol, iters, amrIters, amrFraction, amrTol})
  BY <1>1 DEF ValidateSimulation
<1> HIDE DEF sim, missing, physics, frequency, geometry, linear, analysis,
             order, tol, iters, amrIters, amrFraction, amrTol
<1>3. missing = {} /\ physics = {} /\ geometry = {} /\ linear = {} /\ analysis = {} /\ order = {}
  BY <1>2, NoErrors
<1>4. sim.type = "object" /\ sim = d.fields["simulation"] /\ sim = Sim(d)
  BY <1>1 DEF WellTyped, sim, Simulation, Field, Sim
<1>5. IsValue(sim)
  BY <1>1, <1>4, Held
<1>6. Has(sim, "physics_type")
  BY <1>3, NoneMissing DEF missing
<1>7. PhysicsType(d) \in PhysicsTypes
  BY <1>3, <1>6 DEF physics, NotOneOf, ErrorIf, PhysicsType, PhysicsTypes, Text, sim
<1>8. GeometryType(d) \in {"axisymmetric", "planar", "3d"}
  BY <1>3 DEF geometry, NotOneOf, ErrorIf, GeometryType, Text, sim
<1>9. /\ Has(sim, "linear_solver") =>
            sim.fields["linear_solver"].text \in {"direct", "iterative"}
      /\ Has(sim, "analysis_type") =>
            sim.fields["analysis_type"].text \in {"field", "coupling_matrix"}
  BY <1>3 DEF linear, analysis, NotOneOf, ErrorIf
<1>10. Integer(sim, "order", 1) \in 1 .. 10
  BY <1>3 DEF order, ErrorIf
<1> QED
  BY <1>1, <1>4, <1>5, <1>6, <1>7, <1>8, <1>9, <1>10 DEF sim

-----------------------------------------------------------------------------
(* The reads of the parser, where the types are right.                     *)

LEMMA TypedReads ==
  ASSUME NEW o, IsValue(o), NEW k, NEW types, Typed(o, types), k \in DOMAIN types
  PROVE  /\ types[k] # "null" => (Given(o, k) <=> Has(o, k))
         /\ types[k] = "string" =>
                /\ \A f : GetText(o, k, f) = Text(o, k, f)
                /\ Has(o, k) => o.fields[k].type = "string"
         /\ types[k] = "integer" =>
                /\ \A f : GetInt(o, k, f) = Integer(o, k, f)
                /\ Has(o, k) => o.fields[k].type = "integer" /\ AsInt(o.fields[k]) \in Int
         /\ types[k] = "number" =>
                /\ \A f : GetNumber(o, k, f) = Number(o, k, f)
                /\ Has(o, k) => AsNumber(o.fields[k]) \in Int
<1>1. ASSUME Has(o, k)
      PROVE  /\ HasType(o.fields[k], types[k]) /\ IsValue(o.fields[k])
             /\ o.fields[k].type \in Types /\ (o.fields[k] = Null <=> o.fields[k].type = "null")
  <2>1. IsValue(o.fields[k])
    BY <1>1, Held
  <2> QED
    BY <1>1, <2>1, ValueTypes DEF Typed
<1>2. types[k] # "null" => (Given(o, k) <=> Has(o, k))
  <2>1. ASSUME Has(o, k), types[k] # "null" PROVE o.fields[k] # Null
    BY <1>1, <2>1 DEF HasType
  <2> QED
    BY <2>1 DEF Given
<1>3. types[k] = "string" /\ Has(o, k) => o.fields[k].type = "string"
  BY <1>1 DEF HasType
<1>4. types[k] = "integer" /\ Has(o, k) =>
        o.fields[k].type = "integer" /\ AsInt(o.fields[k]) \in Int
  BY <1>1, ValueTypes DEF HasType
<1>5. types[k] = "number" /\ Has(o, k) => AsNumber(o.fields[k]) \in Int
  BY <1>1, ValueTypes
<1>6. types[k] = "string" => \A f : GetText(o, k, f) = Text(o, k, f)
  BY <1>2 DEF GetText, Text
<1>7. types[k] = "integer" => \A f : GetInt(o, k, f) = Integer(o, k, f)
  BY <1>2 DEF GetInt, Integer
<1>8. types[k] = "number" => \A f : GetNumber(o, k, f) = Number(o, k, f)
  BY <1>2 DEF GetNumber, Number
<1> QED
  BY <1>2, <1>3, <1>4, <1>5, <1>6, <1>7, <1>8

LEMMA Readable ==
  ASSUME NEW o, NEW types, NEW narrower, Typed(o, types),
         \A k \in DOMAIN narrower : k \in DOMAIN types /\ narrower[k] = types[k]
  PROVE  ~Unreadable(o, narrower) /\ ~UnreadableUnlessNull(o, narrower)
<1>1. \A k \in DOMAIN narrower : Has(o, k) => Converts(o.fields[k], narrower[k])
  BY DEF Typed, Converts, HasType
<1> QED
  BY <1>1 DEF Unreadable, UnreadableUnlessNull, Given

\* Parser and validator take the document for the same kind of model.
LEMMA SameModel ==
  ASSUME NEW d, IsValue(d), WellTyped(d), ValidateSimulation(d) = {}
  PROVE  /\ GetPhysicsType(d) = PhysicsType(d)
         /\ GetGeometryType(d) = GeometryType(d)
<1> DEFINE sim == Simulation(d)
<1>1. /\ sim = Sim(d) /\ IsValue(sim) /\ Has(sim, "physics_type")
      /\ PhysicsType(d) \in PhysicsTypes
      /\ GeometryType(d) \in {"axisymmetric", "planar", "3d"}
  BY SimulationPasses
<1>2. Typed(sim, SimulationTypes)
  BY DEF WellTyped
<1> HIDE DEF sim
<1>3. /\ \A f : GetText(sim, "physics_type", f) = Text(sim, "physics_type", f)
      /\ \A f : GetText(sim, "geometry_type", f) = Text(sim, "geometry_type", f)
  <2>1. /\ "physics_type" \in DOMAIN SimulationTypes /\ SimulationTypes["physics_type"] = "string"
        /\ "geometry_type" \in DOMAIN SimulationTypes /\ SimulationTypes["geometry_type"] = "string"
    BY DEF SimulationTypes
  <2> QED
    BY <1>1, <1>2, <2>1, TypedReads
<1>4. Text(sim, "physics_type", "electrostatics") = PhysicsType(d)
  BY <1>1 DEF PhysicsType, Text, sim
<1>5. Text(sim, "geometry_type", "planar") = GeometryType(d)
  BY <1>1 DEF GeometryType, sim
<1>6. GetPhysicsType(d) = PhysicsType(d)
  BY <1>1, <1>3, <1>4 DEF GetPhysicsType, ParseEnum
<1>7. GetGeometryType(d) = GeometryType(d)
  BY <1>1, <1>3, <1>5 DEF GetGeometryType, ParseEnum
<1> QED
  BY <1>6, <1>7

LEMMA SimulationReads ==
  ASSUME NEW d, IsValue(d), WellTyped(d), ValidateSimulation(d) = {}
  PROVE  ~SimulationThrows(d)
<1> DEFINE sim == Simulation(d)
           amr == Field(sim, "amr", Null)
<1>1. Sim(d) = sim /\ Typed(sim, SimulationTypes) /\ Typed(amr, AmrTypes)
  BY SimulationPasses DEF WellTyped
<1> HIDE DEF sim, amr
<1>2. ~UnreadableUnlessNull(sim,
        [physics_type |-> "string", geometry_type |-> "string",
         analysis_type |-> "string", linear_solver |-> "string",
         mesh |-> "string", order |-> "integer", solver_tolerance |-> "number",
         solver_max_iter |-> "integer", solver_print_level |-> "integer"])
  BY <1>1, Readable DEF SimulationTypes
<1>3. ~UnreadableUnlessNull(amr,
        [enabled |-> "boolean", max_iterations |-> "integer",
         max_dofs |-> "integer", error_fraction |-> "number",
         error_tolerance |-> "number", conforming |-> "boolean"])
  BY <1>1, Readable DEF AmrTypes
<1> QED
  BY <1>1, <1>2, <1>3 DEF SimulationThrows, amr

LEMMA RegionsRead ==
  ASSUME NEW d, WellTyped(d), NEW r \in Members(d, "regions")
  PROVE  ~RegionThrows(r)
<1>1. Typed(r, RegionTypes)
  BY DEF WellTyped
<1> QED
  BY <1>1, Readable DEF RegionThrows, RegionTypes

LEMMA MaterialsRead ==
  ASSUME NEW d, WellTyped(d), NEW x \in Members(d, "materials")
  PROVE  ~MaterialThrows(x)
<1>1. Typed(x, MaterialTypes) /\ Typed(Field(x, "properties", Null), PropertyTypes)
  BY DEF WellTyped
<1>2. ~UnreadableUnlessNull(x, [name |-> "string"])
  BY <1>1, Readable DEF MaterialTypes
<1>3. ~Unreadable(Field(x, "properties", Null),
                  [sigma |-> "number", epsilon_r |-> "number", mu_r |-> "number"])
  BY <1>1, Readable DEF PropertyTypes
<1> QED
  BY <1>2, <1>3 DEF MaterialThrows

-----------------------------------------------------------------------------
(* Named entries and entity groups.                                        *)

\* Every item has a name of its own, so the first of that name is the item.
OwnNames(items) ==
  \A i \in DOMAIN items :
    /\ Text(items[i], "name", "") # ""
    /\ FirstNamed(items, Text(items[i], "name", "")) = i
    /\ \A j \in DOMAIN items :
          Text(items[i], "name", "") = Text(items[j], "name", "") => i = j

LEMMA NamesPass ==
  ASSUME NEW value, NEW section, NameErrors(Items(value), section) = {}
  PROVE  OwnNames(Items(value))
<1> DEFINE items == Items(value)
           name(i) == Text(items[i], "name", "")
<1>1. DOMAIN items = 1 .. Len(items) /\ Len(items) \in Nat
  BY ItemsOf
<1> HIDE DEF items
<1>2. /\ \A i \in DOMAIN items : name(i) # ""
      /\ \A i \in DOMAIN items : \A j \in DOMAIN items : i < j => name(i) # name(j)
  BY DEF NameErrors, ErrorIf, items
<1>3. ASSUME NEW i \in DOMAIN items, NEW j \in DOMAIN items, name(i) = name(j) PROVE i = j
  <2>1. i < j \/ j < i \/ i = j
    BY <1>1
  <2> HIDE DEF name
  <2> QED
    BY <1>2, <1>3, <2>1
<1>4. ASSUME NEW i \in DOMAIN items PROVE FirstNamed(items, name(i)) = i
  <2>1. {j \in DOMAIN items : name(j) = name(i)} = {i}
    BY <1>3
  <2>2. Min({i}) = i
    BY <1>1 DEF Min
  <2> QED
    BY <2>1, <2>2 DEF FirstNamed
<1> QED
  BY <1>2, <1>3, <1>4 DEF OwnNames, items

\* What an entity group of an accepted document is.
GroupPassed(d, m, g) ==
  /\ g.type = "object" /\ IsValue(g)
  /\ Has(g, "dim") /\ g.fields["dim"].type = "integer"
  /\ Has(g, "attribute_ids")
  /\ Integer(g, "dim", 0) \in 1 .. 3
  /\ MeshDim(d, m) > 0 => Integer(g, "dim", 0) \in {MeshDim(d, m) - 1, MeshDim(d, m)}

LEMMA GroupsPass ==
  ASSUME NEW d, IsValue(d), WellTyped(d), NEW m, ValidateEntityGroups(NoNames, d, m) = {}
  PROVE  /\ OwnNames(Section(d, "entity_groups"))
         /\ \A g \in Members(d, "entity_groups") :
               GroupPassed(d, m, g) /\ GroupErrors(d, m, g) = {}
<1> DEFINE names == NameErrors(Section(d, "entity_groups"), "entity_groups")
           each == {GroupErrors(d, m, g) : g \in Members(d, "entity_groups")}
<1>1. names = {} /\ Errors(each) = {}
  BY DEF ValidateEntityGroups
<1> HIDE DEF names, each
<1>2. OwnNames(Section(d, "entity_groups"))
  BY <1>1, NamesPass DEF names, Section
<1>3. \A e \in each : e = {}
  BY <1>1, NoErrors
<1>4. ASSUME NEW g \in Members(d, "entity_groups")
      PROVE  GroupPassed(d, m, g) /\ GroupErrors(d, m, g) = {}
  <2> DEFINE dim == Integer(g, "dim", 0)
             meshDim == MeshDim(d, m)
             last == Highest(IF IsBoundaryGroup(d, m, g) THEN m.boundary ELSE m.attributes)
             missing == Missing(g, "entity_groups", {"dim", "attribute_ids"})
             dims == ErrorIf(/\ Has(g, "dim")
                    /\ \/ dim \notin 1 .. 3
                       \/ meshDim > 0 /\ dim \notin {meshDim - 1, meshDim},
                    "entity_groups", "dim")
             ids == ErrorIf(\E id \in IntegersOf(Field(g, "attribute_ids", Null)) :
                        id <= 0 \/ (m # NoMesh /\ id > last),
                    "entity_groups", "attribute_ids")
  <2>1. GroupErrors(d, m, g) = {}
    BY <1>3 DEF each
  <2>2. GroupErrors(d, m, g) = Errors({missing, dims, ids})
    BY DEF GroupErrors
  <2> HIDE DEF dim, meshDim, last, missing, dims, ids
  <2>3. missing = {} /\ dims = {}
    BY <2>1, <2>2, NoErrors
  <2>4. Has(g, "dim") /\ Has(g, "attribute_ids")
    BY <2>3, NoneMissing DEF missing
  <2>5. dim \in 1 .. 3 /\ (meshDim > 0 => dim \in {meshDim - 1, meshDim})
    BY <2>3, <2>4 DEF dims, ErrorIf
  <2>6. IsValue(g) /\ g.type = "object"
    BY Held DEF WellTyped, ObjectSections
  <2>7. g.fields["dim"].type = "integer"
    <3>1. Typed(g, GroupTypes)
      BY DEF WellTyped
    <3>2. "dim" \in DOMAIN GroupTypes /\ GroupTypes["dim"] = "integer"
      BY DEF GroupTypes
    <3> QED
      BY <2>4, <2>6, <3>1, <3>2, TypedReads
  <2> QED
    BY <2>1, <2>4, <2>5, <2>6, <2>7 DEF GroupPassed, dim, meshDim
<1> QED
  BY <1>2, <1>4

LEMMA GroupsRead ==
  ASSUME NEW d, IsValue(d), WellTyped(d), NEW m, ValidateEntityGroups(NoNames, d, m) = {},
         NEW g \in Members(d, "entity_groups")
  PROVE  ~GroupThrows(g)
<1>1. GroupPassed(d, m, g)
  BY GroupsPass
<1>2. /\ Typed(g, GroupTypes) /\ ~Has(g, "kind")
      /\ \A id \in Members(g, "attribute_ids") : id.type = "integer"
  BY DEF WellTyped
<1>3. ~Unreadable(g, [name |-> "string"])
  BY <1>2, Readable DEF GroupTypes
<1>4. AsInt(g.fields["dim"]) \in 1 .. 3
  BY <1>1 DEF GroupPassed, Integer
<1>5. \A id \in Members(g, "attribute_ids") : Converts(id, "integer")
  BY <1>2 DEF Converts, HasType
<1> QED
  BY <1>1, <1>2, <1>3, <1>4, <1>5 DEF GroupThrows, GroupPassed

-----------------------------------------------------------------------------
(* Boundary conditions, terminals and scenarios.                           *)

\* A reference to a declared group of its role.
LEMMA ReferencePasses ==
  ASSUME NEW node, NEW names, NEW role, NEW section, NEW key,
         CheckEntityGroupRef(node, names, role, section, key) = {}
  PROVE  /\ Has(node, key) /\ node.fields[key].type = "string"
         /\ RefersTo(node.fields[key], names, role)
<1>1. Has(node, key) /\ RefersTo(node.fields[key], names, role)
  BY DEF CheckEntityGroupRef, ErrorIf
<1> QED
  BY <1>1 DEF RefersTo

BoundaryPassed(bc, names) ==
  /\ IsValue(bc) /\ Typed(bc, BoundaryTypes)
  /\ Has(bc, "type") /\ Has(bc, "value") /\ Has(bc, "entity_group")
  /\ bc.fields["type"].text \in {"dirichlet", "neumann", "robin"}
  /\ RefersTo(bc.fields["entity_group"], names, "boundary")

LEMMA BoundariesPass ==
  ASSUME NEW d, IsValue(d), WellTyped(d), NEW names, ValidateBoundaries(d, names) = {},
         NEW bc \in Members(d, "boundary_conditions")
  PROVE  BoundaryPassed(bc, names) /\ ~BoundaryThrows(bc)
<1> DEFINE each == {BoundaryErrors(x, names) : x \in Members(d, "boundary_conditions")}
           type == Text(bc, "type", "")
           missing == Missing(bc, "boundary_conditions", {"type", "value"})
           kind == NotOneOf(bc, "boundary_conditions", "type", {"dirichlet", "neumann", "robin"})
           robin == ErrorIf(/\ Has(bc, "type")
                    /\ (type = "robin") # Has(bc, "robin_coefficient"),
                    "boundary_conditions", "robin_coefficient")
           group == CheckEntityGroupRef(bc, names, "boundary",
                                "boundary_conditions", "entity_group")
<1>1. Errors(each) = {}
  BY DEF ValidateBoundaries
<1>2. BoundaryErrors(bc, names) \in each
  OBVIOUS
<1> HIDE DEF each
<1>3. BoundaryErrors(bc, names) = {}
  BY <1>1, <1>2, NoErrors
<1>4. BoundaryErrors(bc, names) = Errors({missing, kind, robin, group})
  BY DEF BoundaryErrors
<1> HIDE DEF missing, kind, robin, group
<1>5. missing = {} /\ kind = {} /\ group = {}
  BY <1>3, <1>4, NoErrors
<1>6. Has(bc, "type") /\ Has(bc, "value")
  BY <1>5, NoneMissing DEF missing
<1>7. bc.fields["type"].text \in {"dirichlet", "neumann", "robin"}
  BY <1>5, <1>6 DEF kind, NotOneOf, ErrorIf
<1>8. Has(bc, "entity_group") /\ RefersTo(bc.fields["entity_group"], names, "boundary")
  BY <1>5, ReferencePasses DEF group
<1>9. IsValue(bc) /\ Typed(bc, BoundaryTypes)
  BY Held DEF WellTyped
<1>10. ~Unreadable(bc, [type |-> "string", entity_group |-> "string",
                        value |-> "number", robin_coefficient |-> "number"])
  BY <1>9, Readable DEF BoundaryTypes
<1> QED
  BY <1>6, <1>7, <1>8, <1>9, <1>10 DEF BoundaryPassed, BoundaryThrows

\* What the direction of a terminal's current is.
DirectionPassed(direction, names) ==
  /\ Has(direction, "type") /\ direction.fields["type"].type = "string"
  /\ direction.fields["type"].text \in {"azimuthal", "electrodes", "cut"}
  /\ direction.fields["type"].text = "electrodes" =>
        \A k \in {"input", "output"} :
            Has(direction, k) /\ RefersTo(direction.fields[k], names, "boundary")
  /\ direction.fields["type"].text = "cut" =>
        Has(direction, "cut") /\ RefersTo(direction.fields["cut"], names, "boundary")
  /\ ~UnreadableUnlessNull(direction,
            [type |-> "string", input |-> "string", output |-> "string", cut |-> "string"])
  /\ \A k \in {"origin", "axis", "normal"} :
        \A x \in Members(direction, k) : Converts(x, "number")
  /\ \A k \in {"type", "input", "output", "cut"} :
        Has(direction, k) => direction.fields[k].type = "string"
  /\ \A k \in {"origin", "axis", "normal"} :
        Has(direction, k) => IsPoint(direction.fields[k], 3)

LEMMA PointReads ==
  ASSUME NEW v, NEW dim, IsPoint(v, dim)
  PROVE  v.type = "array" /\ \A x \in Elements(v) : Converts(x, "number")
BY DEF IsPoint, Converts, HasType

LEMMA DirectionPasses ==
  ASSUME NEW o, IsValue(o), o.type = "object", NEW names, DirectionErrors(o, names) = {}
  PROVE  DirectionPassed(o, names)
<1> DEFINE kind == Field(o, "type", Null)
           section == "terminals.direction"
           wall(k) == CheckEntityGroupRef(o, names, "boundary", section, k)
           nonzero(k) == LET v == Field(o, k, Null)
                         IN  ErrorIf(~IsPoint(v, 3) \/ IsZero(v), section, k)
           others == {<<section, k>> : k \in DOMAIN o.fields \ DirectionKeys[kind.text]}
           origin == ErrorIf(/\ Has(o, "origin") /\ ~IsPoint(o.fields["origin"], 3),
                             section, "origin")
<1>1. kind \in {Str(k) : k \in DOMAIN DirectionKeys}
  BY DEF DirectionErrors
<1>2. /\ kind.type = "string" /\ kind.text \in {"azimuthal", "electrodes", "cut"}
      /\ kind.text \in DOMAIN DirectionKeys
  BY <1>1 DEF Str, DirectionKeys
<1>3. Has(o, "type") /\ kind = o.fields["type"]
  BY <1>2 DEF Field, Null
<1>4. /\ others = {}
      /\ kind.text = "azimuthal" => nonzero("axis") = {} /\ origin = {}
      /\ kind.text = "electrodes" => wall("input") = {} /\ wall("output") = {}
      /\ kind.text = "cut" => wall("cut") = {} /\ nonzero("normal") = {}
  BY <1>1, <1>2 DEF DirectionErrors
<1> HIDE DEF kind
<1>5. \A k : Has(o, k) => k \in DirectionKeys[kind.text]
  BY <1>4 DEF Has
<1> HIDE DEF others
<1>12. \A k : nonzero(k) = {} => IsPoint(Field(o, k, Null), 3)
  BY NoneRefused
<1>13. origin = {} /\ Has(o, "origin") => IsPoint(o.fields["origin"], 3)
  BY NoneRefused
<1>14. \A k : wall(k) = {} =>
          Has(o, k) /\ o.fields[k].type = "string" /\ RefersTo(o.fields[k], names, "boundary")
  BY ReferencePasses
<1>15. /\ DirectionKeys["azimuthal"] = {"type", "origin", "axis"}
       /\ DirectionKeys["electrodes"] = {"type", "input", "output"}
       /\ DirectionKeys["cut"] = {"type", "cut", "normal"}
  BY DEF DirectionKeys
<1> HIDE DEF wall, nonzero, origin
<1>6. kind.text = "azimuthal" =>
        /\ \A k : Has(o, k) => k \in {"type", "origin", "axis"}
        /\ IsPoint(Field(o, "axis", Null), 3)
        /\ Has(o, "origin") => IsPoint(o.fields["origin"], 3)
  BY <1>4, <1>5, <1>12, <1>13, <1>15
<1>7. kind.text = "electrodes" =>
        /\ \A k : Has(o, k) => k \in {"type", "input", "output"}
        /\ \A k \in {"input", "output"} :
              Has(o, k) /\ o.fields[k].type = "string" /\ RefersTo(o.fields[k], names, "boundary")
  BY <1>4, <1>5, <1>14, <1>15
<1>8. kind.text = "cut" =>
        /\ \A k : Has(o, k) => k \in {"type", "cut", "normal"}
        /\ Has(o, "cut") /\ o.fields["cut"].type = "string"
        /\ RefersTo(o.fields["cut"], names, "boundary")
        /\ IsPoint(Field(o, "normal", Null), 3)
  BY <1>4, <1>5, <1>12, <1>14, <1>15
<1>9. \A k \in {"type", "input", "output", "cut"} : Has(o, k) => o.fields[k].type = "string"
  BY <1>2, <1>3, <1>6, <1>7, <1>8
<1>10. ~UnreadableUnlessNull(o,
            [type |-> "string", input |-> "string", output |-> "string", cut |-> "string"])
  BY <1>9 DEF UnreadableUnlessNull, Given, Converts, HasType
<1>11. ASSUME NEW k \in {"origin", "axis", "normal"}, Has(o, k)
       PROVE  IsPoint(o.fields[k], 3)
  BY <1>2, <1>6, <1>7, <1>8, <1>11 DEF Field
<1>16. ASSUME NEW k \in {"origin", "axis", "normal"}, NEW x \in Members(o, k)
       PROVE  Converts(x, "number")
  <2>1. Has(o, k) /\ x \in Elements(o.fields[k])
    BY <1>16, MembersOf
  <2> QED
    BY <1>11, <2>1, PointReads
<1> QED
  BY <1>2, <1>3, <1>7, <1>8, <1>9, <1>10, <1>11, <1>16 DEF DirectionPassed

TerminalPassed(d, t, names) ==
  LET quantity == t.fields["quantity"].text
  IN  /\ IsValue(t) /\ Typed(t, TerminalTypes)
      /\ Has(t, "quantity") /\ quantity \in {"voltage", "current"}
      /\ PhysicsType(d) = "electrostatics" => quantity = "voltage"
      /\ Magnetic(d) => quantity = "current"
      /\ Text(t, "conductor_type", "massive") \in {"massive", "stranded"}
      /\ WantsDirection(d, t) <=> Has(t, "direction")
      /\ Has(t, "direction") =>
            DirectionPassed(t.fields["direction"], names)
      /\ Has(t, "entity_group")
      /\ RefersTo(t.fields["entity_group"], names,
                  IF quantity = "current" THEN "domain" ELSE "boundary")

LEMMA TerminalsPass ==
  ASSUME NEW d, IsValue(d), WellTyped(d), NEW names, ValidateTerminals(d, names) = {}
  PROVE  /\ OwnNames(Section(d, "terminals"))
         /\ \A t \in Members(d, "terminals") :
               TerminalPassed(d, t, names) /\ ~TerminalThrows(t)
<1> DEFINE terminals == Section(d, "terminals")
           each == {TerminalErrors(d, terminals[i], names) : i \in DOMAIN terminals}
<1>1. NameErrors(terminals, "terminals") = {} /\ Errors(each) = {}
  BY DEF ValidateTerminals
<1>2. OwnNames(terminals)
  BY <1>1, NamesPass DEF Section
<1>3. \A t \in Members(d, "terminals") : TerminalErrors(d, t, names) \in each
  BY DEF Members, Elements, Section
<1> HIDE DEF terminals, each
<1>4. ASSUME NEW t \in Members(d, "terminals")
      PROVE  TerminalPassed(d, t, names) /\ ~TerminalThrows(t)
  <2> DEFINE quantity == Text(t, "quantity", "voltage")
             conductor == Text(t, "conductor_type", "massive")
             turns == Number(t, "turns", 100)
             missing == Missing(t, "terminals", {"quantity"})
             quantities ==
               ErrorIf(\/ quantity \notin {"voltage", "current"}
                       \/ PhysicsType(d) = "electrostatics" /\ quantity # "voltage"
                       \/ Magnetic(d) /\ quantity # "current",
                       "terminals", "quantity")
             conductors == ErrorIf(conductor \notin {"massive", "stranded"},
                    "terminals", "conductor_type")
             direction == ValidateCurrentDirection(d, t, names)
             turned ==
               ErrorIf(\/ turns <= 0
                       \/ turns # 100 /\ ~(Magnetic(d) /\ conductor = "stranded"),
                       "terminals", "turns")
             group == CheckEntityGroupRef(t, names,
                IF quantity = "current" THEN "domain" ELSE "boundary",
                "terminals", "entity_group")
  <2>1. TerminalErrors(d, t, names) = {}
    BY <1>1, <1>3, NoErrors
  <2>2. TerminalErrors(d, t, names) =
          Errors({missing, quantities, conductors, direction, turned, group})
    BY Zenon DEF TerminalErrors
  <2> HIDE DEF quantity, conductor, turns, missing, quantities, conductors, direction, turned, group
  <2>3. missing = {} /\ quantities = {} /\ conductors = {} /\ direction = {} /\ group = {}
    BY <2>1, <2>2, NoErrors
  <2>4. IsValue(t) /\ Typed(t, TerminalTypes) /\ t.type = "object"
    BY Held DEF WellTyped, ObjectSections
  <2>5. Has(t, "quantity") /\ quantity = t.fields["quantity"].text
    BY <2>3, NoneMissing DEF missing, quantity, Text
  <2>6. /\ quantity \in {"voltage", "current"}
        /\ PhysicsType(d) = "electrostatics" => quantity = "voltage"
        /\ Magnetic(d) => quantity = "current"
        /\ conductor \in {"massive", "stranded"}
    <3>1. ~(\/ quantity \notin {"voltage", "current"}
            \/ PhysicsType(d) = "electrostatics" /\ quantity # "voltage"
            \/ Magnetic(d) /\ quantity # "current")
      BY <2>3, NoneRefused DEF quantities
    <3>2. ~(conductor \notin {"massive", "stranded"})
      BY <2>3, NoneRefused DEF conductors
    <3> QED
      BY <3>1, <3>2
  <2>7. /\ Has(t, "entity_group")
        /\ RefersTo(t.fields["entity_group"], names,
                    IF quantity = "current" THEN "domain" ELSE "boundary")
    BY <2>3, ReferencePasses DEF group
  <2>8. /\ WantsDirection(d, t) <=> Has(t, "direction")
        /\ Has(t, "direction") => DirectionErrors(t.fields["direction"], names) = {}
    BY <2>3 DEF direction, ValidateCurrentDirection
  <2>9. ASSUME Has(t, "direction") PROVE DirectionPassed(t.fields["direction"], names)
    <3>1. IsValue(t.fields["direction"])
      BY <2>4, <2>9, Held
    <3>2. t.fields["direction"].type = "object"
      BY <2>4, <2>9 DEF Typed, TerminalTypes, HasType
    <3> QED
      BY <2>8, <2>9, <3>1, <3>2, DirectionPasses
  <2>10. Given(t, "quantity")
    <3>1. "quantity" \in DOMAIN TerminalTypes /\ TerminalTypes["quantity"] = "string"
      BY DEF TerminalTypes
    <3> QED
      BY <2>4, <2>5, <3>1, TypedReads
  <2>11. /\ ~UnreadableUnlessNull(t, [name |-> "string", quantity |-> "string",
                conductor_type |-> "string", entity_group |-> "string"])
         /\ ~Unreadable(t, [turns |-> "number"])
    BY <2>4, Readable DEF TerminalTypes
  <2>12. /\ ~UnreadableUnlessNull(Field(t, "direction", Null),
                [type |-> "string", input |-> "string", output |-> "string",
                 cut |-> "string"])
         /\ \A k \in {"origin", "axis", "normal"} :
              \A x \in Members(Field(t, "direction", Null), k) : Converts(x, "number")
    <3>1. CASE Has(t, "direction")
      BY <2>9, <3>1 DEF DirectionPassed, Field
    <3>2. CASE ~Has(t, "direction")
      <4>1. Field(t, "direction", Null) = Null /\ \A k : ~Has(Null, k)
        BY <3>2 DEF Field, Has, Null
      <4>2. \A k : Members(Null, k) = {}
        BY <4>1, MembersOf
      <4> QED
        BY <4>1, <4>2 DEF UnreadableUnlessNull, Given
    <3> QED
      BY <3>1, <3>2
  <2> QED
    BY <2>4, <2>5, <2>6, <2>7, <2>8, <2>9, <2>10, <2>11, <2>12
       DEF TerminalPassed, TerminalThrows, conductor
<1> QED
  BY <1>2, <1>4 DEF terminals

\* The frequency of a scenario of an MQS model.
FrequencyPassed(f) ==
  /\ IsValue(f)
  /\ f.type \in {"object", "array", "number", "integer"}
  /\ \A x \in Elements(f) : HasType(x, "number") /\ AsNumber(x) \in Int /\ AsNumber(x) > 0
  /\ f.type = "array" => Elements(f) # {}
  /\ f.type \in {"number", "integer"} => AsNumber(f) \in Int /\ AsNumber(f) > 0
  /\ f.type = "object" =>
        /\ Typed(f, SweepTypes)
        /\ \A k \in DOMAIN SweepTypes : Has(f, k)
        /\ f.fields["scale"].text \in {"linear", "log"}
        /\ f.fields["points"].type = "integer"
        /\ AsInt(f.fields["points"]) \in Nat \ {0}
        /\ AsNumber(f.fields["start"]) \in Nat \ {0}
        /\ AsNumber(f.fields["stop"]) \in Nat \ {0}
        /\ AsNumber(f.fields["start"]) <= AsNumber(f.fields["stop"])

LEMMA FrequencyPasses ==
  ASSUME NEW s, IsValue(s), FrequencyErrors(s) = {},
         LET f == Field(s, "frequency", Whole(1))
         IN  /\ Typed(f, SweepTypes)
             /\ f.type \in {"object", "array", "number", "integer"}
             /\ \A x \in Elements(f) : HasType(x, "number")
  PROVE  Has(s, "frequency") /\ FrequencyPassed(s.fields["frequency"])
<1> DEFINE f == Field(s, "frequency", Null)
           start == Number(f, "start", 1)
           stop == Number(f, "stop", 1)
           scale == NotOneOf(f, "scenarios.frequency", "scale", {"linear", "log"})
           starts == ErrorIf(start <= 0, "scenarios.frequency", "start")
           stops == ErrorIf(stop <= 0 \/ stop < start, "scenarios.frequency", "stop")
           points == ErrorIf(Integer(f, "points", 1) < 1, "scenarios.frequency", "points")
           listed == ErrorIf(\/ Elements(f) = {}
                             \/ \E x \in Elements(f) : AsNumber(x) <= 0,
                             "scenarios", "frequency")
           single == ErrorIf(AsNumber(f) <= 0, "scenarios", "frequency")
<1>1. f.type # "null"
  BY DEF FrequencyErrors
<1>2. Has(s, "frequency") /\ f = s.fields["frequency"] /\ f = Field(s, "frequency", Whole(1))
  BY <1>1 DEF Field, Null
<1>3. IsValue(f)
  BY <1>2, Held
<1>4. /\ Typed(f, SweepTypes)
      /\ f.type \in {"object", "array", "number", "integer"}
      /\ \A x \in Elements(f) : HasType(x, "number")
  BY <1>2
<1>5. /\ f.type = "array" => listed = {}
      /\ f.type \in {"number", "integer"} => single = {}
      /\ f.type = "object" => SweepErrors(f) = {}
  BY DEF FrequencyErrors
<1>6. f.type = "object" =>
        /\ \A k \in DOMAIN SweepTypes : Has(f, k)
        /\ scale = {} /\ starts = {} /\ stops = {} /\ points = {}
  <2>1. f.type = "object" =>
          /\ \A k \in DOMAIN SweepTypes : Has(f, k)
          /\ Errors({scale, starts, stops, points}) = {}
    BY <1>5 DEF SweepErrors
  <2> HIDE DEF scale, starts, stops, points
  <2> QED
    BY <2>1, NoErrors
<1>7. /\ listed = {} => Elements(f) # {} /\ \A x \in Elements(f) : ~(AsNumber(x) <= 0)
      /\ single = {} => ~(AsNumber(f) <= 0)
  BY NoneRefused
<1>8. /\ scale = {} => ~(Has(f, "scale") /\ f.fields["scale"].text \notin {"linear", "log"})
      /\ starts = {} => ~(start <= 0)
      /\ stops = {} => ~(stop <= 0 \/ stop < start)
      /\ points = {} => ~(Integer(f, "points", 1) < 1)
  BY NoneRefused DEF NotOneOf
<1> HIDE DEF f, scale, starts, stops, points, listed, single
<1>9. \A x \in Elements(f) : AsNumber(x) \in Int
  <2>1. \A x \in Elements(f) : IsValue(x)
    BY <1>3, Held
  <2> QED
    BY <2>1, <1>4, ValueTypes
<1>10. f.type \notin {"object", "array"} => AsNumber(f) \in Int
  <2>1. f.type \notin {"object", "array"} => HasType(f, "number")
    BY <1>4 DEF HasType
  <2> QED
    BY <2>1, <1>3, ValueTypes
<1>11. f.type # "array" => Elements(f) = {}
  BY ItemsOf
<1>12. \A x \in Elements(f) : AsNumber(x) > 0
  BY <1>5, <1>7, <1>9, <1>11
<1>13. f.type \in {"number", "integer"} => AsNumber(f) \in Int /\ AsNumber(f) > 0
  BY <1>5, <1>7, <1>10
<1>14. ASSUME f.type = "object"
       PROVE  /\ f.fields["scale"].text \in {"linear", "log"}
              /\ f.fields["points"].type = "integer"
              /\ AsInt(f.fields["points"]) \in Nat \ {0}
              /\ AsNumber(f.fields["start"]) \in Nat \ {0}
              /\ AsNumber(f.fields["stop"]) \in Nat \ {0}
              /\ AsNumber(f.fields["start"]) <= AsNumber(f.fields["stop"])
  <2>1. /\ DOMAIN SweepTypes = {"scale", "start", "stop", "points"}
        /\ SweepTypes["start"] = "number" /\ SweepTypes["stop"] = "number"
        /\ SweepTypes["points"] = "integer"
    BY DEF SweepTypes
  <2>2. Has(f, "scale") /\ Has(f, "start") /\ Has(f, "stop") /\ Has(f, "points")
    BY <1>6, <1>14, <2>1
  <2>3. /\ AsNumber(f.fields["start"]) \in Int /\ AsNumber(f.fields["stop"]) \in Int
        /\ f.fields["points"].type = "integer" /\ AsInt(f.fields["points"]) \in Int
    BY <1>3, <1>4, <2>1, <2>2, TypedReads
  <2>4. /\ start = AsNumber(f.fields["start"]) /\ stop = AsNumber(f.fields["stop"])
        /\ Integer(f, "points", 1) = AsInt(f.fields["points"])
    BY <2>2 DEF Number, Integer
  <2>5. f.fields["scale"].text \in {"linear", "log"}
    BY <1>6, <1>8, <1>14, <2>2
  <2>6. ~(start <= 0) /\ ~(stop <= 0 \/ stop < start) /\ ~(Integer(f, "points", 1) < 1)
    BY <1>6, <1>8, <1>14
  <2> HIDE DEF start, stop
  <2> QED
    BY <2>3, <2>4, <2>5, <2>6
<1>15. FrequencyPassed(f)
  BY <1>3, <1>4, <1>5, <1>6, <1>7, <1>9, <1>12, <1>13, <1>14 DEF FrequencyPassed
<1> QED
  BY <1>2, <1>15

\* A scenario excites declared terminals, each once.
ScenarioPassed(d, s) ==
  LET excitations == Section(s, "excitations")
  IN  /\ IsValue(s) /\ s.type = "object"
      /\ IsMqs(d) => Has(s, "frequency") /\ FrequencyPassed(s.fields["frequency"])
      /\ \A j \in DOMAIN excitations :
            /\ Has(excitations[j], "terminal") /\ Has(excitations[j], "value")
            /\ Text(excitations[j], "terminal", "") \in TerminalNames(d)
            /\ \A k \in 1 .. j - 1 :
                  Text(excitations[k], "terminal", "") # Text(excitations[j], "terminal", "")

LEMMA ExcitationPasses ==
  ASSUME NEW d, NEW excitations, NEW j, ExcitationErrors(d, excitations, j) = {}
  PROVE  /\ Has(excitations[j], "terminal") /\ Has(excitations[j], "value")
         /\ Text(excitations[j], "terminal", "") \in TerminalNames(d)
         /\ \A k \in 1 .. j - 1 :
               Has(excitations[k], "terminal") =>
                  Text(excitations[k], "terminal", "") # Text(excitations[j], "terminal", "")
<1> DEFINE e == excitations[j]
           terminal == Text(e, "terminal", "")
           missing == Missing(e, "scenarios.excitations", {"value"})
           named == ErrorIf(\/ terminal \notin TerminalNames(d)
                            \/ \E k \in 1 .. j - 1 :
                                  /\ Has(excitations[k], "terminal")
                                  /\ Text(excitations[k], "terminal", "") = terminal,
                            "scenarios.excitations", "terminal")
           phase == ErrorIf(~IsMqs(d) /\ Number(e, "phase", 0) # 0,
                            "scenarios.excitations", "phase")
<1>1. Has(e, "terminal") /\ Errors({missing, named, phase}) = {}
  BY DEF ExcitationErrors
<1>2. /\ missing = {} => Has(e, "value")
      /\ named = {} => ~(\/ terminal \notin TerminalNames(d)
                         \/ \E k \in 1 .. j - 1 :
                               /\ Has(excitations[k], "terminal")
                               /\ Text(excitations[k], "terminal", "") = terminal)
  BY NoneRefused, NoneMissing
<1> HIDE DEF missing, named, phase
<1>3. missing = {} /\ named = {}
  BY <1>1, NoErrors
<1> QED
  BY <1>1, <1>2, <1>3

LEMMA ScenariosPass ==
  ASSUME NEW d, IsValue(d), WellTyped(d), ValidateScenarios(d) = {}
  PROVE  /\ IsMqs(d) => Section(d, "scenarios") # <<>>
         /\ OwnNames(Section(d, "scenarios"))
         /\ \A s \in Members(d, "scenarios") : ScenarioPassed(d, s)
<1> DEFINE scenarios == Section(d, "scenarios")
           none == ErrorIf(IsMqs(d) /\ scenarios = <<>>, "scenarios", "")
           each == {ScenarioErrors(d, scenarios[i]) : i \in DOMAIN scenarios}
<1>1. none = {} /\ NameErrors(scenarios, "scenarios") = {} /\ Errors(each) = {}
  BY DEF ValidateScenarios
<1>2. ~(IsMqs(d) /\ scenarios = <<>>)
  BY <1>1, NoneRefused
<1>3. OwnNames(scenarios)
  BY <1>1, NamesPass DEF Section
<1>4. \A s \in Members(d, "scenarios") : ScenarioErrors(d, s) \in each
  BY DEF Members, Elements, Section
<1> HIDE DEF each, none
<1>5. ASSUME NEW s \in Members(d, "scenarios") PROVE ScenarioPassed(d, s)
  <2> DEFINE excitations == Section(s, "excitations")
             wrong == {ExcitationErrors(d, excitations, j) : j \in DOMAIN excitations}
  <2>1. ScenarioErrors(d, s) = {}
    BY <1>1, <1>4, NoErrors
  <2>2. (IsMqs(d) => FrequencyErrors(s) = {}) /\ Errors(wrong) = {}
    BY <2>1 DEF ScenarioErrors
  <2>3. \A j \in DOMAIN excitations : ExcitationErrors(d, excitations, j) \in wrong
    OBVIOUS
  <2> HIDE DEF wrong
  <2>4. \A j \in DOMAIN excitations : ExcitationErrors(d, excitations, j) = {}
    BY <2>2, <2>3, NoErrors
  <2>5. IsValue(s) /\ s.type = "object"
    BY Held DEF WellTyped, ObjectSections
  <2>6. IsMqs(d) => Has(s, "frequency") /\ FrequencyPassed(s.fields["frequency"])
    BY <2>2, <2>5, FrequencyPasses DEF WellTyped
  <2>7. DOMAIN excitations = 1 .. Len(excitations) /\ Len(excitations) \in Nat
    BY ItemsOf DEF Section
  <2> HIDE DEF excitations
  <2>8. ASSUME NEW j \in DOMAIN excitations
        PROVE  /\ Has(excitations[j], "terminal") /\ Has(excitations[j], "value")
               /\ Text(excitations[j], "terminal", "") \in TerminalNames(d)
               /\ \A k \in 1 .. j - 1 :
                     Text(excitations[k], "terminal", "") # Text(excitations[j], "terminal", "")
    <3>1. \A k \in 1 .. j - 1 : k \in DOMAIN excitations
      BY <2>7
    <3>2. \A k \in 1 .. j - 1 : Has(excitations[k], "terminal")
      BY <3>1, <2>4, ExcitationPasses
    <3> QED
      BY <3>2, <2>4, ExcitationPasses
  <2> QED
    BY <2>5, <2>6, <2>8 DEF ScenarioPassed, excitations
<1> QED
  BY <1>2, <1>3, <1>5 DEF scenarios

LEMMA ScenariosRead ==
  ASSUME NEW d, IsValue(d), WellTyped(d), ValidateSimulation(d) = {}, ValidateScenarios(d) = {},
         NEW s \in Members(d, "scenarios")
  PROVE  ~ScenarioThrows(d, s)
<1> DEFINE f == Field(s, "frequency", Whole(1))
<1>1. ScenarioPassed(d, s)
  BY ScenariosPass
<1>2. /\ Typed(s, ScenarioTypes) /\ Typed(f, SweepTypes)
      /\ f.type \in {"object", "array", "number", "integer"}
      /\ \A x \in Elements(f) : HasType(x, "number")
      /\ \A e \in Members(s, "excitations") : Typed(e, ExcitationTypes)
  BY DEF WellTyped
<1>3. ~Unreadable(s, [name |-> "string"])
  BY <1>2, Readable DEF ScenarioTypes
<1>4. \A e \in Members(s, "excitations") :
        ~Unreadable(e, [terminal |-> "string", value |-> "number", phase |-> "number"])
  BY <1>2, Readable DEF ExcitationTypes
<1>5. ~Unreadable(f, [scale |-> "string", start |-> "number",
                      stop |-> "number", points |-> "integer"])
  BY <1>2, Readable DEF SweepTypes
<1>6. \A x \in Elements(f) : Converts(x, "number")
  BY <1>2 DEF Converts
<1>7. ASSUME GetPhysicsType(d) = "magnetoquasistatics", ~HasType(f, "number"), f.type # "array"
      PROVE  \A k \in {"scale", "start", "stop", "points"} : Has(f, k)
  <2>1. IsMqs(d)
    BY <1>7, SameModel DEF IsMqs
  <2>2. Has(s, "frequency") /\ FrequencyPassed(s.fields["frequency"])
    BY <1>1, <2>1 DEF ScenarioPassed
  <2>3. f.type = "object" /\ f = s.fields["frequency"]
    BY <1>2, <1>7, <2>2 DEF HasType, Field
  <2>4. \A k \in DOMAIN SweepTypes : Has(f, k)
    BY <2>2, <2>3 DEF FrequencyPassed
  <2> QED
    BY <2>4 DEF SweepTypes
<1> HIDE DEF f
<1> QED
  BY <1>3, <1>4, <1>5, <1>6, <1>7 DEF ScenarioThrows, f

-----------------------------------------------------------------------------
(* The output section and its probes.                                      *)

\* What the probes of an accepted document are: along a line or at points.
ProbePassed(probe, dim) ==
  /\ Has(probe, "name") /\ probe.fields["name"].type = "string"
  /\ Has(probe, "entity_group") => probe.fields["entity_group"].type = "string"
  /\ ~(Has(probe, "points") <=> Has(probe, "line"))
  /\ Has(probe, "points") => \A p \in Members(probe, "points") : IsPoint(p, dim)
  /\ Has(probe, "line") =>
        LET line == probe.fields["line"]
        IN  /\ IsPoint(Field(line, "from", Null), dim) /\ IsPoint(Field(line, "to", Null), dim)
            /\ Has(line, "count") /\ line.fields["count"].type = "integer"
            /\ ~(AsInt(line.fields["count"]) < 2)

LEMMA ProbePasses ==
  ASSUME NEW probe, NEW names, NEW dim, ProbeErrors(probe, names, dim) = {}
  PROVE  ProbePassed(probe, dim)
<1> DEFINE line == probe.fields["line"]
           count == Field(line, "count", Null)
           others == {<<"output.probes", k>> : k \in DOMAIN probe.fields
                        \ {"name", "points", "line", "entity_group"}}
           name == ErrorIf(ProbeName(probe) \in {""} \cup IllFormedNames,
                           "output.probes", "name")
           group == IF Has(probe, "entity_group")
                    THEN CheckEntityGroupRef(probe, names, "domain",
                                             "output.probes", "entity_group")
                    ELSE {}
           ends == {<<"output.probes.line", k>> :
                k \in (DOMAIN line.fields \ {"from", "to", "count"})
                    \cup {e \in {"from", "to"} : ~IsPoint(Field(line, e, Null), dim)}}
           counted == ErrorIf(count.type # "integer"
                                \/ (count.type = "integer" /\ AsInt(count) < 2),
                              "output.probes.line", "count")
           listed == ErrorIf(Members(probe, "points") = {}
                        \/ \E p \in Members(probe, "points") : ~IsPoint(p, dim),
                     "output.probes", "points")
<1>1. /\ probe.type = "object"
      /\ Errors({others, name, PointErrors(probe, dim), group}) = {}
  BY DEF ProbeErrors
<1>2. name = {} => ProbeName(probe) # ""
  BY NoneRefused
<1>3. group = {} /\ Has(probe, "entity_group") => probe.fields["entity_group"].type = "string"
  BY ReferencePasses
<1>4. counted = {} => count.type = "integer" /\ ~(AsInt(count) < 2)
  BY NoneRefused
<1>5. listed = {} => \A p \in Members(probe, "points") : IsPoint(p, dim)
  BY NoneRefused
<1>6. ends = {} => IsPoint(Field(line, "from", Null), dim) /\ IsPoint(Field(line, "to", Null), dim)
  OBVIOUS
<1>13. PointErrors(probe, dim) = {} => ~(Has(probe, "points") <=> Has(probe, "line"))
  <2>1. ASSUME Has(probe, "points") <=> Has(probe, "line")
        PROVE  Has(probe, "points") = Has(probe, "line")
    BY <2>1 DEF Has
  <2>2. Has(probe, "points") = Has(probe, "line") => PointErrors(probe, dim) # {}
    BY DEF PointErrors
  <2> QED
    BY <2>1, <2>2
<1>7. PointErrors(probe, dim) = {} =>
        /\ Has(probe, "line") => line.type = "object" /\ ends = {} /\ counted = {}
        /\ ~Has(probe, "line") => listed = {}
  BY DEF PointErrors, LineErrors
<1> HIDE DEF others, name, group, ends, counted, listed
<1>8. name = {} /\ PointErrors(probe, dim) = {} /\ group = {}
  BY <1>1, NoErrors
<1>9. Has(probe, "name") /\ probe.fields["name"].type = "string"
  BY <1>2, <1>8 DEF ProbeName, Field, Null
<1>10. Has(probe, "points") => \A p \in Members(probe, "points") : IsPoint(p, dim)
  BY <1>5, <1>7, <1>8, <1>13
<1>11. ASSUME Has(probe, "line")
       PROVE  /\ IsPoint(Field(line, "from", Null), dim) /\ IsPoint(Field(line, "to", Null), dim)
              /\ Has(line, "count") /\ line.fields["count"].type = "integer"
              /\ ~(AsInt(line.fields["count"]) < 2)
  <2>1. ends = {} /\ counted = {}
    BY <1>7, <1>8, <1>11
  <2> QED
    BY <1>4, <1>6, <2>1 DEF Field, Null
<1> HIDE DEF line
<1> QED
  BY <1>3, <1>8, <1>9, <1>10, <1>11, <1>13 DEF ProbePassed, line

LEMMA ProbeReads ==
  ASSUME NEW probe, NEW dim, ProbePassed(probe, dim)
  PROVE  ~ProbeThrows(probe)
<1>1. /\ ~UnreadableUnlessNull(probe, [entity_group |-> "string"])
      /\ ~Unreadable(probe, [name |-> "string"])
  BY DEF ProbePassed, UnreadableUnlessNull, Unreadable, Given, Converts, HasType
<1>2. CASE Has(probe, "points")
  <2>1. \A p \in Members(probe, "points") :
          p.type = "array" /\ \A x \in Elements(p) : Converts(x, "number")
    BY <1>2, PointReads DEF ProbePassed
  <2> QED
    BY <2>1, <1>1, <1>2 DEF ProbeThrows, ProbePassed
<1>3. CASE ~Has(probe, "points")
  <2> DEFINE line == Field(probe, "line", Null)
  <2>1. Has(probe, "line") /\ line = probe.fields["line"]
    BY <1>3 DEF ProbePassed, Field
  <2>2. \A k \in {"from", "to"} :
          /\ Field(line, k, Null).type = "array"
          /\ \A x \in Elements(Field(line, k, Null)) : Converts(x, "number")
    BY <2>1, PointReads DEF ProbePassed
  <2>3. Has(line, "count") /\ line.fields["count"].type = "integer"
    BY <2>1 DEF ProbePassed
  <2>4. ~Unreadable(line, [count |-> "integer"])
    BY <2>3 DEF Unreadable, Converts, HasType
  <2>5. Has(probe, "name")
    BY DEF ProbePassed
  <2> QED
    BY <2>2, <2>3, <2>4, <2>5, <1>1, <1>3 DEF ProbeThrows
<1> QED
  BY <1>2, <1>3

LEMMA FormatReads ==
  ASSUME NEW target, NEW format \in DOMAIN FormatKeys, ValidateFormat(target, format) = {}
  PROVE  /\ target.type = "object"
         /\ \A k : Has(target, k) => target.fields[k].type = "string"
         /\ ~UnreadableUnlessNull(target, [directory |-> "string", version |-> "string",
                                           file |-> "string"])
<1> DEFINE section == "output." \o format
           path == IF format = "hdf5" THEN "file" ELSE "directory"
           others == {<<section, k>> : k \in DOMAIN target.fields \ FormatKeys[format]}
           types == CheckFieldTypes(target, section, [k \in FormatKeys[format] |-> "string"])
           paths == CheckPath(target, section, path, format = "hdf5")
           version == ErrorIf(/\ format = "gmsh" /\ Has(target, "version")
                              /\ target.fields["version"].type = "string"
                              /\ target.fields["version"].text \notin {"2.2", "4.1"},
                              section, "version")
<1>1. target.type = "object" /\ Errors({others, types, paths, version}) = {}
  BY DEF ValidateFormat
<1>2. others = {} => \A k : Has(target, k) => k \in FormatKeys[format]
  BY DEF Has
<1>3. types = {} => Typed(target, [k \in FormatKeys[format] |-> "string"])
  BY NoTypeErrors
<1> HIDE DEF others, types, paths, version
<1>4. others = {} /\ types = {}
  BY <1>1, NoErrors
<1>5. \A k : Has(target, k) => HasType(target.fields[k], "string")
  BY <1>2, <1>3, <1>4 DEF Typed
<1>8. \A k : Has(target, k) => target.fields[k].type = "string"
  BY <1>5 DEF HasType
<1>6. \A k : Has(target, k) => Converts(target.fields[k], "string")
  BY <1>5 DEF Converts
<1>7. ~UnreadableUnlessNull(target, [directory |-> "string", version |-> "string",
                                     file |-> "string"])
  BY <1>6 DEF UnreadableUnlessNull, Given
<1> QED
  BY <1>1, <1>7, <1>8

LEMMA OutputPasses ==
  ASSUME NEW d, ValidateOutput(d) = {}, NEW mesh0, NEW names, ValidateProbes(d, mesh0, names) = {}
  PROVE  LET output == Field(d, "output", Obj(<<>>))
         IN  /\ output.type = "object" /\ Typed(output, OutputTypes)
             /\ \A f \in {"paraview", "gmsh", "hdf5"} :
                   Has(output, f) => ValidateFormat(output.fields[f], f) = {}
             /\ \A p \in Members(output, "probes") : \E dim : ProbePassed(p, dim)
<1> DEFINE output == d.fields["output"]
           formats == DOMAIN output.fields \cap DOMAIN FormatKeys
           each == {ValidateFormat(output.fields[f], f) : f \in formats}
           others == {<<"output", k>> : k \in DOMAIN output.fields \
                        (DOMAIN OutputTypes \cup DOMAIN FormatKeys \cup {"probes"})}
           types == CheckFieldTypes(output, "output", OutputTypes)
           paths == CheckPath(output, "output", "directory", FALSE)
<1>1. CASE ~Has(d, "output")
  <2> DEFINE empty == Obj(<<>>)
  <2>1. Field(d, "output", Obj(<<>>)) = empty
    BY <1>1 DEF Field
  <2>2. empty.type = "object" /\ \A k : ~Has(empty, k)
    <3>1. DOMAIN <<>> = {}
      OBVIOUS
    <3> QED
      BY <3>1 DEF Obj, Has
  <2> HIDE DEF empty
  <2>3. Members(empty, "probes") = {}
    BY <2>2, MembersOf
  <2> QED
    BY <2>1, <2>2, <2>3 DEF Typed
<1>2. CASE Has(d, "output")
  <2>1. output.type = "object" /\ Errors({others, types, paths, Errors(each)}) = {}
    BY <1>2 DEF ValidateOutput
  <2>2. types = {} => Typed(output, OutputTypes)
    BY NoTypeErrors
  <2>3. \A f \in formats : ValidateFormat(output.fields[f], f) \in each
    OBVIOUS
  <2> HIDE DEF others, types, paths, each
  <2>4. types = {} /\ Errors(each) = {}
    BY <2>1, NoErrors
  <2>5. \A f \in formats : ValidateFormat(output.fields[f], f) = {}
    BY <2>3, <2>4, NoErrors
  <2>6. DOMAIN FormatKeys = {"paraview", "gmsh", "hdf5"}
    BY DEF FormatKeys
  <2>7. ASSUME NEW f \in {"paraview", "gmsh", "hdf5"}, Has(output, f)
        PROVE  ValidateFormat(output.fields[f], f) = {}
    BY <2>5, <2>6, <2>7 DEF Has
  <2>8. Typed(output, OutputTypes)
    BY <2>2, <2>4
  <2>9. Field(d, "output", Obj(<<>>)) = output /\ Field(d, "output", Null) = output
    BY <1>2 DEF Field
  <2> HIDE DEF output
  <2>10. \A p \in Members(output, "probes") : \E dim : ProbePassed(p, dim)
    <3>1. CASE ~Has(output, "probes")
      BY <3>1, MembersOf
    <3>2. CASE Has(output, "probes")
      <4> DEFINE probes == Items(Field(output, "probes", Null))
                 dim == IF mesh0 # NoMesh THEN mesh0.dim
                        ELSE IF GeometryType(d) = "3d" THEN 3 ELSE 2
                 wrong == {ProbeErrors(probes[i], names, dim) : i \in DOMAIN probes}
                 array == ErrorIf(output.fields["probes"].type # "array", "output", "probes")
                 twice == ErrorIf(\E i, j \in DOMAIN probes :
                        /\ i < j
                        /\ ProbeName(probes[i]) = ProbeName(probes[j])
                        /\ ProbeName(probes[i]) # "", "output.probes", "name")
      <4>1. Errors({array, twice, Errors(wrong)}) = {}
        BY <2>9, <3>2 DEF ValidateProbes
      <4>2. \A i \in DOMAIN probes : ProbeErrors(probes[i], names, dim) \in wrong
        OBVIOUS
      <4> HIDE DEF wrong, array, twice
      <4>3. Errors(wrong) = {}
        BY <4>1, NoErrors
      <4>4. \A i \in DOMAIN probes : ProbeErrors(probes[i], names, dim) = {}
        BY <4>2, <4>3, NoErrors
      <4>5. \A p \in Members(output, "probes") : ProbeErrors(p, names, dim) = {}
        BY <4>4 DEF Members, Elements
      <4> QED
        BY <4>5, ProbePasses
    <3> QED
      BY <3>1, <3>2
  <2> QED
    BY <2>1, <2>7, <2>8, <2>9, <2>10
<1> QED
  BY <1>1, <1>2

LEMMA OutputReads ==
  ASSUME NEW d, ValidateOutput(d) = {}, NEW mesh0, NEW names, ValidateProbes(d, mesh0, names) = {}
  PROVE  ~OutputThrows(d)
<1> DEFINE output == Field(d, "output", Obj(<<>>))
<1>1. /\ output.type = "object" /\ Typed(output, OutputTypes)
      /\ \A f \in {"paraview", "gmsh", "hdf5"} :
            Has(output, f) => ValidateFormat(output.fields[f], f) = {}
      /\ \A p \in Members(output, "probes") : \E dim : ProbePassed(p, dim)
  BY OutputPasses
<1> HIDE DEF output
<1>2. ASSUME NEW f \in {"paraview", "gmsh", "hdf5"}, Has(output, f)
      PROVE  /\ output.fields[f].type = "object"
             /\ ~UnreadableUnlessNull(output.fields[f], [directory |-> "string",
                      version |-> "string", file |-> "string"])
  <2>1. f \in DOMAIN FormatKeys
    BY DEF FormatKeys
  <2> QED
    BY <1>1, <1>2, <2>1, FormatReads
<1>3. ~UnreadableUnlessNull(output, [directory |-> "string",
              export_fields_for_coupling_matrix |-> "boolean"])
  BY <1>1, Readable DEF OutputTypes
<1>4. \A p \in Members(output, "probes") : ~ProbeThrows(p)
  BY <1>1, ProbeReads
<1> QED
  BY <1>1, <1>2, <1>3, <1>4 DEF OutputThrows, output

-----------------------------------------------------------------------------
(* What a pass of the validator has established of a document.             *)

LEMMA ParserReads ==
  ASSUME NEW d, IsValue(d), NEW m, Passes(d, m)
  PROVE  Throws(d) = {}
<1>1. /\ WellTyped(d) /\ ValidateOutput(d) = {}
      /\ ValidateSimulation(d) = {}
      /\ ValidateEntityGroups(NoNames, d, m) = {}
      /\ ValidateProbes(d, m, Names(d, m)) = {}
      /\ ValidateBoundaries(d, Names(d, m)) = {}
      /\ ValidateTerminals(d, Names(d, m)) = {}
      /\ ValidateScenarios(d) = {}
  BY TypesPass, ChecksPass DEF Passes
<1>2. ~SimulationThrows(d) /\ ~OutputThrows(d)
  BY <1>1, SimulationReads, OutputReads
<1>3. \A g \in Members(d, "entity_groups") : ~GroupThrows(g)
  BY <1>1, GroupsRead
<1>4. \A r \in Members(d, "regions") : ~RegionThrows(r)
  BY <1>1, RegionsRead
<1>5. \A x \in Members(d, "materials") : ~MaterialThrows(x)
  BY <1>1, MaterialsRead
<1>6. \A t \in Members(d, "terminals") : ~TerminalThrows(t)
  BY <1>1, TerminalsPass
<1>7. \A b \in Members(d, "boundary_conditions") : ~BoundaryThrows(b)
  BY <1>1, BoundariesPass
<1>8. \A s \in Members(d, "scenarios") : ~ScenarioThrows(d, s)
  BY <1>1, ScenariosRead
<1> QED
  BY <1>2, <1>3, <1>4, <1>5, <1>6, <1>7, <1>8 DEF Throws, AnyItem

-----------------------------------------------------------------------------
(* What the parser makes of named entries, and the names that are found.   *)

DecodedGroup(g) ==
  [Dim |-> Integer(g, "dim", 0),
   AttributeIds |-> IntegersOf(Field(g, "attribute_ids", Null))]

LEMMA GroupsByName ==
  ASSUME NEW d, OwnNames(Section(d, "entity_groups"))
  PROVE  /\ DOMAIN GetEntityGroups(d) = {GroupName(g) : g \in Members(d, "entity_groups")}
         /\ \A g \in Members(d, "entity_groups") :
               /\ GetEntityGroups(d)[GroupName(g)] = DecodedGroup(g)
               /\ GroupAttributes(d, GroupName(g)) = DecodedGroup(g).AttributeIds
<1> DEFINE items == Section(d, "entity_groups")
<1>1. Members(d, "entity_groups") = {items[i] : i \in DOMAIN items}
  BY DEF Members, Elements, Section
<1>2. /\ DOMAIN GetEntityGroups(d) = {Text(items[i], "name", "") : i \in DOMAIN items}
      /\ \A i \in DOMAIN items :
            GetEntityGroups(d)[Text(items[i], "name", "")]
              = DecodedGroup(items[FirstNamed(items, Text(items[i], "name", ""))])
  BY DEF GetEntityGroups, ByName, DecodedGroup
<1>3. \A i \in DOMAIN items :
        GroupAttributes(d, Text(items[i], "name", ""))
          = DecodedGroup(items[FirstNamed(items, Text(items[i], "name", ""))]).AttributeIds
  BY DEF GroupAttributes, GroupName, DecodedGroup
<1>4. \A i \in DOMAIN items : FirstNamed(items, Text(items[i], "name", "")) = i
  BY DEF OwnNames
<1> HIDE DEF items
<1>5. DOMAIN GetEntityGroups(d) = {GroupName(g) : g \in Members(d, "entity_groups")}
  BY <1>1, <1>2 DEF GroupName
<1>6. ASSUME NEW g \in Members(d, "entity_groups")
      PROVE  /\ GetEntityGroups(d)[GroupName(g)] = DecodedGroup(g)
             /\ GroupAttributes(d, GroupName(g)) = DecodedGroup(g).AttributeIds
  <2>1. PICK i \in DOMAIN items : g = items[i]
    BY <1>1
  <2>2. /\ GroupName(g) = Text(items[i], "name", "")
        /\ FirstNamed(items, Text(items[i], "name", "")) = i
    BY <1>4, <2>1 DEF GroupName
  <2> QED
    BY <1>2, <1>3, <2>1, <2>2
<1> QED
  BY <1>5, <1>6

\* The group a reference of an accepted document names.
LEMMA ReferredGroup ==
  ASSUME NEW d, NEW m, NEW node, NEW role, RefersTo(node, Names(d, m), role)
  PROVE  \E g \in Members(d, "entity_groups") :
            /\ GroupName(g) = node.text
            /\ role = "boundary" => IsBoundaryGroup(d, m, g)
<1> DEFINE named == {g \in Members(d, "entity_groups") : GroupName(g) # ""}
           boundary == {g \in named : IsBoundaryGroup(d, m, g)}
<1>1. /\ Names(d, m).names = {GroupName(g) : g \in named}
      /\ Names(d, m).boundary = {GroupName(g) : g \in boundary}
  BY DEF Names, EntityGroupNames, Cleared, NoNames
<1>2. /\ node.text \in Names(d, m).names
      /\ role = "boundary" => node.text \in Names(d, m).boundary
  BY DEF RefersTo
<1> QED
  BY <1>1, <1>2

LEMMA ReferenceFound ==
  ASSUME NEW d, NEW m, OwnNames(Section(d, "entity_groups")),
         \A g \in Members(d, "entity_groups") : GroupPassed(d, m, g),
         NEW node, NEW role, RefersTo(node, Names(d, m), role)
  PROVE  /\ node.type = "string"
         /\ node.text \in DOMAIN GetEntityGroups(d)
         /\ role = "boundary" => GetEntityGroups(d)[node.text].Dim = MeshDim(d, m) - 1
<1>1. PICK g \in Members(d, "entity_groups") :
         /\ GroupName(g) = node.text
         /\ role = "boundary" => IsBoundaryGroup(d, m, g)
  BY ReferredGroup
<1>2. /\ node.text \in DOMAIN GetEntityGroups(d)
      /\ GetEntityGroups(d)[node.text] = DecodedGroup(g)
  BY <1>1, GroupsByName
<1>3. DecodedGroup(g).Dim = Integer(g, "dim", 0)
  BY DEF DecodedGroup
<1>4. IsBoundaryGroup(d, m, g) => Integer(g, "dim", 0) = MeshDim(d, m) - 1
  BY DEF IsBoundaryGroup
<1>5. node.type = "string"
  BY DEF RefersTo
<1> QED
  BY <1>1, <1>2, <1>3, <1>4, <1>5

DecodedTerminal(t) ==
  [DriveQuantity   |-> ParseEnum(t, "quantity", "voltage", {"voltage", "current"}),
   Conductor       |-> ParseEnum(t, "conductor_type", "massive", {"massive", "stranded"}),
   EntityGroupName |-> GetText(t, "entity_group", ""),
   Turns           |-> Number(t, "turns", 100),
   Direction       |-> IF Has(t, "direction")
                       THEN GetCurrentDirection(t.fields["direction"])
                       ELSE NoDirection]

LEMMA TerminalsByName ==
  ASSUME NEW d, OwnNames(Section(d, "terminals"))
  PROVE  /\ DOMAIN GetTerminals(d) = {Text(t, "name", "") : t \in Members(d, "terminals")}
         /\ \A t \in Members(d, "terminals") :
               GetTerminals(d)[Text(t, "name", "")] = DecodedTerminal(t)
<1> DEFINE items == Section(d, "terminals")
<1>1. Members(d, "terminals") = {items[i] : i \in DOMAIN items}
  BY DEF Members, Elements, Section
<1>2. /\ DOMAIN GetTerminals(d) = {Text(items[i], "name", "") : i \in DOMAIN items}
      /\ \A i \in DOMAIN items :
            GetTerminals(d)[Text(items[i], "name", "")]
              = DecodedTerminal(items[FirstNamed(items, Text(items[i], "name", ""))])
  BY DEF GetTerminals, ByName, DecodedTerminal
<1>3. \A i \in DOMAIN items : FirstNamed(items, Text(items[i], "name", "")) = i
  BY DEF OwnNames
<1> HIDE DEF items
<1>4. DOMAIN GetTerminals(d) = {Text(t, "name", "") : t \in Members(d, "terminals")}
  BY <1>1, <1>2
<1>5. ASSUME NEW t \in Members(d, "terminals")
      PROVE  GetTerminals(d)[Text(t, "name", "")] = DecodedTerminal(t)
  <2>1. PICK i \in DOMAIN items : t = items[i]
    BY <1>1
  <2>2. FirstNamed(items, Text(items[i], "name", "")) = i
    BY <1>3, <2>1
  <2> QED
    BY <1>2, <2>1, <2>2
<1> QED
  BY <1>4, <1>5

DecodedMaterial(m) ==
  LET properties == Field(m, "properties", Null)
  IN  [Conductivity    |-> Number(properties, "sigma", 0),
       RelPermittivity |-> Number(properties, "epsilon_r", 100),
       RelPermeability |-> Number(properties, "mu_r", 100)]

LEMMA MaterialsByName ==
  ASSUME NEW d, OwnNames(Section(d, "materials"))
  PROVE  /\ DOMAIN GetMaterials(d) = {Text(m, "name", "") : m \in Members(d, "materials")}
         /\ \A m \in Members(d, "materials") :
               /\ GetMaterials(d)[Text(m, "name", "")] = DecodedMaterial(m)
               /\ Has(m, "properties") =>
                    Conductivities(d, Text(m, "name", "")) = {DecodedMaterial(m).Conductivity}
<1> DEFINE items == Section(d, "materials")
<1>1. Members(d, "materials") = {items[i] : i \in DOMAIN items}
  BY DEF Members, Elements, Section
<1>2. /\ DOMAIN GetMaterials(d) = {Text(items[i], "name", "") : i \in DOMAIN items}
      /\ \A i \in DOMAIN items :
            GetMaterials(d)[Text(items[i], "name", "")]
              = DecodedMaterial(items[FirstNamed(items, Text(items[i], "name", ""))])
  BY DEF GetMaterials, ByName, DecodedMaterial
<1>3. \A i \in DOMAIN items : FirstNamed(items, Text(items[i], "name", "")) = i
  BY DEF OwnNames
<1>4. \A i \in DOMAIN items :
         LET first == items[FirstNamed(items, Text(items[i], "name", ""))]
         IN  Has(first, "properties") =>
               Conductivities(d, Text(items[i], "name", ""))
                 = {Number(first.fields["properties"], "sigma", 0)}
  BY DEF Conductivities
<1> HIDE DEF items
<1>5. \A m : Has(m, "properties") =>
               DecodedMaterial(m).Conductivity = Number(m.fields["properties"], "sigma", 0)
  BY DEF DecodedMaterial, Field
<1>6. DOMAIN GetMaterials(d) = {Text(m, "name", "") : m \in Members(d, "materials")}
  BY <1>1, <1>2
<1>7. ASSUME NEW m \in Members(d, "materials")
      PROVE  /\ GetMaterials(d)[Text(m, "name", "")] = DecodedMaterial(m)
             /\ Has(m, "properties") =>
                  Conductivities(d, Text(m, "name", "")) = {DecodedMaterial(m).Conductivity}
  <2>1. PICK i \in DOMAIN items : m = items[i]
    BY <1>1
  <2>2. FirstNamed(items, Text(items[i], "name", "")) = i
    BY <1>3, <2>1
  <2>3. GetMaterials(d)[Text(m, "name", "")] = DecodedMaterial(m)
    BY <1>2, <2>1, <2>2
  <2>4. Has(m, "properties") =>
          Conductivities(d, Text(m, "name", "")) = {Number(m.fields["properties"], "sigma", 0)}
    BY <1>4, <2>1, <2>2
  <2> QED
    BY <1>5, <2>3, <2>4
<1> QED
  BY <1>6, <1>7


-----------------------------------------------------------------------------
(* Materials and regions.                                                  *)

CoefficientKey(d) == IF PhysicsType(d) = "electrostatics" THEN "epsilon_r" ELSE "mu_r"

LEMMA MaterialsPass ==
  ASSUME NEW d, IsValue(d), WellTyped(d), ValidateSimulation(d) = {}, ValidateMaterials(d) = {}
  PROVE  /\ OwnNames(Section(d, "materials"))
         /\ \A x \in Members(d, "materials") :
               LET properties == Field(x, "properties", Null)
               IN  /\ IsValue(x) /\ Has(x, "properties") /\ IsValue(properties)
                   /\ Number(properties, CoefficientKey(d), 0) > 0
                   /\ Number(properties, "sigma", 0) \in Nat
<1> DEFINE each == {MaterialErrors(d, x) : x \in Members(d, "materials")}
<1>1. NameErrors(Section(d, "materials"), "materials") = {} /\ Errors(each) = {}
  BY DEF ValidateMaterials
<1>2. OwnNames(Section(d, "materials"))
  BY <1>1, NamesPass DEF Section
<1>3. \A x \in Members(d, "materials") : MaterialErrors(d, x) \in each
  OBVIOUS
<1> HIDE DEF each
<1>4. Magnetic(d) \/ PhysicsType(d) = "electrostatics"
  BY SimulationPasses DEF Magnetic, PhysicsTypes
<1>5. ASSUME NEW x \in Members(d, "materials")
      PROVE  LET properties == Field(x, "properties", Null)
             IN  /\ IsValue(x) /\ Has(x, "properties") /\ IsValue(properties)
                 /\ Number(properties, CoefficientKey(d), 0) > 0
                 /\ Number(properties, "sigma", 0) \in Nat
  <2> DEFINE properties == Field(x, "properties", Null)
             key == CoefficientKey(d)
             low == ErrorIf(/\ Magnetic(d) \/ PhysicsType(d) = "electrostatics"
                            /\ Number(properties, key, 0) <= 0,
                            "materials.properties", key)
             negative == ErrorIf(Number(properties, "sigma", 0) < 0,
                                 "materials.properties", "sigma")
  <2>1. MaterialErrors(d, x) = {}
    BY <1>1, <1>3, NoErrors
  <2>2. Has(x, "properties") /\ low = {} /\ negative = {}
    BY <2>1 DEF MaterialErrors, CoefficientKey
  <2>3. /\ ~(/\ Magnetic(d) \/ PhysicsType(d) = "electrostatics"
             /\ Number(properties, key, 0) <= 0)
        /\ ~(Number(properties, "sigma", 0) < 0)
    BY <2>2, NoneRefused
  <2> HIDE DEF low, negative
  <2>4. IsValue(x)
    BY Held
  <2>5. IsValue(properties)
    BY <2>4, Held
  <2>6. Typed(properties, PropertyTypes)
    BY DEF WellTyped
  <2>7. key \in {"epsilon_r", "mu_r"}
    BY DEF CoefficientKey
  <2> HIDE DEF properties, key
  <2>8. /\ DOMAIN PropertyTypes = {"sigma", "epsilon_r", "mu_r"}
        /\ \A k \in {"sigma", "epsilon_r", "mu_r"} : PropertyTypes[k] = "number"
    BY DEF PropertyTypes
  <2>9. \A k \in {"sigma", "epsilon_r", "mu_r"} :
          Has(properties, k) => AsNumber(properties.fields[k]) \in Int
    BY <2>5, <2>6, <2>8, TypedReads
  <2>10. \A k \in {"sigma", "epsilon_r", "mu_r"} : Number(properties, k, 0) \in Int
    BY <2>9 DEF Number
  <2>11. Number(properties, "sigma", 0) \in Int /\ Number(properties, key, 0) \in Int
    BY <2>7, <2>10
  <2>12. Number(properties, "sigma", 0) \in Nat /\ Number(properties, key, 0) > 0
    BY <2>3, <2>11, <1>4
  <2> QED
    BY <2>2, <2>4, <2>5, <2>12 DEF properties, key
<1> QED
  BY <1>2, <1>5

\* What a region of an accepted document is.
RegionPassed(d, m, i) ==
  LET regions == Section(d, "regions")
      region == regions[i]
  IN  /\ IsValue(region) /\ Typed(region, RegionTypes)
      /\ Has(region, "entity_group")
      /\ RefersTo(region.fields["entity_group"], Names(d, m), "domain")
      /\ Text(region, "material", "") \in MaterialNames(d)
      /\ AttributesOf(d, region) \cap Claimed(d, regions, i) = {}
      /\ Text(region, "current_constraint", "none") \in {"none", "open"}
      /\ IsOpen(region) =>
            /\ IsMqs(d)
            /\ \A sigma \in Conductivities(d, Text(region, "material", "")) : ~(sigma <= 0)
            /\ AttributesOf(d, region) \cap MassiveTerminalAttributes(d) = {}

LEMMA RegionsPass ==
  ASSUME NEW d, IsValue(d), WellTyped(d), NEW m, ValidateRegions(d, m, Names(d, m)) = {}
  PROVE  /\ \A i \in DOMAIN Section(d, "regions") : RegionPassed(d, m, i)
         /\ Has(d, "regions") /\ m # NoMesh =>
               m.attributes \subseteq
                    UNION {AttributesOf(d, r) : r \in Members(d, "regions")}
<1> DEFINE regions == Section(d, "regions")
           names == Names(d, m)
           each == {RegionErrors(d, names, regions, i) : i \in DOMAIN regions}
<1>1. CASE ~Has(d, "regions")
  <2>1. Field(d, "regions", Null) = Null
    BY <1>1 DEF Field
  <2>2. DOMAIN regions = {}
    BY <2>1 DEF Section, Items, Null
  <2> QED
    BY <1>1, <2>2
<1>2. CASE Has(d, "regions")
  <2>1. Errors(each) = {} /\ ValidateDomainCoverage(d, m) = {}
    BY <1>2 DEF ValidateRegions
  <2>2. m # NoMesh => m.attributes \subseteq
                    UNION {AttributesOf(d, r) : r \in Members(d, "regions")}
    BY <2>1, NoneRefused DEF ValidateDomainCoverage
  <2>3. \A i \in DOMAIN regions : RegionErrors(d, names, regions, i) \in each
    OBVIOUS
  <2>4. \A i \in DOMAIN regions : regions[i] \in Members(d, "regions")
    BY DEF Members, Elements, Section
  <2> HIDE DEF each, regions, names
  <2>5. ASSUME NEW i \in DOMAIN regions
        PROVE  LET region == regions[i]
               IN  /\ IsValue(region) /\ Typed(region, RegionTypes)
                   /\ Has(region, "entity_group")
                   /\ RefersTo(region.fields["entity_group"], names, "domain")
                   /\ Text(region, "material", "") \in MaterialNames(d)
                   /\ AttributesOf(d, region) \cap Claimed(d, regions, i) = {}
                   /\ Text(region, "current_constraint", "none") \in {"none", "open"}
                   /\ IsOpen(region) =>
                        /\ IsMqs(d)
                        /\ \A sigma \in Conductivities(d, Text(region, "material", "")) :
                                ~(sigma <= 0)
                        /\ AttributesOf(d, region) \cap MassiveTerminalAttributes(d) = {}
    <3> DEFINE region == regions[i]
               group == CheckEntityGroupRef(region, names, "domain", "regions", "entity_group")
               unknown == Text(region, "material", "") \notin MaterialNames(d)
               material == ErrorIf(unknown, "regions", "material")
               taken == AttributesOf(d, region) \cap Claimed(d, regions, i) # {}
               overlap == ErrorIf(taken, "regions", "entity_group")
               constraint == NotOneOf(region, "regions", "current_constraint", {"none", "open"})
               sealed == OpenRegionErrors(d, regions, i)
               open == IF IsOpen(region) THEN sealed ELSE {}
    <3>1. RegionErrors(d, names, regions, i) = {}
      BY <2>1, <2>3, NoErrors
    <3>2. Errors({group, material, overlap, constraint, open}) = {}
      BY <3>1 DEF RegionErrors
    <3>3. /\ material = {} => ~unknown
          /\ overlap = {} => ~taken
      BY NoneRefused
    <3>4. group = {} => /\ Has(region, "entity_group")
                        /\ RefersTo(region.fields["entity_group"], names, "domain")
      BY ReferencePasses
    <3>5. constraint = {} => ~(/\ Has(region, "current_constraint")
                               /\ region.fields["current_constraint"].text \notin {"none", "open"})
      BY NoneRefused DEF NotOneOf
    <3>6. open = {} /\ IsOpen(region) => sealed = {}
      OBVIOUS
    <3>7. sealed = {} =>
            /\ IsMqs(d)
            /\ \A sigma \in Conductivities(d, Text(region, "material", "")) : ~(sigma <= 0)
            /\ AttributesOf(d, region) \cap MassiveTerminalAttributes(d) = {}
      <4> DEFINE constrained == MassiveTerminalAttributes(d)
                    \cup UNION {AttributesOf(d, regions[j]) :
                            j \in {k \in 1 .. i - 1 : IsOpen(regions[k])}}
                 broken == \/ ~IsMqs(d)
                           \/ \E sigma \in Conductivities(d, Text(region, "material", "")) :
                                  sigma <= 0
                           \/ AttributesOf(d, region) \cap constrained # {}
      <4>1. sealed = ErrorIf(broken, "regions", "current_constraint")
        BY DEF OpenRegionErrors
      <4>2. sealed = {} => ~broken
        BY <4>1, NoneRefused
      <4> QED
        BY <4>2
    <3> HIDE DEF group, material, overlap, constraint, sealed, open, unknown, taken
    <3>8. group = {} /\ material = {} /\ overlap = {} /\ constraint = {} /\ open = {}
      BY <3>2, NoErrors
    <3>9. Text(region, "current_constraint", "none") \in {"none", "open"}
      BY <3>5, <3>8 DEF Text
    <3>10. IsValue(region) /\ Typed(region, RegionTypes)
      BY <2>4, Held DEF WellTyped
    <3>11. /\ Text(region, "material", "") \in MaterialNames(d)
           /\ AttributesOf(d, region) \cap Claimed(d, regions, i) = {}
      BY <3>3, <3>8 DEF unknown, taken
    <3> QED
      BY <3>4, <3>6, <3>7, <3>8, <3>9, <3>10, <3>11
  <2> QED
    BY <2>2, <2>5 DEF RegionPassed, regions, names
<1> QED
  BY <1>1, <1>2

-----------------------------------------------------------------------------
(* Setup.                                                                  *)

LEMMA TextReads ==
  ASSUME NEW o, NEW k, Has(o, k), o.fields[k].type = "string"
  PROVE  \A f : GetText(o, k, f) = o.fields[k].text
<1>1. o.fields[k] # Null
  BY DEF Null
<1> QED
  BY <1>1 DEF GetText, Given

LEMMA DirectionReads ==
  ASSUME NEW o, NEW names, DirectionPassed(o, names)
  PROVE  LET direction == GetCurrentDirection(o)
         IN  /\ direction # NoDirection
             /\ direction.Type = o.fields["type"].text
             /\ direction.Type = "electrodes" =>
                  /\ direction.Input = o.fields["input"].text
                  /\ direction.Output = o.fields["output"].text
             /\ direction.Type = "cut" => direction.Cut = o.fields["cut"].text
<1> DEFINE direction == GetCurrentDirection(o)
<1>1. /\ Has(o, "type") /\ o.fields["type"].type = "string"
      /\ o.fields["type"].text \in {"azimuthal", "electrodes", "cut"}
  BY DEF DirectionPassed
<1>2. direction.Type = o.fields["type"].text
  <2>1. GetText(o, "type", "azimuthal") = o.fields["type"].text
    BY <1>1, TextReads
  <2>2. ParseEnum(o, "type", "azimuthal", {"azimuthal", "electrodes", "cut"})
          = o.fields["type"].text
    BY <1>1, <2>1 DEF ParseEnum
  <2> QED
    BY <2>2 DEF GetCurrentDirection
<1>3. direction # NoDirection
  <2>1. NoDirection.Type = "none"
    BY DEF NoDirection
  <2> QED
    BY <1>1, <1>2, <2>1
<1>4. direction.Type = "electrodes" =>
        /\ direction.Input = o.fields["input"].text
        /\ direction.Output = o.fields["output"].text
  <2>1. direction.Type = "electrodes" =>
          \A k \in {"input", "output"} : Has(o, k) /\ o.fields[k].type = "string"
    BY <1>2 DEF DirectionPassed, RefersTo
  <2>2. direction.Type = "electrodes" =>
          \A k \in {"input", "output"} : GetText(o, k, "") = o.fields[k].text
    BY <2>1, TextReads
  <2>3. direction.Input = GetText(o, "input", "") /\ direction.Output = GetText(o, "output", "")
    BY DEF GetCurrentDirection
  <2> HIDE DEF direction
  <2> QED
    BY <2>2, <2>3
<1>5. direction.Type = "cut" => direction.Cut = o.fields["cut"].text
  <2>1. direction.Type = "cut" => Has(o, "cut") /\ o.fields["cut"].type = "string"
    BY <1>2 DEF DirectionPassed, RefersTo
  <2>2. direction.Type = "cut" => GetText(o, "cut", "") = o.fields["cut"].text
    BY <2>1, TextReads
  <2>3. direction.Cut = GetText(o, "cut", "")
    BY DEF GetCurrentDirection
  <2> HIDE DEF direction
  <2> QED
    BY <2>2, <2>3
<1> QED
  BY <1>2, <1>3, <1>4, <1>5

LEMMA TerminalReads ==
  ASSUME NEW d, NEW t, NEW names, TerminalPassed(d, t, names)
  PROVE  LET terminal == DecodedTerminal(t)
         IN  /\ terminal.DriveQuantity = t.fields["quantity"].text
             /\ terminal.Conductor = Text(t, "conductor_type", "massive")
             /\ terminal.EntityGroupName = t.fields["entity_group"].text
             /\ terminal.Turns = Number(t, "turns", 100)
             /\ terminal.Direction = IF Has(t, "direction")
                                     THEN GetCurrentDirection(t.fields["direction"])
                                     ELSE NoDirection
<1> DEFINE terminal == DecodedTerminal(t)
<1>1. IsValue(t) /\ Typed(t, TerminalTypes)
  BY DEF TerminalPassed
<1>2. \A k \in {"quantity", "conductor_type", "entity_group"} :
        k \in DOMAIN TerminalTypes /\ TerminalTypes[k] = "string"
  BY DEF TerminalTypes
<1>3. \A k \in {"quantity", "conductor_type", "entity_group"} :
        \A f : GetText(t, k, f) = Text(t, k, f)
  BY <1>1, <1>2, TypedReads
<1>4. /\ GetText(t, "quantity", "voltage") = t.fields["quantity"].text
      /\ t.fields["quantity"].text \in {"voltage", "current"}
      /\ GetText(t, "conductor_type", "massive") = Text(t, "conductor_type", "massive")
      /\ Text(t, "conductor_type", "massive") \in {"massive", "stranded"}
      /\ GetText(t, "entity_group", "") = t.fields["entity_group"].text
  BY <1>3 DEF TerminalPassed, Text
<1>5. terminal.DriveQuantity = t.fields["quantity"].text
  BY <1>4 DEF DecodedTerminal, ParseEnum
<1>6. terminal.Conductor = Text(t, "conductor_type", "massive")
  BY <1>4 DEF DecodedTerminal, ParseEnum
<1>7. terminal.EntityGroupName = t.fields["entity_group"].text
  BY <1>4 DEF DecodedTerminal
<1>8. /\ terminal.Turns = Number(t, "turns", 100)
      /\ terminal.Direction = IF Has(t, "direction")
                              THEN GetCurrentDirection(t.fields["direction"])
                              ELSE NoDirection
  BY DEF DecodedTerminal
<1> QED
  BY <1>5, <1>6, <1>7, <1>8

\* What has been found of a terminal's references and of what drives it.
LEMMA TerminalFits ==
  ASSUME NEW d, IsValue(d), NEW m, Passes(d, m), NEW t \in Members(d, "terminals")
  PROVE  LET terminal == DecodedTerminal(t)
             groups == GetEntityGroups(d)
             walls == {n \in DOMAIN groups : groups[n].Dim = MeshDim(d, m) - 1}
         IN  /\ TerminalPassed(d, t, Names(d, m))
             /\ terminal.EntityGroupName \in DOMAIN groups
             /\ terminal.DriveQuantity = "voltage" => terminal.EntityGroupName \in walls
             /\ ElectrodesOf(terminal) \subseteq walls
             /\ terminal.DriveQuantity
                  = IF PhysicsType(d) = "electrostatics" THEN "voltage" ELSE "current"
             /\ PhysicsType(d) # "electrostatics" /\ GeometryType(d) = "3d" =>
                  terminal.Direction # NoDirection
<1> DEFINE terminal == DecodedTerminal(t)
           groups == GetEntityGroups(d)
           walls == {n \in DOMAIN groups : groups[n].Dim = MeshDim(d, m) - 1}
           names == Names(d, m)
<1>1. /\ WellTyped(d) /\ ValidateSimulation(d) = {}
      /\ ValidateEntityGroups(NoNames, d, m) = {}
      /\ ValidateTerminals(d, names) = {}
  BY ChecksPass
<1>2. /\ OwnNames(Section(d, "entity_groups"))
      /\ \A g \in Members(d, "entity_groups") : GroupPassed(d, m, g)
  BY <1>1, GroupsPass
<1>3. TerminalPassed(d, t, names)
  BY <1>1, TerminalsPass
<1>4. PhysicsType(d) \in PhysicsTypes
  BY <1>1, SimulationPasses
<1>5. /\ terminal.DriveQuantity = t.fields["quantity"].text
      /\ terminal.EntityGroupName = t.fields["entity_group"].text
      /\ terminal.Direction = IF Has(t, "direction")
                              THEN GetCurrentDirection(t.fields["direction"])
                              ELSE NoDirection
  BY <1>3, TerminalReads
<1> HIDE DEF terminal, groups, walls, names
<1>6. \A node, role : RefersTo(node, names, role) =>
        /\ node.text \in DOMAIN groups
        /\ role = "boundary" => node.text \in walls
  BY <1>2, ReferenceFound DEF groups, walls, names
<1>7. /\ terminal.EntityGroupName \in DOMAIN groups
      /\ terminal.DriveQuantity = "voltage" => terminal.EntityGroupName \in walls
  BY <1>3, <1>5, <1>6 DEF TerminalPassed
<1>8. terminal.DriveQuantity
        = IF PhysicsType(d) = "electrostatics" THEN "voltage" ELSE "current"
  BY <1>3, <1>4, <1>5 DEF TerminalPassed, Magnetic, PhysicsTypes
<1>9. PhysicsType(d) # "electrostatics" /\ GeometryType(d) = "3d" => Has(t, "direction")
  BY <1>3, <1>4, <1>5, <1>8 DEF TerminalPassed, WantsDirection, Magnetic, PhysicsTypes, Text
<1>10. Has(t, "direction") => DirectionPassed(t.fields["direction"], names)
  BY <1>3 DEF TerminalPassed
<1>11. Has(t, "direction") => terminal.Direction # NoDirection
  BY <1>5, <1>10, DirectionReads
<1>12. ElectrodesOf(terminal) \subseteq walls
  <2>1. CASE ~Has(t, "direction")
    <3>1. terminal.Direction.Type = "none"
      BY <1>5, <2>1 DEF NoDirection
    <3> QED
      BY <3>1 DEF ElectrodesOf
  <2>2. CASE Has(t, "direction")
    <3> DEFINE o == t.fields["direction"]
               direction == GetCurrentDirection(o)
    <3>1. terminal.Direction = direction /\ DirectionPassed(o, names)
      BY <1>5, <1>10, <2>2
    <3>2. /\ direction.Type = o.fields["type"].text
          /\ direction.Type = "electrodes" =>
                  /\ direction.Input = o.fields["input"].text
                  /\ direction.Output = o.fields["output"].text
          /\ direction.Type = "cut" => direction.Cut = o.fields["cut"].text
      BY <3>1, DirectionReads
    <3> HIDE DEF o, direction
    <3>3. direction.Type = "electrodes" => direction.Input \in walls /\ direction.Output \in walls
      BY <1>6, <3>1, <3>2 DEF DirectionPassed
    <3>4. direction.Type = "cut" => direction.Cut \in walls
      BY <1>6, <3>1, <3>2 DEF DirectionPassed
    <3> QED
      BY <3>1, <3>3, <3>4 DEF ElectrodesOf
  <2> QED
    BY <2>1, <2>2
<1> QED
  BY <1>3, <1>7, <1>8, <1>9, <1>11, <1>12 DEF terminal, groups, walls, names

-----------------------------------------------------------------------------
(* The points of the scenarios, one scenario after the other.              *)

\* f joins the sequences E up to each of the N.
Joins(f, E, N) ==
  f = [n \in 0 .. N |-> IF n = 0 THEN <<>> ELSE f[n - 1] \o E[n]]

LEMMA JoinExists ==
  ASSUME NEW N \in Nat, NEW P, NEW E, \A n \in 1 .. N : E[n] \in Seq(P)
  PROVE  \E f : Joins(f, E, N)
<1> DEFINE V == Seq(P)
           G == [k \in Nat |-> [x \in V |-> IF k + 1 \in 1 .. N THEN x \o E[k + 1] ELSE x]]
<1>1. <<>> \in V
  OBVIOUS
<1>2. G \in [Nat -> [V -> V]]
  OBVIOUS
<1>3. \A k \in Nat : \A x \in V : k + 1 \in 1 .. N => G[k][x] = x \o E[k + 1]
  OBVIOUS
<1> HIDE DEF V, G
<1>4. PICK f \in [0 .. N -> V] : Runs(f, <<>>, G, N)
  BY <1>1, <1>2, RunsExist
<1>5. ASSUME NEW n \in 0 .. N, n # 0 PROVE f[n] = f[n - 1] \o E[n]
  <2>1. n - 1 \in 0 .. N - 1 /\ n - 1 \in Nat /\ (n - 1) + 1 = n /\ n - 1 \in 0 .. N /\ n \in 1 .. N
    BY <1>5
  <2>2. f[(n - 1) + 1] = G[n - 1][f[n - 1]]
    BY <1>4, <2>1 DEF Runs
  <2>3. f[n - 1] \in V
    BY <1>4, <2>1
  <2> QED
    BY <1>3, <2>1, <2>2, <2>3
<1>6. f[0] = <<>>
  BY <1>4 DEF Runs
<1>7. f = [n \in 0 .. N |-> IF n = 0 THEN <<>> ELSE f[n - 1] \o E[n]]
  BY <1>4, <1>5, <1>6
<1> QED
  BY <1>7 DEF Joins

\* What has been joined up to n is found again, and nothing else is there.
JoinedTo(f, E, P, n) ==
  /\ f[n] \in Seq(P)
  /\ \A k \in 0 .. n : Len(f[k]) \in Nat
  /\ \A k \in 1 .. n : /\ Len(E[k]) \in Nat /\ Len(f[k]) = Len(f[k - 1]) + Len(E[k])
                       /\ Len(f[k]) <= Len(f[n])
  /\ \A k \in 1 .. n : \A p \in 1 .. Len(E[k]) : f[n][Len(f[k - 1]) + p] = E[k][p]
  /\ \A i \in 1 .. Len(f[n]) :
        \E k \in 1 .. n : \E p \in 1 .. Len(E[k]) : i = Len(f[k - 1]) + p

\* Two sequences, one after the other.
LEMMA Concatenated ==
  ASSUME NEW P, NEW s \in Seq(P), NEW t \in Seq(P), NEW u, u = s \o t
  PROVE  /\ u \in Seq(P)
         /\ Len(s) \in Nat /\ Len(t) \in Nat /\ Len(u) = Len(s) + Len(t)
         /\ \A i \in 1 .. Len(s) : u[i] = s[i]
         /\ \A p \in 1 .. Len(t) : u[Len(s) + p] = t[p]
<1>1. u \in Seq(P) /\ Len(s) \in Nat /\ Len(t) \in Nat /\ Len(u) = Len(s) + Len(t)
  OBVIOUS
<1>2. ASSUME NEW i \in 1 .. Len(s) PROVE u[i] = s[i]
  OBVIOUS
<1>3. ASSUME NEW p \in 1 .. Len(t) PROVE u[Len(s) + p] = t[p]
  <2>1. Len(s) + p \in 1 .. Len(s) + Len(t) /\ ~(Len(s) + p <= Len(s))
        /\ (Len(s) + p) - Len(s) = p
    BY <1>1
  <2> QED
    BY <2>1
<1> QED
  BY <1>1, <1>2, <1>3

LEMMA JoinedStep ==
  ASSUME NEW P, NEW E, NEW f, NEW m \in Nat, JoinedTo(f, E, P, m),
         E[m + 1] \in Seq(P), f[m + 1] = f[m] \o E[m + 1]
  PROVE  JoinedTo(f, E, P, m + 1)
<1> DEFINE n == m + 1
           len(k) == Len(f[k])
           own(k) == Len(E[k])
<1>1. n \in Nat /\ n - 1 = m /\ m \in 0 .. m /\ n \in 1 .. n
      /\ (\A k \in 1 .. n : k \in 1 .. m \/ k = n) /\ (\A k \in 0 .. n : k \in 0 .. m \/ k = n)
      /\ (\A k \in 1 .. m : k \in 1 .. n /\ k \in 0 .. m /\ k - 1 \in 0 .. m)
  OBVIOUS
<1>2. /\ f[m] \in Seq(P)
      /\ \A k \in 0 .. m : len(k) \in Nat
      /\ \A k \in 1 .. m : own(k) \in Nat /\ len(k) = len(k - 1) + own(k) /\ len(k) <= len(m)
      /\ \A k \in 1 .. m : \A p \in 1 .. own(k) : f[m][len(k - 1) + p] = E[k][p]
      /\ \A i \in 1 .. len(m) :
            \E k \in 1 .. m : \E p \in 1 .. own(k) : i = len(k - 1) + p
  BY DEF JoinedTo
<1>3. /\ f[n] \in Seq(P) /\ len(m) \in Nat /\ own(n) \in Nat /\ len(n) = len(m) + own(n)
      /\ \A i \in 1 .. len(m) : f[n][i] = f[m][i]
      /\ \A p \in 1 .. own(n) : f[n][len(m) + p] = E[n][p]
  <2>1. f[n] = f[m] \o E[n] /\ f[m] \in Seq(P) /\ E[n] \in Seq(P)
    BY <1>2
  <2> HIDE DEF n
  <2> DEFINE s == f[m]
             t == E[n]
             u == f[n]
  <2>3. s \in Seq(P) /\ t \in Seq(P) /\ u = s \o t
    BY <2>1
  <2> HIDE DEF s, t, u
  <2>4. /\ u \in Seq(P)
        /\ Len(s) \in Nat /\ Len(t) \in Nat /\ Len(u) = Len(s) + Len(t)
        /\ \A i \in 1 .. Len(s) : u[i] = s[i]
        /\ \A p \in 1 .. Len(t) : u[Len(s) + p] = t[p]
    BY <2>3, Concatenated
  <2>2. /\ f[n] \in Seq(P)
        /\ Len(f[m]) \in Nat /\ Len(E[n]) \in Nat /\ Len(f[n]) = Len(f[m]) + Len(E[n])
        /\ \A i \in 1 .. Len(f[m]) : f[n][i] = f[m][i]
        /\ \A p \in 1 .. Len(E[n]) : f[n][Len(f[m]) + p] = E[n][p]
    BY <2>4 DEF s, t, u
  <2> QED
    BY <2>1, <2>2
<1>4. ASSUME /\ f[n] \in Seq(P)
             /\ \A k \in 0 .. n : len(k) \in Nat
             /\ \A k \in 1 .. n : own(k) \in Nat /\ len(k) = len(k - 1) + own(k) /\ len(k) <= len(n)
             /\ \A k \in 1 .. n : \A p \in 1 .. own(k) : f[n][len(k - 1) + p] = E[k][p]
             /\ \A i \in 1 .. len(n) :
                  \E k \in 1 .. n : \E p \in 1 .. own(k) : i = len(k - 1) + p
      PROVE  JoinedTo(f, E, P, n)
  BY <1>4 DEF JoinedTo
<1> HIDE DEF len, own, n
<1>5. \A k \in 0 .. n : len(k) \in Nat
  BY <1>1, <1>2, <1>3
<1>6. \A k \in 1 .. n : own(k) \in Nat /\ len(k) = len(k - 1) + own(k) /\ len(k) <= len(n)
  <2>1. ASSUME NEW k \in 1 .. m PROVE own(k) \in Nat /\ len(k) = len(k - 1) + own(k) /\ len(k) <= len(n)
    <3>1. len(k) \in Nat /\ len(k) <= len(m)
      BY <1>1, <1>2
    <3> QED
      BY <1>2, <1>3, <3>1
  <2> QED
    BY <1>1, <1>3, <2>1
<1>7. ASSUME NEW k \in 1 .. n, NEW p \in 1 .. own(k)
      PROVE  f[n][len(k - 1) + p] = E[k][p]
  <2>1. CASE k = n
    BY <1>1, <1>3, <2>1
  <2>2. CASE k \in 1 .. m
    <3>1. own(k) \in Nat /\ len(k) = len(k - 1) + own(k) /\ len(k) <= len(m) /\ len(k) \in Nat /\ len(k - 1) \in Nat
      BY <1>1, <1>2, <2>2
    <3>3. len(k - 1) + p \in 1 .. len(m)
      BY <1>3, <3>1
    <3> QED
      BY <1>2, <1>3, <2>2, <3>3
  <2> QED
    BY <1>1, <2>1, <2>2
<1>8. ASSUME NEW i \in 1 .. len(n)
      PROVE  \E k \in 1 .. n : \E p \in 1 .. own(k) : i = len(k - 1) + p
  <2>1. CASE i <= len(m)
    <3>1. i \in 1 .. len(m)
      BY <1>3, <2>1
    <3> QED
      BY <1>1, <1>2, <3>1
  <2>2. CASE i > len(m)
    <3> DEFINE p == i - len(m)
    <3>1. p \in 1 .. own(n) /\ i = len(m) + p
      BY <1>3, <2>2
    <3> HIDE DEF p
    <3> QED
      BY <1>1, <3>1
  <2> QED
    BY <1>3, <2>1, <2>2
<1> QED
  BY <1>3, <1>4, <1>5, <1>6, <1>7, <1>8 DEF n

LEMMA JoinedParts ==
  ASSUME NEW N \in Nat, NEW P, NEW E, \A n \in 1 .. N : E[n] \in Seq(P), NEW f, Joins(f, E, N)
  PROVE  JoinedTo(f, E, P, N)
<1> DEFINE S == {n \in Nat : n <= N => JoinedTo(f, E, P, n)}
<1>1. f[0] = <<>>
  BY DEF Joins
<1>2. ASSUME NEW n \in 1 .. N PROVE f[n] = f[n - 1] \o E[n]
  <2>1. n \in 0 .. N /\ n # 0
    OBVIOUS
  <2> QED
    BY <2>1 DEF Joins
<1>3. 0 \in S
  <2>1. Len(f[0]) = 0 /\ f[0] \in Seq(P)
    BY <1>1
  <2>2. (\A k \in 0 .. 0 : k = 0) /\ (\A k : k \notin 1 .. 0)
    OBVIOUS
  <2>3. JoinedTo(f, E, P, 0)
    BY <2>1, <2>2 DEF JoinedTo
  <2> QED
    BY <2>3
<1>4. ASSUME NEW m \in Nat, m \in S PROVE m + 1 \in S
  <2> SUFFICES ASSUME m + 1 <= N PROVE JoinedTo(f, E, P, m + 1)
    OBVIOUS
  <2>1. m + 1 \in 1 .. N /\ (m + 1) - 1 = m /\ m <= N
    OBVIOUS
  <2>2. JoinedTo(f, E, P, m)
    BY <1>4, <2>1
  <2>3. f[m + 1] = f[m] \o E[m + 1] /\ E[m + 1] \in Seq(P)
    BY <1>2, <2>1
  <2> QED
    BY <2>2, <2>3, JoinedStep
<1> HIDE DEF S
<1>5. Nat \subseteq S
  BY <1>3, <1>4, Induction
<1> QED
  BY <1>5 DEF S

\* A sequence of n elements.
IsList(s, n) == n \in Nat /\ s = [p \in 1 .. n |-> s[p]]

LEMMA Lists ==
  ASSUME NEW s, NEW n, IsList(s, n)
  PROVE  /\ Len(s) = n /\ DOMAIN s = 1 .. n
         /\ \A P : (\A p \in 1 .. n : s[p] \in P) => s \in Seq(P)
<1>1. DOMAIN s = 1 .. n /\ n \in Nat
  BY DEF IsList
<1>2. s \in Seq({s[p] : p \in 1 .. n})
  BY DEF IsList
<1>3. Len(s) = n
  BY <1>1, <1>2
<1>4. ASSUME NEW P, \A p \in 1 .. n : s[p] \in P PROVE s \in Seq(P)
  <2>1. [p \in 1 .. n |-> s[p]] \in [1 .. n -> P]
    BY <1>4
  <2>2. s \in [1 .. n -> P]
    BY <2>1 DEF IsList
  <2> QED
    BY <1>1, <2>2
<1> QED
  BY <1>1, <1>3, <1>4

NameOf(item) == Text(item, "name", "")

\* The points a scenario expands to are its own, and there is one at least.
LEMMA ScenarioExpands ==
  ASSUME NEW d, IsValue(d), WellTyped(d), ValidateSimulation(d) = {},
         NEW s, ScenarioPassed(d, s)
  PROVE  LET points == ExpandScenario(d, s)
             f == s.fields["frequency"]
         IN  \E n \in Nat \ {0} :
                /\ IsList(points, n)
                /\ \A p \in 1 .. n :
                      /\ points[p].Name[1] = NameOf(s)
                      /\ points[p].Excitations = ParseScenarioExcitations(s)
                      /\ IsMqs(d) => points[p].Frequency = Frequencies(f)[p]
                /\ IsMqs(d) => DOMAIN Frequencies(f) = 1 .. n
                /\ IsMqs(d) /\ f.type = "object" => n = AsInt(f.fields["points"])
<1> DEFINE points == ExpandScenario(d, s)
           name == NameOf(s)
           f == Field(s, "frequency", Null)
           hz == Frequencies(f)
           Point(p, x) == [Name |-> <<name, p>>, Frequency |-> x,
                           Excitations |-> ParseScenarioExcitations(s)]
<1>1. GetPhysicsType(d) = PhysicsType(d)
  BY SameModel
<1>2. CASE ~IsMqs(d)
  <2>1. points = <<Point("0", 0)>>
    BY <1>1, <1>2 DEF ExpandScenario, IsMqs, NameOf
  <2> HIDE DEF points
  <2>2. IsList(points, 1)
    BY <2>1 DEF IsList
  <2>3. points[1].Name[1] = name /\ points[1].Excitations = ParseScenarioExcitations(s)
    BY <2>1
  <2>4. \A p \in 1 .. 1 : p = 1
    OBVIOUS
  <2>5. 1 \in Nat \ {0}
    OBVIOUS
  <2> QED
    BY <1>2, <2>2, <2>3, <2>4, <2>5 DEF points
<1>3. CASE IsMqs(d)
  <2>0. Has(s, "frequency") /\ FrequencyPassed(s.fields["frequency"])
    BY <1>3 DEF ScenarioPassed
  <2>9. f = s.fields["frequency"]
    BY <2>0 DEF Field
  <2>1. f = s.fields["frequency"] /\ Has(s, "frequency") /\ FrequencyPassed(f)
    <3> HIDE DEF f
    <3> QED
      BY <2>0, <2>9
  <2>2. points = IF HasType(f, "number") THEN <<Point("0", hz[1])>>
                 ELSE [p \in DOMAIN hz |-> Point(ToString(p), hz[p])]
    BY <1>1, <1>3, <2>1 DEF ExpandScenario, IsMqs, NameOf
  <2>3. f.type \in {"object", "array", "number", "integer"}
    BY <2>1 DEF FrequencyPassed
  <2>4. CASE HasType(f, "number")
    <3>1. f.type \notin {"object", "array"}
      BY <2>4 DEF HasType
    <3>2. DOMAIN hz = 1 .. 1
      BY <3>1 DEF Frequencies
    <3>3. points = <<Point("0", hz[1])>>
      BY <2>2, <2>4
    <3> HIDE DEF points, hz
    <3>4. IsList(points, 1)
      BY <3>3 DEF IsList
    <3>5. /\ points[1].Name[1] = name /\ points[1].Excitations = ParseScenarioExcitations(s)
          /\ points[1].Frequency = hz[1]
      BY <3>3
    <3>6. (\A p \in 1 .. 1 : p = 1) /\ 1 \in Nat \ {0}
      OBVIOUS
    <3> HIDE DEF f
    <3> QED
      BY <2>1, <3>1, <3>2, <3>4, <3>5, <3>6 DEF points, hz
  <2>5. ASSUME NEW n \in Nat \ {0}, DOMAIN hz = 1 .. n, ~HasType(f, "number"),
               f.type = "object" => n = AsInt(f.fields["points"])
        PROVE  \E k \in Nat \ {0} :
                /\ IsList(points, k)
                /\ \A p \in 1 .. k :
                      /\ points[p].Name[1] = name
                      /\ points[p].Excitations = ParseScenarioExcitations(s)
                      /\ IsMqs(d) => points[p].Frequency = hz[p]
                /\ IsMqs(d) => DOMAIN hz = 1 .. k
                /\ IsMqs(d) /\ f.type = "object" => k = AsInt(f.fields["points"])
    <3>1. points = [p \in 1 .. n |-> Point(ToString(p), hz[p])]
      BY <2>2, <2>5
    <3> HIDE DEF points, hz
    <3>2. IsList(points, n)
      BY <3>1 DEF IsList
    <3>3. ASSUME NEW p \in 1 .. n
          PROVE  /\ points[p].Name[1] = name
                 /\ points[p].Excitations = ParseScenarioExcitations(s)
                 /\ points[p].Frequency = hz[p]
      <4>1. points[p] = Point(ToString(p), hz[p])
        BY <3>1
      <4> QED
        BY <4>1
    <3> QED
      BY <2>5, <3>2, <3>3
  <2>6. CASE f.type = "object"
    <3>1. ~HasType(f, "number")
      BY <2>6 DEF HasType
    <3>2. AsInt(f.fields["points"]) \in Nat \ {0} /\ Has(f, "points")
      BY <2>1, <2>6 DEF FrequencyPassed, SweepTypes
    <3>3. DOMAIN hz = 1 .. AsInt(f.fields["points"])
      BY <2>6, <3>2 DEF Frequencies, Integer
    <3> HIDE DEF f, hz, points
    <3> QED
      BY <2>1, <2>5, <3>1, <3>2, <3>3 DEF hz, points
  <2>7. CASE f.type = "array"
    <3>1. ~HasType(f, "number")
      BY <2>7 DEF HasType
    <3>2. DOMAIN hz = DOMAIN Items(f)
      BY <2>7 DEF Frequencies, Numbers
    <3>3. DOMAIN Items(f) = 1 .. Len(Items(f)) /\ Len(Items(f)) \in Nat
      BY ItemsOf
    <3>4. Elements(f) # {}
      BY <2>1, <2>7 DEF FrequencyPassed
    <3>5. Len(Items(f)) # 0
      BY <3>3, <3>4 DEF Elements
    <3> HIDE DEF f, hz, points
    <3> QED
      BY <2>1, <2>5, <2>7, <3>1, <3>2, <3>3, <3>5 DEF hz, points
  <2> QED
    BY <2>3, <2>4, <2>6, <2>7 DEF HasType
<1> QED
  BY <1>2, <1>3

\* The runs of an accepted document are those of its scenarios, in their order.
LEMMA ScenariosExpand ==
  ASSUME NEW d, IsValue(d), WellTyped(d), ValidateSimulation(d) = {}, ValidateScenarios(d) = {}
  PROVE  LET N == Len(Section(d, "scenarios"))
             E == [n \in 1 .. N |-> ExpandScenario(d, Section(d, "scenarios")[n])]
         IN  /\ N \in Nat /\ DOMAIN Section(d, "scenarios") = 1 .. N
             /\ \A n \in 1 .. N : ScenarioPassed(d, Section(d, "scenarios")[n])
             /\ \E f, P : JoinedTo(f, E, P, N) /\ GetScenarios(d) = f[N]
<1> DEFINE scenarios == Section(d, "scenarios")
           N == Len(scenarios)
           E == [n \in 1 .. N |-> ExpandScenario(d, scenarios[n])]
           P == UNION {{E[n][p] : p \in DOMAIN E[n]} : n \in 1 .. N}
           Step(f) == [n \in 0 .. N |->
                         IF n = 0 THEN <<>> ELSE f[n - 1] \o ExpandScenario(d, scenarios[n])]
           expanded == CHOOSE f : f = Step(f)
<1>1. N \in Nat /\ DOMAIN scenarios = 1 .. N
  BY ItemsOf DEF Section
<1>2. \A n \in 1 .. N : ScenarioPassed(d, scenarios[n])
  <2>1. \A n \in 1 .. N : scenarios[n] \in Members(d, "scenarios")
    BY <1>1 DEF Members, Elements, Section
  <2> QED
    BY <2>1, ScenariosPass
<1>3. GetScenarios(d) = expanded[N]
  BY DEF GetScenarios
<1> HIDE DEF scenarios, N
<1>4. \A n \in 1 .. N : E[n] = ExpandScenario(d, scenarios[n])
  OBVIOUS
<1>5. ASSUME NEW n \in 1 .. N PROVE E[n] \in Seq(P)
  <2>1. PICK k \in Nat \ {0} : IsList(E[n], k)
    BY <1>2, <1>4, ScenarioExpands
  <2>2. \A p \in DOMAIN E[n] : E[n][p] \in P
    OBVIOUS
  <2> HIDE DEF E, P
  <2> QED
    BY <2>1, <2>2, Lists
<1>6. \A f : Joins(f, E, N) <=> f = Step(f)
  <2>1. ASSUME NEW f
        PROVE  Step(f) = [n \in 0 .. N |-> IF n = 0 THEN <<>> ELSE f[n - 1] \o E[n]]
    <3> DEFINE Other == [n \in 0 .. N |-> IF n = 0 THEN <<>> ELSE f[n - 1] \o E[n]]
    <3>1. \A n \in 0 .. N : n # 0 => n \in 1 .. N
      BY <1>1
    <3>2. \A n \in 0 .. N : Step(f)[n] = Other[n]
      BY <1>4, <3>1
    <3> QED
      BY <3>2
  <2> QED
    BY <2>1 DEF Joins
<1> HIDE DEF E, P, Step
<1>7. \E f : Joins(f, E, N)
  BY <1>1, <1>5, JoinExists
<1>8. expanded = Step(expanded)
  BY <1>6, <1>7
<1> HIDE DEF expanded
<1>9. Joins(expanded, E, N)
  BY <1>6, <1>8
<1>10. JoinedTo(expanded, E, P, N)
  BY <1>1, <1>5, <1>9, JoinedParts
<1> QED
  BY <1>1, <1>2, <1>3, <1>10 DEF E, N, scenarios

-----------------------------------------------------------------------------
(* Setup finds no mistake in what it is given.                             *)

LEMMA BoundariesFit ==
  ASSUME NEW d, IsValue(d), NEW m, Passes(d, m), NEW i \in DOMAIN GetBoundaries(d)
  PROVE  LET group == GetBoundaries(d)[i].EntityGroupName
         IN  /\ group \in DOMAIN GetEntityGroups(d)
             /\ GetEntityGroups(d)[group].Dim = MeshDim(d, m) - 1
<1> DEFINE listed == Section(d, "boundary_conditions")
           complete == {k \in DOMAIN listed :
                          \A key \in {"type", "value", "entity_group"} : Has(listed[k], key)}
           kept == InOrder(complete, Len(listed))
           group == GetBoundaries(d)[i].EntityGroupName
<1>1. /\ WellTyped(d) /\ ValidateEntityGroups(NoNames, d, m) = {}
      /\ ValidateBoundaries(d, Names(d, m)) = {}
  BY ChecksPass
<1>2. /\ OwnNames(Section(d, "entity_groups"))
      /\ \A g \in Members(d, "entity_groups") : GroupPassed(d, m, g)
  BY <1>1, GroupsPass
<1>3. DOMAIN listed = 1 .. Len(listed) /\ Len(listed) \in Nat
  BY ItemsOf DEF Section
<1>4. DOMAIN GetBoundaries(d) = DOMAIN kept /\ group = Text(listed[kept[i]], "entity_group", "")
  BY DEF GetBoundaries
<1>5. \A k \in complete : listed[k] \in Members(d, "boundary_conditions")
  BY DEF Members, Elements, Section
<1>6. complete \in SUBSET (Nat \ {0})
  BY <1>3
<1>13. \A k \in complete : k <= Len(listed) /\ Has(listed[k], "entity_group")
  BY <1>3
<1> HIDE DEF complete, listed
<1>7. kept \in Seq(Nat) /\ \A p \in DOMAIN kept : kept[p] \in complete
  <2> DEFINE n == Len(listed)
  <2>1. n \in Nat
    BY <1>3
  <2> HIDE DEF n
  <2>2. InOrder(complete, n) \in Seq(Nat)
    BY <2>1, InOrderStep
  <2>3. /\ Len(InOrder(complete, n)) = Passed(complete, n)
        /\ \A p \in 1 .. Passed(complete, n) : InOrder(complete, n)[p] \in complete
    BY <1>6, <2>1, OrderIsCount
  <2>4. kept = InOrder(complete, n)
    BY DEF n
  <2> HIDE DEF kept
  <2>5. DOMAIN kept = 1 .. Len(kept)
    BY <2>2, <2>4
  <2> QED
    BY <2>2, <2>3, <2>4, <2>5
<1>8. listed[kept[i]] \in Members(d, "boundary_conditions") /\ Has(listed[kept[i]], "entity_group")
  BY <1>4, <1>5, <1>7, <1>13
<1>9. RefersTo(listed[kept[i]].fields["entity_group"], Names(d, m), "boundary")
  BY <1>1, <1>8, BoundariesPass DEF BoundaryPassed
<1>10. group = listed[kept[i]].fields["entity_group"].text
  BY <1>4, <1>8 DEF Text
<1> HIDE DEF group, kept
<1>11. group \in DOMAIN GetEntityGroups(d)
       /\ GetEntityGroups(d)[group].Dim = MeshDim(d, m) - 1
  BY <1>2, <1>9, <1>10, ReferenceFound
<1> QED
  BY <1>11 DEF group

\* What a region is decoded to.
LEMMA RegionReads ==
  ASSUME NEW d, NEW m, NEW i \in DOMAIN Section(d, "regions"), RegionPassed(d, m, i)
  PROVE  LET region == Section(d, "regions")[i]
             decoded == GetRegions(d)[i]
         IN  /\ decoded.EntityGroupName = region.fields["entity_group"].text
             /\ decoded.MaterialName = Text(region, "material", "")
             /\ decoded.CurrentConstraint = Text(region, "current_constraint", "none")
<1> DEFINE region == Section(d, "regions")[i]
           decoded == GetRegions(d)[i]
<1>1. /\ IsValue(region) /\ Typed(region, RegionTypes) /\ Has(region, "entity_group")
      /\ Text(region, "current_constraint", "none") \in {"none", "open"}
  BY DEF RegionPassed
<1>2. \A k \in {"entity_group", "material", "current_constraint"} :
        k \in DOMAIN RegionTypes /\ RegionTypes[k] = "string"
  BY DEF RegionTypes
<1>3. /\ decoded.EntityGroupName = GetText(region, "entity_group", "")
      /\ decoded.MaterialName = GetText(region, "material", "")
      /\ decoded.CurrentConstraint
           = ParseEnum(region, "current_constraint", "none", {"none", "open"})
  BY DEF GetRegions
<1> HIDE DEF region, decoded
<1>4. \A k \in {"entity_group", "material", "current_constraint"} :
        \A f : GetText(region, k, f) = Text(region, k, f)
  BY <1>1, <1>2, TypedReads
<1>5. decoded.EntityGroupName = region.fields["entity_group"].text
  BY <1>1, <1>3, <1>4 DEF Text
<1>6. decoded.MaterialName = Text(region, "material", "")
  BY <1>3, <1>4
<1>7. decoded.CurrentConstraint = Text(region, "current_constraint", "none")
  BY <1>1, <1>3, <1>4 DEF ParseEnum
<1> QED
  BY <1>5, <1>6, <1>7 DEF region, decoded

LEMMA RegionsFit ==
  ASSUME NEW d, IsValue(d), NEW m, Passes(d, m), NEW i \in DOMAIN GetRegions(d)
  PROVE  LET region == Section(d, "regions")[i]
             decoded == GetRegions(d)[i]
         IN  /\ i \in DOMAIN Section(d, "regions") /\ RegionPassed(d, m, i)
             /\ decoded.EntityGroupName = region.fields["entity_group"].text
             /\ decoded.MaterialName = Text(region, "material", "")
             /\ decoded.CurrentConstraint = Text(region, "current_constraint", "none")
             /\ decoded.EntityGroupName \in DOMAIN GetEntityGroups(d)
             /\ decoded.MaterialName \in DOMAIN GetMaterials(d)
<1> DEFINE region == Section(d, "regions")[i]
           decoded == GetRegions(d)[i]
<1>1. /\ WellTyped(d) /\ ValidateSimulation(d) = {}
      /\ ValidateEntityGroups(NoNames, d, m) = {}
      /\ ValidateMaterials(d) = {} /\ ValidateRegions(d, m, Names(d, m)) = {}
  BY ChecksPass
<1>2. /\ OwnNames(Section(d, "entity_groups"))
      /\ \A g \in Members(d, "entity_groups") : GroupPassed(d, m, g)
  BY <1>1, GroupsPass
<1>3. i \in DOMAIN Section(d, "regions")
  BY DEF GetRegions
<1>4. RegionPassed(d, m, i)
  BY <1>1, <1>3, RegionsPass
<1>5. /\ decoded.EntityGroupName = region.fields["entity_group"].text
      /\ decoded.MaterialName = Text(region, "material", "")
      /\ decoded.CurrentConstraint = Text(region, "current_constraint", "none")
  BY <1>3, <1>4, RegionReads
<1>6. RefersTo(region.fields["entity_group"], Names(d, m), "domain")
      /\ Text(region, "material", "") \in MaterialNames(d)
  BY <1>4 DEF RegionPassed
<1>7. OwnNames(Section(d, "materials"))
  BY <1>1, MaterialsPass
<1>8. MaterialNames(d) \subseteq DOMAIN GetMaterials(d)
  BY <1>7, MaterialsByName DEF MaterialNames
<1> HIDE DEF region, decoded
<1>9. decoded.EntityGroupName \in DOMAIN GetEntityGroups(d)
  BY <1>2, <1>5, <1>6, ReferenceFound
<1>10. decoded.MaterialName \in DOMAIN GetMaterials(d)
  BY <1>5, <1>6, <1>8
<1> QED
  BY <1>3, <1>4, <1>5, <1>9, <1>10 DEF region, decoded

\* There is a run to make of an accepted MQS document.
LEMMA ScenariosFit ==
  ASSUME NEW d, IsValue(d), NEW m, Passes(d, m), IsMqs(d)
  PROVE  GetScenarios(d) # <<>>
<1> DEFINE scenarios == Section(d, "scenarios")
           N == Len(scenarios)
           E == [n \in 1 .. N |-> ExpandScenario(d, scenarios[n])]
<1>1. WellTyped(d) /\ ValidateSimulation(d) = {} /\ ValidateScenarios(d) = {}
  BY ChecksPass
<1>2. scenarios # <<>>
  BY <1>1, ScenariosPass
<1>3. /\ N \in Nat /\ DOMAIN scenarios = 1 .. N
      /\ \A n \in 1 .. N : ScenarioPassed(d, scenarios[n])
      /\ \E f, P : JoinedTo(f, E, P, N) /\ GetScenarios(d) = f[N]
  BY <1>1, ScenariosExpand
<1>4. PICK f, P : JoinedTo(f, E, P, N) /\ GetScenarios(d) = f[N]
  BY <1>3
<1>5. N # 0
  <2>1. Section(d, "scenarios") = Items(Field(d, "scenarios", Null))
    BY DEF Section
  <2>2. \A v : DOMAIN Items(v) = {} => Items(v) = <<>>
    BY EmptyItems
  <2> QED
    BY <1>2, <1>3, <2>1, <2>2
<1>6. 1 \in 1 .. N
  BY <1>3, <1>5
<1>7. E[1] = ExpandScenario(d, scenarios[1])
  BY <1>6
<1>8. Len(E[1]) # 0
  <2>1. \E n \in Nat \ {0} : IsList(E[1], n)
    BY <1>1, <1>3, <1>6, <1>7, ScenarioExpands
  <2> HIDE DEF E, N, scenarios
  <2> QED
    BY <2>1, Lists
<1> HIDE DEF E, N, scenarios
<1>9. /\ f[N] \in Seq(P) /\ Len(E[1]) \in Nat /\ Len(f[0]) \in Nat
      /\ Len(f[1]) = Len(f[0]) + Len(E[1]) /\ Len(f[1]) <= Len(f[N]) /\ Len(f[N]) \in Nat
  <2>1. 1 - 1 = 0 /\ 0 \in 0 .. N /\ N \in 0 .. N
    BY <1>3
  <2> QED
    BY <1>3, <1>4, <1>6, <2>1 DEF JoinedTo
<1>10. Len(f[N]) # 0
  <2> DEFINE a == Len(f[0])
             b == Len(E[1])
             c == Len(f[1])
             e == Len(f[N])
  <2>1. a \in Nat /\ b \in Nat /\ b # 0 /\ c = a + b /\ c <= e /\ e \in Nat
    BY <1>8, <1>9
  <2> HIDE DEF a, b, c, e
  <2>2. e # 0
    BY <2>1
  <2> QED
    BY <2>2 DEF e
<1> QED
  BY <1>4, <1>10

\* The dimension a mesh that is accepted has.
LEMMA DimensionFits ==
  ASSUME NEW d, IsValue(d), NEW m, m # NoMesh, Passes(d, m)
  PROVE  m.dim = IF GeometryType(d) = "3d" THEN 3 ELSE 2
<1> DEFINE required == IF GeometryType(d) = "3d" THEN 3 ELSE 2
<1>1. /\ WellTyped(d) /\ ValidateSimulation(d) = {} /\ ValidateGeometryCompatibility(d, m) = {}
  BY ChecksPass
<1>2. GeometryType(d) \in {"axisymmetric", "planar", "3d"}
  BY <1>1, SimulationPasses
<1>3. ErrorIf(m # NoMesh /\ m.dim # required, "simulation", "geometry_type") = {}
  BY <1>1, <1>2 DEF ValidateGeometryCompatibility
<1> HIDE DEF required
<1>4. ~(m # NoMesh /\ m.dim # required)
  BY <1>3, NoneRefused
<1> QED
  BY <1>4 DEF required

\* What Setup looks up and asks of the document it is given.
LEMMA SetUpPasses ==
  ASSUME IsValue(document), mesh # NoMesh, Passes(document, mesh),
         config = GetProblemConfig(document), solver = SolverFor
  PROVE  ConfigurationErrors = {}
<1>1. /\ config.PhysicsType = GetPhysicsType(document)
      /\ config.GeometryType = GetGeometryType(document)
      /\ config.EntityGroups = GetEntityGroups(document)
      /\ config.Regions = GetRegions(document)
      /\ config.Materials = GetMaterials(document)
      /\ config.Terminals = GetTerminals(document)
      /\ config.BoundaryConditions = GetBoundaries(document)
      /\ config.Scenarios = GetScenarios(document)
  BY DEF GetProblemConfig
<1>2. /\ WellTyped(document) /\ ValidateSimulation(document) = {}
      /\ ValidateTerminals(document, Names(document, mesh)) = {}
  BY ChecksPass
<1>3. /\ config.PhysicsType = PhysicsType(document)
      /\ config.GeometryType = GeometryType(document)
  BY <1>1, <1>2, SameModel
<1>4. PhysicsType(document) \in PhysicsTypes
  BY <1>2, SimulationPasses
<1>5. mesh.dim = IF ThreeD THEN 3 ELSE 2
  BY <1>3, DimensionFits DEF ThreeD
<1>6. MeshDim(document, mesh) = mesh.dim
  BY DEF MeshDim
<1>7. ASSUME NEW name, IsGroup(name), config.EntityGroups[name].Dim = MeshDim(document, mesh) - 1
      PROVE  IsBoundary(name)
  BY <1>6, <1>7 DEF IsBoundary
<1>8. OwnNames(Section(document, "terminals"))
  BY <1>2, TerminalsPass
<1>9. \A t \in Terminals : \E x \in Members(document, "terminals") : t = DecodedTerminal(x)
  <2>1. /\ DOMAIN config.Terminals
             = {NameOf(x) : x \in Members(document, "terminals")}
        /\ \A x \in Members(document, "terminals") :
             config.Terminals[NameOf(x)] = DecodedTerminal(x)
    BY <1>1, <1>8, TerminalsByName DEF NameOf
  <2> QED
    BY <2>1 DEF Terminals
<1>10. ASSUME NEW t \in Terminals
       PROVE  /\ IsGroup(t.EntityGroupName)
              /\ t.DriveQuantity = "voltage" => IsBoundary(t.EntityGroupName)
              /\ \A e \in ElectrodesOf(t) : IsBoundary(e)
              /\ t.DriveQuantity
                   = IF config.PhysicsType = "electrostatics" THEN "voltage" ELSE "current"
              /\ config.PhysicsType # "electrostatics" /\ ThreeD => t.Direction # NoDirection
  <2> DEFINE groups == GetEntityGroups(document)
             walls == {n \in DOMAIN groups : groups[n].Dim = MeshDim(document, mesh) - 1}
  <2>1. PICK x \in Members(document, "terminals") : t = DecodedTerminal(x)
    BY <1>9
  <2>2. /\ t.EntityGroupName \in DOMAIN groups
        /\ t.DriveQuantity = "voltage" => t.EntityGroupName \in walls
        /\ ElectrodesOf(t) \subseteq walls
        /\ t.DriveQuantity
             = IF PhysicsType(document) = "electrostatics" THEN "voltage" ELSE "current"
        /\ PhysicsType(document) # "electrostatics" /\ GeometryType(document) = "3d" =>
             t.Direction # NoDirection
    BY <2>1, TerminalFits
  <2>3. \A name \in walls : IsBoundary(name)
    BY <1>1, <1>7 DEF IsGroup
  <2> HIDE DEF walls
  <2> QED
    BY <1>1, <1>3, <2>2, <2>3 DEF IsGroup, ThreeD
<1>11. ~Unresolved
  <2>1. \A bc \in Listed(config.BoundaryConditions) : IsBoundary(bc.EntityGroupName)
    BY <1>1, <1>7, BoundariesFit DEF Listed, IsGroup
  <2>2. \A r \in Listed(config.Regions) :
          IsGroup(r.EntityGroupName) /\ r.MaterialName \in DOMAIN config.Materials
    BY <1>1, RegionsFit DEF Listed, IsGroup
  <2> QED
    BY <1>10, <2>1, <2>2 DEF Unresolved
<1>12. solver = "ElectrostaticSolver" <=> config.PhysicsType = "electrostatics"
  <2>1. config.PhysicsType = "electrostatics" => solver = "ElectrostaticSolver"
    BY DEF SolverFor
  <2>2. config.PhysicsType = "magnetostatics" =>
          solver = IF ThreeD THEN "MagnetostaticSolver3D" ELSE "MagnetostaticSolver"
    BY DEF SolverFor
  <2>3. config.PhysicsType = "magnetoquasistatics" =>
          solver = IF ThreeD THEN "MagnetoquasistaticSolver3D" ELSE "MagnetoquasistaticSolver"
    BY DEF SolverFor
  <2> QED
    BY <1>3, <1>4, <2>1, <2>2, <2>3 DEF PhysicsTypes
<1>13. solver \in {"MagnetostaticSolver3D", "MagnetoquasistaticSolver3D"} =>
         config.PhysicsType # "electrostatics" /\ ThreeD
  <2>1. config.PhysicsType = "electrostatics" => solver = "ElectrostaticSolver"
    BY DEF SolverFor
  <2>2. config.PhysicsType = "magnetostatics" =>
          solver = IF ThreeD THEN "MagnetostaticSolver3D" ELSE "MagnetostaticSolver"
    BY DEF SolverFor
  <2>3. config.PhysicsType = "magnetoquasistatics" =>
          solver = IF ThreeD THEN "MagnetoquasistaticSolver3D" ELSE "MagnetoquasistaticSolver"
    BY DEF SolverFor
  <2> QED
    BY <1>3, <1>4, <2>1, <2>2, <2>3 DEF PhysicsTypes
<1>14. config.PhysicsType = "magnetoquasistatics" => config.Scenarios # <<>>
  BY <1>1, <1>3, ScenariosFit DEF IsMqs
<1>15. \A t \in Terminals :
         t.DriveQuantity = IF solver = "ElectrostaticSolver" THEN "voltage" ELSE "current"
  BY <1>10, <1>12
<1>16. ~(/\ solver \in {"MagnetostaticSolver3D", "MagnetoquasistaticSolver3D"}
         /\ \E t \in Terminals : t.Direction = NoDirection)
  BY <1>10, <1>13
<1> QED
  BY <1>5, <1>11, <1>14, <1>15, <1>16 DEF ConfigurationErrors

-----------------------------------------------------------------------------
(* The pass without a mesh refuses nothing the pass with it accepts.       *)

LEMMA LargestOf ==
  ASSUME NEW S, NEW x \in S, \A y \in S : y \in Int /\ y <= x
  PROVE  Max(S) = x
<1>1. \E z \in S : \A y \in S : z >= y
  BY DEF Max
<1>2. Max(S) \in S /\ \A y \in S : Max(S) >= y
  BY <1>1 DEF Max
<1> QED
  BY <1>2

LEMMA DimensionsAgree ==
  ASSUME NEW d, IsValue(d), NEW m \in Meshes, Has(d, "regions"), Passes(d, m)
  PROVE  MeshDim(d, NoMesh) = m.dim /\ MeshDim(d, m) = m.dim
<1> DEFINE groups == Members(d, "entity_groups")
           dims == {Integer(g, "dim", 0) : g \in groups}
<1>1. m.dim \in 1 .. 3 /\ m.attributes # {}
  BY MeshesAssumption
<1>2. m # NoMesh
  <2>1. NoMesh.dim = 0
    BY DEF NoMesh
  <2> QED
    BY <1>1, <2>1
<1>3. MeshDim(d, m) = m.dim
  BY <1>2 DEF MeshDim
<1>4. /\ WellTyped(d) /\ ValidateEntityGroups(NoNames, d, m) = {}
      /\ ValidateRegions(d, m, Names(d, m)) = {}
  BY ChecksPass
<1>5. \A g \in groups : GroupPassed(d, m, g)
  BY <1>4, GroupsPass
<1>6. \A g \in groups : Integer(g, "dim", 0) \in {m.dim - 1, m.dim} /\ Has(g, "dim")
  BY <1>1, <1>3, <1>5 DEF GroupPassed
<1>7. \E g \in groups : Integer(g, "dim", 0) = m.dim
  <2>1. m.attributes \subseteq UNION {AttributesOf(d, r) : r \in Members(d, "regions")}
    BY <1>2, <1>4, RegionsPass
  <2>2. Members(d, "regions") # {}
    BY <1>1, <2>1
  <2>3. PICK i \in DOMAIN Section(d, "regions") : TRUE
    BY <2>2 DEF Members, Elements, Section
  <2>4. RegionPassed(d, m, i)
    BY <1>4, RegionsPass
  <2>5. \E name : name \in Names(d, m).domain
    BY <2>4 DEF RegionPassed, RefersTo
  <2> DEFINE named == {g \in groups : GroupName(g) # ""}
             boundary == {g \in named : IsBoundaryGroup(d, m, g)}
  <2>6. Names(d, m).domain = {GroupName(g) : g \in named \ boundary}
    BY DEF Names, EntityGroupNames, Cleared, NoNames
  <2>7. PICK g \in groups : ~IsBoundaryGroup(d, m, g)
    BY <2>5, <2>6
  <2>8. ~(Integer(g, "dim", 0) = m.dim - 1)
    BY <1>3, <1>6, <2>7 DEF IsBoundaryGroup
  <2> QED
    BY <1>6, <2>8
<1> HIDE DEF groups
<1>8. m.dim \in {0} \cup dims /\ \A y \in {0} \cup dims : y \in Int /\ y <= m.dim
  BY <1>1, <1>6, <1>7
<1> HIDE DEF dims
<1>9. Max({0} \cup dims) = m.dim
  BY <1>8, LargestOf
<1>10. MeshDim(d, NoMesh) = Max({0} \cup dims)
  BY DEF MeshDim, groups, dims
<1> QED
  BY <1>3, <1>9, <1>10

LEMMA SchemaNecessary ==
  ASSUME NEW d, IsValue(d), NEW m \in Meshes, Has(d, "regions"), Passes(d, m)
  PROVE  Passes(d, NoMesh)
<1>1. m # NoMesh
  BY MeshesAssumption DEF NoMesh
<1>2. MeshDim(d, NoMesh) = MeshDim(d, m)
  BY DimensionsAgree
<1>3. \A g : IsBoundaryGroup(d, NoMesh, g) = IsBoundaryGroup(d, m, g)
  BY <1>2 DEF IsBoundaryGroup
<1>4. Names(d, NoMesh) = Names(d, m)
  BY <1>3 DEF Names, EntityGroupNames
<1>5. /\ ValidateDocumentTypes(d) = {} /\ WellTyped(d)
      /\ ValidateSimulation(d) = {}
      /\ ValidateGeometryCompatibility(d, m) = {}
      /\ ValidateEntityGroups(NoNames, d, m) = {}
      /\ ValidateProbes(d, m, Names(d, m)) = {}
      /\ ValidateMaterials(d) = {}
      /\ ValidateRegions(d, m, Names(d, m)) = {}
      /\ ValidateBoundaries(d, Names(d, m)) = {}
      /\ ValidateTerminals(d, Names(d, m)) = {}
      /\ ValidateScenarios(d) = {}
  BY ChecksPass DEF Passes
<1>6. ValidateGeometryCompatibility(d, NoMesh) = {}
  <2>1. ErrorIf(FALSE, "simulation", "geometry_type") = {}
    BY DEF ErrorIf
  <2> QED
    BY <1>5 DEF ValidateGeometryCompatibility, ErrorIf
<1>7. ValidateEntityGroups(NoNames, d, NoMesh) = {}
  <2> DEFINE groups == Members(d, "entity_groups")
             names == NameErrors(Section(d, "entity_groups"), "entity_groups")
             again == ErrorIf(\E g \in groups : GroupName(g) \in Cleared(NoNames).names,
                              "entity_groups", "name")
             each(k) == {GroupErrors(d, k, g) : g \in groups}
  <2>1. \A k : ValidateEntityGroups(NoNames, d, k) = names \cup Errors(each(k)) \cup again
    BY DEF ValidateEntityGroups
  <2> HIDE DEF names, again
  <2>2. names = {} /\ again = {}
    BY <1>5, <2>1
  <2>3. ASSUME NEW g \in groups PROVE GroupErrors(d, NoMesh, g) = {}
    <3> DEFINE ids == IntegersOf(Field(g, "attribute_ids", Null))
               dim == Integer(g, "dim", 0)
               last(k) == Highest(IF IsBoundaryGroup(d, k, g) THEN k.boundary ELSE k.attributes)
               missing == Missing(g, "entity_groups", {"dim", "attribute_ids"})
               dims(k) == ErrorIf(/\ Has(g, "dim")
                                  /\ \/ dim \notin 1 .. 3
                                     \/ MeshDim(d, k) > 0
                                          /\ dim \notin {MeshDim(d, k) - 1, MeshDim(d, k)},
                                  "entity_groups", "dim")
               wrong(k) == \E id \in ids : id <= 0 \/ (k # NoMesh /\ id > last(k))
               listed(k) == ErrorIf(wrong(k), "entity_groups", "attribute_ids")
    <3>1. GroupErrors(d, m, g) = {}
      BY <1>5, GroupsPass
    <3>2. \A k : GroupErrors(d, k, g) = Errors({missing, dims(k), listed(k)})
      BY DEF GroupErrors
    <3>3. dims(NoMesh) = dims(m)
      BY <1>2
    <3>4. wrong(NoMesh) => wrong(m)
      OBVIOUS
    <3>5. listed(m) = {} => ~wrong(m)
      BY NoneRefused
    <3>6. ~wrong(NoMesh) => listed(NoMesh) = {}
      BY DEF ErrorIf
    <3> HIDE DEF missing, dims, listed, wrong
    <3> DEFINE dm == dims(m)
               lm == listed(m)
               dn == dims(NoMesh)
               ln == listed(NoMesh)
    <3>a. Errors({missing, dm, lm}) = {}
      BY <3>1, <3>2
    <3>b. GroupErrors(d, NoMesh, g) = Errors({missing, dn, ln})
      BY <3>2
    <3> HIDE DEF dm, lm, dn, ln
    <3>c. missing = {} /\ dm = {} /\ lm = {}
      BY <3>a, NoErrors
    <3>7. missing = {} /\ dims(m) = {} /\ listed(m) = {}
      BY <3>c DEF dm, lm
    <3>8. missing = {} /\ dn = {} /\ ln = {}
      BY <3>3, <3>4, <3>5, <3>6, <3>7 DEF dn, ln
    <3> QED
      BY <3>b, <3>8, NoErrors
  <2>4. \A e \in each(NoMesh) : e = {}
    BY <2>3
  <2> HIDE DEF each
  <2>5. Errors(each(NoMesh)) = {}
    BY <2>4, NoErrors
  <2> QED
    BY <2>1, <2>2, <2>5
<1>8. ValidateProbes(d, NoMesh, Names(d, NoMesh)) = {}
  <2>1. m.dim = IF GeometryType(d) = "3d" THEN 3 ELSE 2
    BY <1>1, DimensionFits
  <2>2. ValidateProbes(d, NoMesh, Names(d, m)) = ValidateProbes(d, m, Names(d, m))
    BY <1>1, <2>1 DEF ValidateProbes
  <2> QED
    BY <1>4, <1>5, <2>2
<1>9. ValidateRegions(d, NoMesh, Names(d, NoMesh)) = {}
  <2>1. ValidateDomainCoverage(d, NoMesh) = {}
    BY DEF ValidateDomainCoverage, ErrorIf
  <2> QED
    BY <1>4, <1>5, <2>1 DEF ValidateRegions
<1>10. SemanticErrors(NoNames, d, NoMesh) = Errors({
            ValidateSimulation(d),
            ValidateGeometryCompatibility(d, NoMesh),
            ValidateEntityGroups(NoNames, d, NoMesh),
            ValidateProbes(d, NoMesh, Names(d, NoMesh)),
            ValidateMaterials(d),
            ValidateRegions(d, NoMesh, Names(d, NoMesh)),
            ValidateBoundaries(d, Names(d, NoMesh)),
            ValidateTerminals(d, Names(d, NoMesh)),
            ValidateScenarios(d)})
  BY DEF SemanticErrors, Names
<1>11. SemanticErrors(NoNames, d, NoMesh) = {}
  BY <1>4, <1>5, <1>6, <1>7, <1>8, <1>9, <1>10, NoErrors
<1> QED
  BY <1>5, <1>11 DEF Passes

-----------------------------------------------------------------------------
(* Edits of a document leave it a document.                                *)

\* A value that is one of a set whose integers are narrow if those of Values are.
IsPlain(v) == \E V : IsJson(V) /\ (IsNarrow(Values) => IsNarrow(V)) /\ v \in V

LEMMA PlainIsValue == \A v : IsPlain(v) => IsValue(v)
  BY DEF IsPlain, IsValue

LEMMA PlainHolds ==
  ASSUME NEW v, IsPlain(v)
  PROVE  /\ \A k : Has(v, k) => IsPlain(v.fields[k])
         /\ \A x \in Elements(v) : IsPlain(x)
<1>1. PICK V : IsJson(V) /\ (IsNarrow(Values) => IsNarrow(V)) /\ v \in V
  BY DEF IsPlain
<1>2. \A k : Has(v, k) => v.fields[k] \in V
  BY <1>1 DEF IsJson, Has
<1>3. \A x \in Elements(v) : x \in V
  BY <1>1, ItemsOf DEF IsJson
<1> QED
  BY <1>1, <1>2, <1>3 DEF IsPlain

IsHolder(v) == v.type \in {"object", "array"}

\* What is written: a value, or that there is none.
IsWritten(v) == IsPlain(v) \/ v = Absent

LEMMA PutHolds ==
  ASSUME NEW v, IsPlain(v), IsHolder(v), NEW k, NEW new, IsWritten(new)
  PROVE  IsPlain(Put(v, k, new)) /\ Put(v, k, new).type = v.type
<1> DEFINE fields == IF new.type = "absent"
                     THEN [q \in DOMAIN v.fields \ {k} |-> v.fields[q]]
                     ELSE [q \in DOMAIN v.fields \cup {k} |-> IF q = k THEN new ELSE v.fields[q]]
           put == [type |-> v.type, fields |-> fields]
<1>1. PICK V : IsJson(V) /\ (IsNarrow(Values) => IsNarrow(V)) /\ v \in V
  BY DEF IsPlain
<1>2. v = [type |-> v.type, fields |-> v.fields] /\ \A q \in DOMAIN v.fields : v.fields[q] \in V
  BY <1>1 DEF IsJson, IsHolder
<1>3. Put(v, k, new) = put
  BY <1>2 DEF Put
<1>4. PICK W : /\ IsJson(W) /\ (IsNarrow(Values) => IsNarrow(W))
               /\ new.type # "absent" => new \in W
  <2>1. CASE IsPlain(new)
    BY <2>1 DEF IsPlain
  <2>2. CASE new = Absent
    BY <2>2, <1>1 DEF Absent
  <2> QED
    BY <2>1, <2>2 DEF IsWritten
<1>5. \A q \in DOMAIN fields : fields[q] \in V \cup W
  BY <1>2, <1>4
<1>6. v.type \in Types /\ v.type \in {"object", "array"}
  BY <1>1 DEF IsHolder, IsJson
<1> HIDE DEF fields
<1>7. IsJson(V \cup W \cup {put})
  <2> DEFINE U == V \cup W \cup {put}
  <2>1. ASSUME NEW u \in V \cup W
        PROVE  /\ u.type \in Types
               /\ u.type = "null"    => u = Null
               /\ u.type = "string"  => u = Str(u.text)
               /\ u.type = "boolean" => u.truth \in BOOLEAN /\ u = Bool(u.truth)
               /\ u.type = "number"  => u.hundredths \in Int /\ u = Num(u.hundredths)
               /\ u.type = "integer" => u.wraps \in Int /\ u.low \in Int /\ u = Wide(u.wraps, u.low)
               /\ u.type \in {"object", "array"} =>
                        /\ u = [type |-> u.type, fields |-> u.fields]
                        /\ \A q \in DOMAIN u.fields : u.fields[q] \in U
    BY <1>1, <1>4 DEF IsJson
  <2>2. put.type = v.type /\ put.fields = fields
    OBVIOUS
  <2>3. /\ put.type \in Types
        /\ put.type = "null"    => put = Null
        /\ put.type = "string"  => put = Str(put.text)
        /\ put.type = "boolean" => put.truth \in BOOLEAN /\ put = Bool(put.truth)
        /\ put.type = "number"  => put.hundredths \in Int /\ put = Num(put.hundredths)
        /\ put.type = "integer" =>
                put.wraps \in Int /\ put.low \in Int /\ put = Wide(put.wraps, put.low)
        /\ put.type \in {"object", "array"} =>
                /\ put = [type |-> put.type, fields |-> put.fields]
                /\ \A q \in DOMAIN put.fields : put.fields[q] \in U
    <3>1. \A q \in DOMAIN put.fields : put.fields[q] \in U
      BY <1>5, <2>2
    <3>2. put = [type |-> put.type, fields |-> put.fields]
      BY <2>2
    <3> HIDE DEF put, U
    <3> QED
      BY <1>6, <2>2, <3>1, <3>2
  <2> HIDE DEF put
  <2> QED
    BY <2>1, <2>3 DEF IsJson
<1>8. IsNarrow(Values) => IsNarrow(V \cup W \cup {put})
  <2>1. put.type # "integer"
    BY <1>6
  <2> HIDE DEF put
  <2> QED
    BY <1>1, <1>4, <2>1 DEF IsNarrow
<1>9. Put(v, k, new).type = v.type
  BY <1>3
<1> HIDE DEF put
<1> QED
  BY <1>3, <1>7, <1>8, <1>9 DEF IsPlain

\* What HasParent passes on its way down the first n keys of a path.
Walks(node, d, path, n) ==
  node = [i \in 0 .. n |->
            IF i = 0 THEN d
            ELSE IF /\ node[i - 1].type \in {"object", "array"}
                    /\ path[i] \in DOMAIN node[i - 1].fields
                 THEN node[i - 1].fields[path[i]] ELSE Absent]

LEMMA WalkExists ==
  ASSUME NEW d, IsPlain(d), NEW path, NEW n \in Nat
  PROVE  \E node : Walks(node, d, path, n)
<1>1. PICK J : IsJson(J) /\ d \in J
  BY DEF IsPlain
<1> DEFINE V == J \cup {Absent}
           Child(x, k) == IF /\ x.type \in {"object", "array"}
                             /\ path[k] \in DOMAIN x.fields
                          THEN x.fields[path[k]] ELSE Absent
           G == [k \in Nat |-> [x \in V |-> Child(x, k + 1)]]
<1>2. ~(Absent.type \in {"object", "array"})
  BY DEF Absent
<1>3. \A x \in V : \A k : Child(x, k) \in V
  BY <1>1, <1>2 DEF IsJson
<1>4. \A k \in Nat : \A x \in V : G[k][x] = Child(x, k + 1)
  OBVIOUS
<1> HIDE DEF Child
<1>5. G \in [Nat -> [V -> V]]
  BY <1>3
<1>6. d \in V
  BY <1>1
<1> HIDE DEF V, G
<1>7. PICK f \in [0 .. n -> V] : Runs(f, d, G, n)
  BY <1>5, <1>6, RunsExist
<1>8. f[0] = d
  BY <1>7 DEF Runs
<1>9. ASSUME NEW i \in 0 .. n, i # 0 PROVE f[i] = Child(f[i - 1], i)
  <2>1. i - 1 \in 0 .. n - 1 /\ i - 1 \in Nat /\ (i - 1) + 1 = i /\ i - 1 \in 0 .. n
    BY <1>9
  <2>2. f[(i - 1) + 1] = G[i - 1][f[i - 1]]
    BY <1>7, <2>1 DEF Runs
  <2>3. f[i - 1] \in V
    BY <1>7, <2>1
  <2> QED
    BY <1>4, <2>1, <2>2, <2>3
<1>10. f = [i \in 0 .. n |-> IF i = 0 THEN d ELSE Child(f[i - 1], i)]
  BY <1>7, <1>8, <1>9
<1> QED
  BY <1>10 DEF Walks, Child

\* Its nodes are those SetAt passes, and hold the next one.
LEMMA ParentsHold ==
  ASSUME NEW d, IsPlain(d), NEW path, NEW n \in Nat, NEW node, Walks(node, d, path, n),
         IsHolder(node[n])
  PROVE  /\ \A i \in 0 .. n : IsHolder(node[i]) /\ IsPlain(node[i])
         /\ \A i \in 1 .. n : node[i] = node[i - 1].fields[path[i]]
<1>1. node[0] = d
  BY DEF Walks
<1>2. ASSUME NEW i \in 1 .. n, IsHolder(node[i])
      PROVE  /\ IsHolder(node[i - 1]) /\ path[i] \in DOMAIN node[i - 1].fields
             /\ node[i] = node[i - 1].fields[path[i]]
  <2>1. i \in 0 .. n /\ i # 0
    OBVIOUS
  <2>2. node[i] = IF /\ node[i - 1].type \in {"object", "array"}
                     /\ path[i] \in DOMAIN node[i - 1].fields
                  THEN node[i - 1].fields[path[i]] ELSE Absent
    BY <2>1 DEF Walks
  <2>3. ~IsHolder(Absent)
    BY DEF IsHolder, Absent
  <2> QED
    BY <1>2, <2>2, <2>3 DEF IsHolder
<1>3. \A i \in 0 .. n : IsHolder(node[i])
  <2> DEFINE S == {k \in Nat : k <= n => IsHolder(node[n - k])}
  <2>1. 0 \in S
    OBVIOUS
  <2>2. ASSUME NEW k \in Nat, k \in S PROVE k + 1 \in S
    <3> SUFFICES ASSUME k + 1 <= n PROVE IsHolder(node[n - (k + 1)])
      OBVIOUS
    <3>1. n - k \in 1 .. n /\ n - (k + 1) = (n - k) - 1 /\ k <= n
      OBVIOUS
    <3>2. IsHolder(node[n - k])
      BY <2>2, <3>1
    <3> QED
      BY <1>2, <3>1, <3>2
  <2>3. Nat \subseteq S
    <3> HIDE DEF S
    <3> QED
      BY <2>1, <2>2, Induction
  <2> TAKE i \in 0 .. n
  <2>4. n - i \in Nat /\ n - i <= n /\ n - (n - i) = i
    OBVIOUS
  <2> QED
    BY <2>3, <2>4
<1>4. \A i \in 0 .. n : IsPlain(node[i])
  <2> DEFINE S == {k \in Nat : k <= n => IsPlain(node[k])}
  <2>1. 0 \in S
    BY <1>1
  <2>2. ASSUME NEW k \in Nat, k \in S PROVE k + 1 \in S
    <3> SUFFICES ASSUME k + 1 <= n PROVE IsPlain(node[k + 1])
      OBVIOUS
    <3>1. k + 1 \in 1 .. n /\ k + 1 \in 0 .. n /\ (k + 1) - 1 = k /\ k <= n /\ k \in 0 .. n
      OBVIOUS
    <3>2. /\ IsHolder(node[k]) /\ path[k + 1] \in DOMAIN node[k].fields
          /\ node[k + 1] = node[k].fields[path[k + 1]]
      BY <1>2, <1>3, <3>1
    <3>3. IsPlain(node[k])
      BY <2>2, <3>1
    <3> QED
      BY <3>2, <3>3 DEF IsHolder, IsJson, IsPlain
  <2>3. Nat \subseteq S
    <3> HIDE DEF S
    <3> QED
      BY <2>1, <2>2, Induction
  <2> TAKE i \in 0 .. n
  <2>4. i \in Nat /\ i <= n
    OBVIOUS
  <2> QED
    BY <2>3, <2>4
<1>5. \A i \in 1 .. n : i \in 0 .. n
  OBVIOUS
<1> QED
  BY <1>2, <1>3, <1>4, <1>5

\* What SetAt writes on its way up the path of n keys.
Rewrites(f, node, path, new, n, m) ==
  f = [j \in 0 .. m |->
         IF j = 0 THEN new
         ELSE Put(node[n - j], path[n - j + 1], f[j - 1])]

LEMMA RewritesExist ==
  ASSUME NEW node, NEW path, NEW new, NEW n \in Nat, NEW m \in Nat
  PROVE  \E f : Rewrites(f, node, path, new, n, m)
<1> DEFINE S == {k \in Nat : \E f : Rewrites(f, node, path, new, n, k)}
<1>1. 0 \in S
  <2> DEFINE f == [j \in 0 .. 0 |-> new]
  <2>1. f[0] = new
    OBVIOUS
  <2>2. f = [j \in 0 .. 0 |-> IF j = 0 THEN new
                              ELSE Put(node[n - j], path[n - j + 1], f[j - 1])]
    <3>1. \A j \in 0 .. 0 : j = 0
      OBVIOUS
    <3> QED
      BY <3>1
  <2> HIDE DEF f
  <2>3. Rewrites(f, node, path, new, n, 0)
    BY <2>2 DEF Rewrites
  <2> QED
    BY <2>3
<1>2. ASSUME NEW k \in Nat, k \in S PROVE k + 1 \in S
  <2>1. PICK f : Rewrites(f, node, path, new, n, k)
    BY <1>2
  <2> DEFINE Next(h, j) == Put(node[n - j], path[n - j + 1], h)
             g == [j \in 0 .. k + 1 |-> IF j <= k THEN f[j] ELSE Next(f[k], k + 1)]
             Step(h) == [j \in 0 .. k + 1 |-> IF j = 0 THEN new ELSE Next(h[j - 1], j)]
  <2>2. \A j \in 0 .. k : f[j] = IF j = 0 THEN new ELSE Next(f[j - 1], j)
    BY <2>1 DEF Rewrites
  <2> HIDE DEF Next
  <2>3. ASSUME NEW j \in 0 .. k + 1 PROVE g[j] = IF j = 0 THEN new ELSE Next(g[j - 1], j)
    <3>1. CASE j = 0
      BY <2>2, <3>1
    <3>2. CASE j # 0 /\ j <= k
      <4>1. j \in 0 .. k /\ j - 1 \in 0 .. k + 1 /\ j - 1 <= k
        BY <3>2
      <4>2. g[j] = f[j] /\ g[j - 1] = f[j - 1]
        BY <3>2, <4>1
      <4> QED
        BY <2>2, <3>2, <4>1, <4>2
    <3>3. CASE j = k + 1
      <4>1. j # 0 /\ j - 1 = k /\ k \in 0 .. k + 1 /\ k <= k /\ ~(j <= k)
        BY <3>3
      <4>2. g[j] = Next(f[k], k + 1) /\ g[j - 1] = f[k]
        BY <3>3, <4>1
      <4> QED
        BY <3>3, <4>1, <4>2
    <3> QED
      BY <3>1, <3>2, <3>3
  <2>4. g = [j \in 0 .. k + 1 |-> g[j]]
    OBVIOUS
  <2> HIDE DEF g
  <2>5. g = Step(g)
    BY <2>3, <2>4
  <2>6. Rewrites(g, node, path, new, n, k + 1)
    BY <2>5 DEF Rewrites, Next
  <2> QED
    BY <2>6
<1>3. Nat \subseteq S
  <2> HIDE DEF S
  <2> QED
    BY <1>1, <1>2, Induction
<1> QED
  BY <1>3

LEMMA SetAtHolds ==
  ASSUME NEW d, IsPlain(d), d.type = "object",
         NEW path \in Seq(STRING) \ {<<>>}, NEW new, IsWritten(new), HasParent(d, path)
  PROVE  IsPlain(SetAt(d, path, new)) /\ SetAt(d, path, new).type = "object"
<1> DEFINE n == Len(path)
           Down(f) == [i \in 0 .. n - 1 |->
                         IF i = 0 THEN d
                         ELSE IF /\ f[i - 1].type \in {"object", "array"}
                                 /\ path[i] \in DOMAIN f[i - 1].fields
                              THEN f[i - 1].fields[path[i]] ELSE Absent]
           To(f) == [i \in 0 .. n - 1 |-> IF i = 0 THEN d ELSE f[i - 1].fields[path[i]]]
           parent == CHOOSE f : f = Down(f)
           node == CHOOSE f : f = To(f)
           Up(f) == [j \in 0 .. n |-> IF j = 0 THEN new
                                      ELSE Put(node[n - j], path[n - j + 1], f[j - 1])]
           changed == CHOOSE f : f = Up(f)
<1>1. HasParent(d, path) => parent[n - 1].type \in {"object", "array"}
  BY DEF HasParent
<1>2. SetAt(d, path, new) = changed[n]
  BY DEF SetAt
<1>3. n \in Nat \ {0}
  OBVIOUS
<1>4. \A f : Walks(f, d, path, n - 1) <=> f = Down(f)
  BY DEF Walks
<1>5. \A f : Rewrites(f, node, path, new, n, n) <=> f = Up(f)
  BY DEF Rewrites
<1> HIDE DEF n, Up, Down, To
<1>6. changed = Up(changed)
  <2>1. \E f : f = Up(f)
    BY <1>3, <1>5, RewritesExist
  <2> QED
    BY <2>1
<1>7. Rewrites(changed, node, path, new, n, n)
  BY <1>5, <1>6
<1>8. Walks(parent, d, path, n - 1)
  <2>1. n - 1 \in Nat
    BY <1>3
  <2>2. \E f : f = Down(f)
    BY <1>4, <2>1, WalkExists
  <2>3. parent = Down(parent)
    BY <2>2
  <2> QED
    BY <1>4, <2>3
<1> HIDE DEF parent, changed
<1>9. /\ \A i \in 0 .. n - 1 : IsHolder(parent[i]) /\ IsPlain(parent[i])
      /\ \A i \in 1 .. n - 1 : parent[i] = parent[i - 1].fields[path[i]]
  <2>1. n - 1 \in Nat /\ IsHolder(parent[n - 1])
    BY <1>1, <1>3 DEF IsHolder
  <2> QED
    BY <1>8, <2>1, ParentsHold
<1>10. parent = [i \in 0 .. n - 1 |-> parent[i]] /\ parent[0] = d
  <2>1. 0 \in 0 .. n - 1
    BY <1>3
  <2> QED
    BY <1>8, <2>1 DEF Walks
<1>11. node = To(node)
  <2>1. \A i \in 0 .. n - 1 :
            parent[i] = IF i = 0 THEN d ELSE parent[i - 1].fields[path[i]]
    <3>1. \A i \in 0 .. n - 1 : i = 0 \/ i \in 1 .. n - 1
      BY <1>3
    <3> QED
      BY <1>9, <1>10, <3>1
  <2>2. parent = To(parent)
    BY <1>10, <2>1 DEF To
  <2> QED
    BY <2>2
<1> HIDE DEF node
<1>12. \A i \in 0 .. n - 1 : node[i] = IF i = 0 THEN d ELSE node[i - 1].fields[path[i]]
  BY <1>11 DEF To
<1>13. \A i \in 0 .. n - 1 : node[i] = parent[i]
  <2> DEFINE S == {k \in Nat : k <= n - 1 => node[k] = parent[k]}
  <2>1. 0 \in S
    BY <1>3, <1>10, <1>12
  <2>2. ASSUME NEW k \in Nat, k \in S PROVE k + 1 \in S
    <3> SUFFICES ASSUME k + 1 <= n - 1 PROVE node[k + 1] = parent[k + 1]
      OBVIOUS
    <3>1. k + 1 \in 1 .. n - 1 /\ k + 1 \in 0 .. n - 1 /\ (k + 1) - 1 = k /\ k + 1 # 0 /\ k <= n - 1
      BY <1>3
    <3>2. node[k] = parent[k]
      BY <2>2, <3>1
    <3>3. node[k + 1] = node[k].fields[path[k + 1]]
      BY <1>12, <3>1
    <3>4. parent[k + 1] = parent[k].fields[path[k + 1]]
      BY <1>9, <3>1
    <3> QED
      BY <3>2, <3>3, <3>4
  <2>3. Nat \subseteq S
    <3> HIDE DEF S
    <3> QED
      BY <2>1, <2>2, Induction
  <2> TAKE i \in 0 .. n - 1
  <2>4. i \in Nat /\ i <= n - 1
    BY <1>3
  <2> QED
    BY <2>3, <2>4
<1>14. /\ changed[0] = new
       /\ \A j \in 1 .. n : changed[j] = Put(node[n - j], path[n - j + 1], changed[j - 1])
  <2>1. 0 \in 0 .. n /\ \A j \in 1 .. n : j \in 0 .. n /\ j # 0
    BY <1>3
  <2> QED
    BY <1>7, <2>1 DEF Rewrites
<1>15. ASSUME NEW j \in 1 .. n, IsWritten(changed[j - 1])
       PROVE  IsPlain(changed[j]) /\ changed[j].type = node[n - j].type
  <2>1. n - j \in 0 .. n - 1
    BY <1>3
  <2>2. IsHolder(node[n - j]) /\ IsPlain(node[n - j])
    BY <1>9, <1>13, <2>1
  <2> QED
    BY <1>14, <1>15, <2>2, PutHolds
<1>16. \A j \in 0 .. n : IsWritten(changed[j])
  <2> DEFINE S == {k \in Nat : k <= n => IsWritten(changed[k])}
  <2>1. 0 \in S
    BY <1>14
  <2>2. ASSUME NEW k \in Nat, k \in S PROVE k + 1 \in S
    <3> SUFFICES ASSUME k + 1 <= n PROVE IsWritten(changed[k + 1])
      OBVIOUS
    <3>1. k + 1 \in 1 .. n /\ (k + 1) - 1 = k /\ k <= n
      BY <1>3
    <3>2. IsWritten(changed[k])
      BY <2>2, <3>1
    <3> QED
      BY <1>15, <3>1, <3>2 DEF IsWritten
  <2>3. Nat \subseteq S
    <3> HIDE DEF S
    <3> QED
      BY <2>1, <2>2, Induction
  <2> TAKE j \in 0 .. n
  <2>4. j \in Nat /\ j <= n
    BY <1>3
  <2> QED
    BY <2>3, <2>4
<1>17. IsPlain(changed[n]) /\ changed[n].type = node[0].type
  <2>1. n \in 1 .. n /\ n - 1 \in 0 .. n /\ n - n = 0
    BY <1>3
  <2> QED
    BY <1>15, <1>16, <2>1
<1>18. node[0] = d
  BY <1>3, <1>12
<1> QED
  BY <1>2, <1>17, <1>18

LEMMA PlainValues == (\A s : IsPlain(Str(s))) /\ IsPlain(Obj(<<>>))
<1>1. ASSUME NEW s PROVE IsPlain(Str(s))
  <2>1. IsJson({Str(s)}) /\ IsNarrow({Str(s)})
    BY DEF IsJson, IsNarrow, Str, Types
  <2> QED
    BY <2>1 DEF IsPlain
<1>2. IsJson({Obj(<<>>)}) /\ IsNarrow({Obj(<<>>)})
  BY DEF IsJson, IsNarrow, Obj, Types
<1> QED
  BY <1>1, <1>2 DEF IsPlain

\* No directory on the command line.
NotGiven == ""

\* The document says that the output goes to the directory.
Directed(doc, dir) ==
  /\ Has(doc, "output") /\ Has(doc.fields["output"], "directory")
  /\ doc.fields["output"].fields["directory"] = Str(dir)

\* What Put leaves under a key.
LEMMA PutReads ==
  ASSUME NEW v, IsPlain(v), v.type = "object", NEW k, NEW new, IsPlain(new)
  PROVE  /\ IsPlain(Put(v, k, new)) /\ Put(v, k, new).type = "object"
         /\ Has(Put(v, k, new), k) /\ Put(v, k, new).fields[k] = new
         /\ \A q : q # k => /\ Has(Put(v, k, new), q) <=> Has(v, q)
                            /\ Has(v, q) => Put(v, k, new).fields[q] = v.fields[q]
<1>1. v = [type |-> v.type, fields |-> v.fields]
  BY DEF IsPlain, IsJson
<1>2. new.type # "absent"
  BY DEF IsPlain, IsJson, Types
<1> DEFINE fields == [q \in DOMAIN v.fields \cup {k} |-> IF q = k THEN new ELSE v.fields[q]]
<1>3. Put(v, k, new) = [type |-> "object", fields |-> fields]
  BY <1>1, <1>2 DEF Put
<1>4. Put(v, k, new).type = "object" /\ Put(v, k, new).fields = fields
  BY <1>3
<1>5. IsPlain(Put(v, k, new))
  BY PutHolds DEF IsHolder, IsWritten
<1> QED
  BY <1>4, <1>5 DEF Has

LEMMA InjectedHolds ==
  ASSUME NEW doc, IsPlain(doc), doc.type = "object", NEW dir,
         dir = NotGiven \/ ~Has(doc, "output") \/ doc.fields["output"].type = "object"
  PROVE  /\ IsPlain(Injected(doc, dir)) /\ Injected(doc, dir).type = "object"
         /\ dir # NotGiven => Directed(Injected(doc, dir), dir)
<1> DEFINE sim == Field(doc, "simulation", Null)
           simulated == IF sim.type = "object" THEN doc
                        ELSE Put(doc, "simulation", Obj(<<>>))
           output == Field(simulated, "output", Obj(<<>>))
           into == Put(output, "directory", Str(dir))
<1>1. Injected(doc, dir) = IF dir = NotGiven THEN simulated
                                ELSE Put(simulated, "output", into)
  BY DEF Injected, NotGiven
<1>3. /\ IsPlain(simulated) /\ simulated.type = "object"
      /\ Has(simulated, "output") <=> Has(doc, "output")
      /\ Has(doc, "output") => simulated.fields["output"] = doc.fields["output"]
  BY PutReads, PlainValues
<1> HIDE DEF simulated
<1>4. Obj(<<>>).type = "object"
  BY DEF Obj
<1>5. dir # NotGiven => IsPlain(output) /\ output.type = "object"
  BY <1>3, <1>4, PlainHolds, PlainValues DEF Field
<1> HIDE DEF output
<1>6. dir # NotGiven => /\ IsPlain(into) /\ Has(into, "directory")
                /\ into.fields["directory"] = Str(dir)
  BY <1>5, PlainValues, PutReads
<1> HIDE DEF into
<1>7. dir # NotGiven => /\ IsPlain(Injected(doc, dir)) /\ Injected(doc, dir).type = "object"
                /\ Directed(Injected(doc, dir), dir)
  BY <1>1, <1>3, <1>6, PutReads DEF Directed
<1>8. dir = NotGiven => IsPlain(Injected(doc, dir)) /\ Injected(doc, dir).type = "object"
  BY <1>1, <1>3
<1> QED
  BY <1>7, <1>8

-----------------------------------------------------------------------------
(* The inductive invariant of the pipeline.                                *)

NoStep == ""

\* The steps that have a verdict of the schema pass, a configuration, a mesh.
Checked == {"checked", "decoded", "meshed", "accepted", "created", "ready"}
WithConfig == {"decoded", "meshed", "accepted", "created", "ready"}
WithMesh == {"meshed", "accepted", "created", "ready"}
AcceptedSteps == {"accepted", "created", "ready"}

DocumentInv ==
  /\ reached \in Steps /\ edits \in 0 .. MaxEdits
  /\ IsPlain(document) /\ document.type = "object"
  /\ override \in AbsolutePaths \cup {NotGiven}
  /\ reached \in Checked \cup {"loaded"} /\ override # NotGiven => Directed(document, override)

VerdictInv ==
  /\ IsValidator(validator)
  /\ reached \in Checked => Passes(document, NoMesh)
  /\ reached \in AcceptedSteps => Passes(document, mesh)
  /\ reached \in AcceptedSteps \cup {"failed"} /\ mesh # NoMesh =>
        validator.errors = Validate(NewValidator, document, mesh).errors

MeshInv ==
  /\ mesh \in Meshes \cup {NoMesh}
  /\ mesh # NoMesh <=> reached \in WithMesh \/ (reached = "failed" /\ mesh \in Meshes)

ConfigInv ==
  /\ reached \in {"document", "loaded", "checked"} => config = NoConfig
  /\ reached \in WithConfig => config = GetProblemConfig(document)
  /\ config # NoConfig =>
        /\ config = GetProblemConfig(document) /\ Passes(document, NoMesh)
        /\ override # NotGiven => Directed(document, override)
  /\ reached \in {"created", "ready"} => solver = SolverFor

\* What may have failed, and what that says of the document.
FailureInv ==
  /\ reached = "failed" <=> failure # NoFailure
  /\ reached = "failed" => failure[1] \in {"load", "checked", "accepted", "model"}
  /\ failure[1] = "checked" => ~Passes(document, NoMesh)

CInv == DocumentInv /\ VerdictInv /\ MeshInv /\ ConfigInv /\ FailureInv

LEMMA Failures ==
  /\ NoFailure[1] = NoStep
  /\ NoStep \notin {"load", "checked", "accepted", "model", "decoded", "configuration"}
  /\ \A s, r : <<s, r>>[1] = s
  /\ \A s \in {"load", "checked", "accepted", "model"} : \A r : <<s, r>> # NoFailure
<1>1. NoFailure = <<NoStep, {}>>
  BY DEF NoFailure, NoStep
<1>2. \A s, r : <<s, r>>[1] = s
  OBVIOUS
<1>3. NoStep \notin {"load", "checked", "accepted", "model", "decoded", "configuration"}
  BY Zenon DEF NoStep
<1> QED
  BY <1>1, <1>2, <1>3

LEMMA MeshesAreReal == \A m \in Meshes : m # NoMesh
  BY MeshesAssumption DEF NoMesh

LEMMA SolverStays == UNCHANGED config => SolverFor' = SolverFor
  BY DEF SolverFor, ThreeD

LEMMA CInvInit == CInit => CInv
<1> SUFFICES ASSUME CInit PROVE CInv
  OBVIOUS
<1>1. /\ reached = "document" /\ document \in Documents /\ edits = 0
      /\ override = NotGiven /\ validator = NewValidator /\ config = NoConfig
      /\ mesh = NoMesh /\ failure = NoFailure
  BY DEF CInit, NotGiven
<1>2. DocumentInv
  BY <1>1, DocumentsAssumption, EditsAssumption
     DEF DocumentInv, Steps, Checked, IsPlain
<1>3. VerdictInv
  BY <1>1 DEF VerdictInv, IsValidator, NewValidator, Checked, AcceptedSteps
<1>4. MeshInv
  BY <1>1 DEF MeshInv, WithMesh
<1>5. ConfigInv
  BY <1>1 DEF ConfigInv, WithConfig
<1>6. FailureInv
  BY <1>1, Failures DEF FailureInv
<1> QED
  BY <1>2, <1>3, <1>4, <1>5, <1>6 DEF CInv

LEMMA EditKeeps ==
  ASSUME CInv, NEW e \in Edits, Edit(e)
  PROVE  CInv'
<1>1. /\ reached = "document" /\ reached' = reached /\ failure' = failure
      /\ document' = SetAt(document, e.path, e.value) /\ HasParent(document, e.path)
      /\ edits < MaxEdits /\ edits' = edits + 1
      /\ UNCHANGED <<override, validator, config, mesh, solver>>
  BY DEF Edit
<1>2. IsPlain(document') /\ document'.type = "object"
  <2>1. e.path \in Seq(STRING) \ {<<>>} /\ IsWritten(e.value)
    BY DocumentsAssumption DEF IsWritten, IsPlain
  <2> QED
    BY <1>1, <2>1, SetAtHolds DEF CInv, DocumentInv
<1>3. DocumentInv'
  BY <1>1, <1>2, EditsAssumption DEF CInv, DocumentInv, Steps, Checked
<1>4. VerdictInv'
  BY <1>1 DEF CInv, VerdictInv, Checked, AcceptedSteps
<1>5. MeshInv'
  BY <1>1 DEF CInv, MeshInv, WithMesh
<1>6. ConfigInv'
  BY <1>1 DEF CInv, ConfigInv, WithConfig
<1>7. FailureInv'
  <2>1. failure = NoFailure
    BY <1>1 DEF CInv, FailureInv
  <2> QED
    BY <1>1, <2>1, Failures DEF FailureInv
<1> QED
  BY <1>3, <1>4, <1>5, <1>6, <1>7 DEF CInv

LEMMA LoadKeeps ==
  ASSUME CInv, NEW dir \in Overrides, Load(dir)
  PROVE  CInv'
<1> DEFINE clash == Has(document, "output") /\ document.fields["output"].type # "object"
<1>1. /\ reached = "document" /\ override' = dir
      /\ UNCHANGED <<edits, validator, config, mesh, solver>>
  BY DEF Load
<1>2. \/ /\ reached' = "failed" /\ failure' = <<"load", {"output"}>> /\ document' = document
      \/ /\ dir = NotGiven \/ ~clash
         /\ reached' = "loaded" /\ failure' = failure /\ document' = Injected(document, dir)
  BY Zenon DEF Load, Reject, Reach, NotGiven
<1>3. dir \in AbsolutePaths \cup {NotGiven}
  BY OverridesAssumption DEF NotGiven
<1>4. DocumentInv'
  <2>1. CASE document' = document /\ reached' = "failed"
    BY <1>1, <1>3, <2>1 DEF CInv, DocumentInv, Steps, Checked
  <2>2. CASE /\ dir = NotGiven \/ ~clash
             /\ reached' = "loaded" /\ document' = Injected(document, dir)
    <3>1. /\ IsPlain(document') /\ document'.type = "object"
          /\ dir # NotGiven => Directed(document', dir)
      BY <2>2, InjectedHolds DEF CInv, DocumentInv
    <3> QED
      BY <1>1, <1>3, <2>2, <3>1 DEF CInv, DocumentInv, Steps, Checked
  <2> QED
    BY <1>2, <2>1, <2>2
<1>5. reached' \in {"loaded", "failed"} /\ mesh = NoMesh /\ config = NoConfig
  BY <1>1, <1>2 DEF CInv, MeshInv, ConfigInv, WithMesh
<1>6. VerdictInv'
  BY <1>1, <1>5 DEF CInv, VerdictInv, Checked, AcceptedSteps
<1>7. MeshInv'
  BY <1>1, <1>5, MeshesAreReal DEF CInv, MeshInv, WithMesh
<1>8. ConfigInv'
  BY <1>1, <1>5 DEF CInv, ConfigInv, WithConfig
<1>9. FailureInv'
  <2>1. failure = NoFailure
    BY <1>1 DEF CInv, FailureInv
  <2> QED
    BY <1>2, <2>1, Failures DEF FailureInv
<1> QED
  BY <1>4, <1>6, <1>7, <1>8, <1>9 DEF CInv

LEMMA CheckSchemaKeeps ==
  ASSUME CInv, CheckSchema
  PROVE  CInv'
<1>1. /\ reached = "loaded" /\ validator' = Validate(validator, document, NoMesh)
      /\ UNCHANGED <<document, edits, override, config, mesh, solver>>
      /\ IF Accepts(validator')
         THEN reached' = "checked" /\ failure' = failure
         ELSE /\ reached' = "failed"
              /\ failure' = <<"checked", {e[1] : e \in validator'.errors}>>
  BY DEF CheckSchema, Check, Reach, Reject
<1>2. IsValidator(validator') /\ (Accepts(validator') <=> Passes(document, NoMesh))
  BY <1>1, VerdictIsFresh DEF CInv, VerdictInv
<1>3. mesh = NoMesh /\ config = NoConfig /\ failure = NoFailure
  BY <1>1 DEF CInv, MeshInv, ConfigInv, FailureInv, WithMesh
<1>4. \/ reached' = "checked" /\ Passes(document, NoMesh) /\ failure' = NoFailure
      \/ /\ reached' = "failed" /\ ~Passes(document, NoMesh)
         /\ \E report : failure' = <<"checked", report>>
  BY <1>1, <1>2, <1>3
<1>5. DocumentInv'
  BY <1>1, <1>4 DEF CInv, DocumentInv, Steps, Checked
<1>6. VerdictInv'
  BY <1>1, <1>2, <1>3, <1>4 DEF VerdictInv, Checked, AcceptedSteps
<1>7. MeshInv'
  BY <1>1, <1>3, <1>4, MeshesAreReal DEF CInv, MeshInv, WithMesh
<1>8. ConfigInv'
  BY <1>1, <1>3, <1>4 DEF CInv, ConfigInv, WithConfig
<1>9. FailureInv'
  BY <1>1, <1>4, Failures DEF FailureInv
<1> QED
  BY <1>5, <1>6, <1>7, <1>8, <1>9 DEF CInv

LEMMA DecodeKeeps ==
  ASSUME CInv, Decode
  PROVE  CInv'
<1>1. /\ reached = "checked" /\ UNCHANGED <<document, edits, override, validator, mesh, solver>>
      /\ Throws(document) = {} => /\ reached' = "decoded" /\ failure' = failure
                                  /\ config' = GetProblemConfig(document)
  BY DEF Decode, Reach
<1>2. IsValue(document) /\ Passes(document, NoMesh)
  BY PlainIsValue, <1>1 DEF CInv, DocumentInv, VerdictInv, Checked
<1>3. Throws(document) = {}
  BY <1>2, ParserReads
<1>4. DocumentInv'
  BY <1>1, <1>3 DEF CInv, DocumentInv, Steps, Checked
<1>5. VerdictInv'
  BY <1>1, <1>3 DEF CInv, VerdictInv, Checked, AcceptedSteps
<1>6. MeshInv'
  BY <1>1, <1>3 DEF CInv, MeshInv, WithMesh
<1>7. ConfigInv'
  <2>1. override # NotGiven => Directed(document, override)
    BY <1>1 DEF CInv, DocumentInv, Checked
  <2> QED
    BY <1>1, <1>2, <1>3, <2>1 DEF ConfigInv, WithConfig
<1>8. FailureInv'
  BY <1>1, <1>3, Failures DEF CInv, FailureInv
<1> QED
  BY <1>4, <1>5, <1>6, <1>7, <1>8 DEF CInv

LEMMA LoadMeshKeeps ==
  ASSUME CInv, NEW m \in Meshes, LoadMesh(m)
  PROVE  CInv'
<1>1. /\ reached = "decoded" /\ reached' = "meshed" /\ mesh' = m /\ failure' = failure
      /\ UNCHANGED <<document, edits, override, validator, config, solver>>
  BY DEF LoadMesh, Reach
<1>2. DocumentInv'
  BY <1>1 DEF CInv, DocumentInv, Steps, Checked
<1>3. VerdictInv'
  BY <1>1 DEF CInv, VerdictInv, Checked, AcceptedSteps
<1>4. MeshInv'
  BY <1>1, MeshesAreReal DEF MeshInv, WithMesh
<1>5. ConfigInv'
  BY <1>1 DEF CInv, ConfigInv, WithConfig
<1>6. FailureInv'
  BY <1>1 DEF CInv, FailureInv
<1> QED
  BY <1>2, <1>3, <1>4, <1>5, <1>6 DEF CInv

LEMMA CheckWithMeshKeeps ==
  ASSUME CInv, CheckWithMesh
  PROVE  CInv'
<1>1. /\ reached = "meshed" /\ validator' = Validate(validator, document, mesh)
      /\ UNCHANGED <<document, edits, override, config, mesh, solver>>
      /\ IF Accepts(validator')
         THEN reached' = "accepted" /\ failure' = failure
         ELSE /\ reached' = "failed"
              /\ failure' = <<"accepted", {e[1] : e \in validator'.errors}>>
  BY DEF CheckWithMesh, Check, Reach, Reject
<1>2. /\ IsValidator(validator') /\ (Accepts(validator') <=> Passes(document, mesh))
      /\ validator'.errors = Validate(NewValidator, document, mesh).errors
  BY <1>1, VerdictIsFresh DEF CInv, VerdictInv
<1>3. /\ mesh \in Meshes /\ mesh # NoMesh /\ failure = NoFailure
      /\ Passes(document, NoMesh)
  BY <1>1 DEF CInv, MeshInv, VerdictInv, FailureInv, WithMesh, Checked
<1>4. \/ reached' = "accepted" /\ Passes(document, mesh) /\ failure' = NoFailure
      \/ /\ reached' = "failed"
         /\ \E report : failure' = <<"accepted", report>>
  BY <1>1, <1>2, <1>3
<1>5. DocumentInv'
  BY <1>1, <1>4 DEF CInv, DocumentInv, Steps, Checked
<1>6. VerdictInv'
  BY <1>1, <1>2, <1>3, <1>4 DEF VerdictInv, Checked, AcceptedSteps
<1>7. MeshInv'
  BY <1>1, <1>3, <1>4 DEF MeshInv, WithMesh
<1>8. ConfigInv'
  BY <1>1, <1>4 DEF CInv, ConfigInv, WithConfig
<1>9. FailureInv'
  BY <1>1, <1>4, Failures DEF FailureInv
<1> QED
  BY <1>5, <1>6, <1>7, <1>8, <1>9 DEF CInv

LEMMA CreateKeeps ==
  ASSUME CInv, Create
  PROVE  CInv'
<1>1. /\ reached = "accepted" /\ reached' = "created" /\ solver' = SolverFor
      /\ failure' = failure
      /\ UNCHANGED <<document, edits, override, validator, config, mesh>>
  BY DEF Create, Reach
<1>2. DocumentInv'
  BY <1>1 DEF CInv, DocumentInv, Steps, Checked
<1>3. VerdictInv'
  BY <1>1 DEF CInv, VerdictInv, Checked, AcceptedSteps
<1>4. MeshInv'
  BY <1>1 DEF CInv, MeshInv, WithMesh
<1>5. ConfigInv'
  BY <1>1, SolverStays DEF CInv, ConfigInv, WithConfig
<1>6. FailureInv'
  BY <1>1 DEF CInv, FailureInv
<1> QED
  BY <1>2, <1>3, <1>4, <1>5, <1>6 DEF CInv

LEMMA SetUpKeeps ==
  ASSUME CInv, SetUp
  PROVE  CInv'
<1>1. /\ reached = "created"
      /\ UNCHANGED <<document, edits, override, validator, config, mesh, solver>>
      /\ ConfigurationErrors = {} =>
            \/ reached' = "failed" /\ failure' = <<"model", ModelErrors>>
            \/ reached' = "ready" /\ failure' = failure
  BY DEF SetUp, Reach, Reject
<1>2. /\ IsValue(document) /\ mesh # NoMesh /\ mesh \in Meshes /\ Passes(document, mesh)
      /\ config = GetProblemConfig(document) /\ solver = SolverFor
  BY PlainIsValue, <1>1 DEF CInv, DocumentInv, VerdictInv, MeshInv, ConfigInv, AcceptedSteps, WithMesh,
              WithConfig
<1>3. ConfigurationErrors = {}
  BY <1>2, SetUpPasses
<1>4. failure = NoFailure
  BY <1>1 DEF CInv, FailureInv
<1>5. \/ reached' = "ready" /\ failure' = NoFailure
      \/ /\ reached' = "failed"
         /\ \E report : failure' = <<"model", report>>
  BY <1>1, <1>3, <1>4
<1>6. DocumentInv'
  BY <1>1, <1>5 DEF CInv, DocumentInv, Steps, Checked
<1>7. VerdictInv'
  BY <1>1, <1>5 DEF CInv, VerdictInv, Checked, AcceptedSteps
<1>8. MeshInv'
  BY <1>1, <1>2, <1>5 DEF MeshInv, WithMesh
<1>9. ConfigInv'
  BY <1>1, <1>5, SolverStays DEF CInv, ConfigInv, WithConfig
<1>10. FailureInv'
  BY <1>1, <1>5, Failures DEF FailureInv
<1> QED
  BY <1>6, <1>7, <1>8, <1>9, <1>10 DEF CInv

\* CInv is inductive: the document stays a JSON document through the edits and
\* the injection of the output directory, what a pass of ConfigValidator has
\* accepted stays accepted, and what the parser read is read from that document.
THEOREM ConfigInvariance == CSpec => []CInv
<1>1. ASSUME CInv, [CNext]_vars PROVE CInv'
  <2>1. CASE UNCHANGED vars
    <3>1. UNCHANGED <<reached, document, edits, override, validator, config, mesh, solver,
                      failure>>
      BY <2>1 DEF vars
    <3>2. DocumentInv' /\ VerdictInv' /\ MeshInv' /\ FailureInv'
      BY <1>1, <3>1 DEF CInv, DocumentInv, VerdictInv, MeshInv, FailureInv
    <3>3. ConfigInv'
      BY <1>1, <3>1, SolverStays DEF CInv, ConfigInv
    <3> QED
      BY <3>2, <3>3 DEF CInv
  <2>2. CASE CNext
    BY <1>1, <2>2, EditKeeps, LoadKeeps, CheckSchemaKeeps, DecodeKeeps, LoadMeshKeeps,
       CheckWithMeshKeeps, CreateKeeps, SetUpKeeps DEF CNext
  <2> QED
    BY <1>1, <2>1, <2>2
<1> QED
  BY CInvInit, <1>1, PTL DEF CSpec

LEMMA InvSuffices == CInv => ValidationSuffices
<1> SUFFICES ASSUME CInv PROVE ValidationSuffices
  OBVIOUS
<1>1. failure[1] \notin {"decoded", "configuration"}
  BY Failures DEF CInv, FailureInv
<1> QED
  BY <1>1 DEF ValidationSuffices, ParserReadsAccepted, SetUpFindsNoMistake

\* A document both passes of ConfigValidator accept never makes InputParser throw,
\* and no solver's Setup finds a mistake in what was read from it: a name it cannot
\* resolve, a quantity or a direction its solver does not drive, no scenario, a
\* mesh of another dimension.
THEOREM ValidationSufficesAlways == CSpec => []ValidationSuffices
  BY ConfigInvariance, InvSuffices, PTL

LEMMA InvConsistent == CInv => ValidatorIsConsistent
<1> SUFFICES ASSUME CInv PROVE ValidatorIsConsistent
  OBVIOUS
<1>1. SchemaPassIsNecessary
  <2> SUFFICES ASSUME failure[1] = "checked", Has(document, "regions"), NEW m \in Meshes
               PROVE  ~Accepts(Validate(NewValidator, document, m))
    BY DEF SchemaPassIsNecessary
  <2>1. IsValue(document) /\ ~Passes(document, NoMesh)
    BY PlainIsValue DEF CInv, DocumentInv, FailureInv
  <2>2. ~Passes(document, m)
    BY <2>1, SchemaNecessary
  <2>3. IsValidator(NewValidator)
    BY DEF IsValidator, NewValidator
  <2> QED
    BY <2>2, <2>3, VerdictIsFresh
<1>2. ReuseIsFresh
  BY DEF ReuseIsFresh, CInv, VerdictInv, AcceptedSteps
<1> QED
  BY <1>1, <1>2 DEF ValidatorIsConsistent

\* The pass of ConfigValidator without the mesh refuses nothing that the pass with
\* the mesh would accept, and the second pass reports what a new validator would.
THEOREM ValidatorIsConsistentAlways == CSpec => []ValidatorIsConsistent
  BY ConfigInvariance, InvConsistent, PTL

-----------------------------------------------------------------------------
(* The sections of an accepted document fit each other.                    *)

\* A run is that of one of the scenarios.
LEMMA RunOfScenario ==
  ASSUME NEW d, IsValue(d), WellTyped(d), ValidateSimulation(d) = {}, ValidateScenarios(d) = {},
         NEW r \in Listed(GetScenarios(d))
  PROVE  \E s \in Members(d, "scenarios") :
            /\ ScenarioPassed(d, s)
            /\ \E p \in DOMAIN ExpandScenario(d, s) : r = ExpandScenario(d, s)[p]
<1> DEFINE scenarios == Section(d, "scenarios")
           N == Len(scenarios)
           E == [n \in 1 .. N |-> ExpandScenario(d, scenarios[n])]
<1>1. /\ N \in Nat /\ DOMAIN scenarios = 1 .. N
      /\ \A n \in 1 .. N : ScenarioPassed(d, scenarios[n])
      /\ \E f, P : JoinedTo(f, E, P, N) /\ GetScenarios(d) = f[N]
  BY ScenariosExpand
<1>2. PICK f, P : JoinedTo(f, E, P, N) /\ GetScenarios(d) = f[N]
  BY <1>1
<1>3. \A n \in 1 .. N : scenarios[n] \in Members(d, "scenarios")
  BY <1>1 DEF Members, Elements, Section
<1>4. \A n \in 1 .. N : E[n] = ExpandScenario(d, scenarios[n])
  OBVIOUS
<1> HIDE DEF E, N, scenarios
<1>5. PICK i \in 1 .. Len(f[N]) : r = f[N][i]
  BY <1>2 DEF Listed, JoinedTo
<1>6. PICK k \in 1 .. N : \E p \in 1 .. Len(E[k]) : i = Len(f[k - 1]) + p
  BY <1>2, <1>5 DEF JoinedTo
<1>7. PICK p \in 1 .. Len(E[k]) : i = Len(f[k - 1]) + p
  BY <1>6
<1>8. r = E[k][p]
  BY <1>2, <1>5, <1>7 DEF JoinedTo
<1>9. PICK n \in Nat \ {0} : IsList(E[k], n)
  BY <1>1, <1>4, ScenarioExpands
<1>10. p \in DOMAIN E[k]
  BY <1>7, <1>9, Lists
<1> QED
  BY <1>1, <1>3, <1>4, <1>8, <1>10

LEMMA ExcitationsFit ==
  ASSUME NEW d, IsValue(d), NEW m, Passes(d, m), NEW r \in Listed(GetScenarios(d))
  PROVE  /\ \A j \in DOMAIN r.Excitations :
                r.Excitations[j].TerminalName \in DOMAIN GetTerminals(d)
         /\ IsInjective([j \in DOMAIN r.Excitations |-> r.Excitations[j].TerminalName])
<1>1. /\ WellTyped(d) /\ ValidateSimulation(d) = {} /\ ValidateScenarios(d) = {}
      /\ ValidateTerminals(d, Names(d, m)) = {}
  BY ChecksPass
<1>2. PICK s \in Members(d, "scenarios") :
            /\ ScenarioPassed(d, s)
            /\ \E p \in DOMAIN ExpandScenario(d, s) : r = ExpandScenario(d, s)[p]
  BY <1>1, RunOfScenario
<1>3. r.Excitations = ParseScenarioExcitations(s)
  <2>1. PICK n \in Nat \ {0} :
            /\ IsList(ExpandScenario(d, s), n)
            /\ \A p \in 1 .. n :
                  ExpandScenario(d, s)[p].Excitations = ParseScenarioExcitations(s)
    BY <1>1, <1>2, ScenarioExpands
  <2>2. DOMAIN ExpandScenario(d, s) = 1 .. n
    BY <2>1, Lists
  <2> QED
    BY <1>2, <2>1, <2>2
<1> DEFINE excitations == Section(s, "excitations")
           name(j) == Text(excitations[j], "terminal", "")
<1>4. /\ DOMAIN r.Excitations = DOMAIN excitations
      /\ \A j \in DOMAIN excitations : r.Excitations[j].TerminalName = name(j)
  <2> DEFINE decoded == [j \in DOMAIN excitations |->
                            [TerminalName |-> name(j),
                             Value        |-> Number(excitations[j], "value", 0),
                             Phase        |-> Number(excitations[j], "phase", 0)]]
  <2>1. r.Excitations = decoded
    BY <1>3, Zenon DEF ParseScenarioExcitations
  <2> HIDE DEF excitations, name
  <2>2. DOMAIN decoded = DOMAIN excitations
        /\ \A j \in DOMAIN excitations : decoded[j].TerminalName = name(j)
    OBVIOUS
  <2> HIDE DEF decoded
  <2> QED
    BY <2>1, <2>2
<1>5. /\ \A j \in DOMAIN excitations : name(j) \in TerminalNames(d)
      /\ \A j \in DOMAIN excitations : \A k \in 1 .. j - 1 : name(k) # name(j)
  BY <1>2 DEF ScenarioPassed
<1>6. OwnNames(Section(d, "terminals"))
  BY <1>1, TerminalsPass
<1>7. TerminalNames(d) \subseteq DOMAIN GetTerminals(d)
  BY <1>6, TerminalsByName DEF TerminalNames
<1>8. PICK n \in Nat : DOMAIN excitations = 1 .. n
  BY ItemsOf DEF Section
<1> HIDE DEF excitations, name
<1>9. ASSUME NEW j \in 1 .. n, NEW k \in 1 .. n, name(j) = name(k) PROVE j = k
  <2>1. CASE j < k
    <3>1. j \in 1 .. k - 1
      BY <2>1
    <3> QED
      BY <1>5, <1>8, <1>9, <3>1
  <2>2. CASE k < j
    <3>1. k \in 1 .. j - 1
      BY <2>2
    <3> QED
      BY <1>5, <1>8, <1>9, <3>1
  <2> QED
    BY <2>1, <2>2
<1>10. \A j \in DOMAIN r.Excitations :
                r.Excitations[j].TerminalName \in DOMAIN GetTerminals(d)
  BY <1>4, <1>5, <1>7
<1>11. IsInjective([j \in DOMAIN r.Excitations |-> r.Excitations[j].TerminalName])
  <2> DEFINE f == [j \in DOMAIN r.Excitations |-> r.Excitations[j].TerminalName]
  <2>1. DOMAIN f = 1 .. n /\ \A j \in 1 .. n : f[j] = name(j)
    BY <1>4, <1>8
  <2> HIDE DEF f
  <2>2. \A a, b \in DOMAIN f : f[a] = f[b] => a = b
    BY <1>9, <2>1
  <2>3. IsInjective(f)
    BY <2>2 DEF IsInjective
  <2> QED
    BY <2>3 DEF f
<1> QED
  BY <1>10, <1>11

\* The attributes of the group an entry refers to are those the validator tests.
LEMMA AttributesFit ==
  ASSUME NEW d, OwnNames(Section(d, "entity_groups")), NEW node, Has(node, "entity_group"),
         node.fields["entity_group"].text \in DOMAIN GetEntityGroups(d)
  PROVE  AttributesOf(d, node)
            = GetEntityGroups(d)[node.fields["entity_group"].text].AttributeIds
<1> DEFINE name == node.fields["entity_group"].text
<1>1. AttributesOf(d, node) = GroupAttributes(d, name)
  BY DEF AttributesOf
<1>0. name \in DOMAIN GetEntityGroups(d)
  OBVIOUS
<1> HIDE DEF name
<1>4. DOMAIN GetEntityGroups(d) = {GroupName(g) : g \in Members(d, "entity_groups")}
  BY GroupsByName
<1>2. PICK g \in Members(d, "entity_groups") : GroupName(g) = name
  BY <1>0, <1>4
<1>3. /\ GetEntityGroups(d)[GroupName(g)] = DecodedGroup(g)
      /\ GroupAttributes(d, GroupName(g)) = DecodedGroup(g).AttributeIds
  BY GroupsByName
<1> QED
  BY <1>1, <1>2, <1>3 DEF name

\* What the checks say of the i-th region and its group.
LEMMA RegionsApart ==
  ASSUME NEW d, IsValue(d), NEW m, Passes(d, m)
  PROVE  LET regions == Section(d, "regions")
             decoded == GetRegions(d)
             own(i) == GetEntityGroups(d)[decoded[i].EntityGroupName].AttributeIds
         IN  /\ DOMAIN decoded = DOMAIN regions
             /\ \E n \in Nat : DOMAIN regions = 1 .. n
             /\ \A i \in DOMAIN decoded : own(i) = AttributesOf(d, regions[i])
             /\ \A i, j \in DOMAIN decoded : i # j => own(i) \cap own(j) = {}
<1> DEFINE regions == Section(d, "regions")
           decoded == GetRegions(d)
           own(i) == GetEntityGroups(d)[decoded[i].EntityGroupName].AttributeIds
<1>1. OwnNames(Section(d, "entity_groups"))
  BY ChecksPass, GroupsPass
<1>2. DOMAIN decoded = DOMAIN regions
  BY DEF GetRegions
<1>3. PICK n \in Nat : DOMAIN regions = 1 .. n
  BY ItemsOf DEF Section
<1>4. ASSUME NEW i \in DOMAIN decoded
      PROVE  own(i) = AttributesOf(d, regions[i]) /\ RegionPassed(d, m, i)
  <2>1. /\ RegionPassed(d, m, i)
        /\ decoded[i].EntityGroupName = regions[i].fields["entity_group"].text
        /\ decoded[i].EntityGroupName \in DOMAIN GetEntityGroups(d)
    BY RegionsFit
  <2>2. Has(regions[i], "entity_group")
    BY <2>1 DEF RegionPassed
  <2> HIDE DEF decoded, regions
  <2> QED
    BY <1>1, <2>1, <2>2, AttributesFit
<1>5. ASSUME NEW i \in DOMAIN decoded, NEW j \in DOMAIN decoded, j < i
      PROVE  own(i) \cap own(j) = {}
  <2>1. AttributesOf(d, regions[i]) \cap Claimed(d, regions, i) = {}
    BY <1>4 DEF RegionPassed
  <2>2. j \in 1 .. i - 1
    BY <1>2, <1>3, <1>5
  <2>3. AttributesOf(d, regions[j]) \subseteq Claimed(d, regions, i)
    BY <2>2 DEF Claimed
  <2>4. own(i) = AttributesOf(d, regions[i]) /\ own(j) = AttributesOf(d, regions[j])
    BY <1>4
  <2> HIDE DEF own
  <2> QED
    BY <2>1, <2>3, <2>4
<1>6. ASSUME NEW i \in DOMAIN decoded, NEW j \in DOMAIN decoded, i # j
      PROVE  own(i) \cap own(j) = {}
  <2>1. i < j \/ j < i
    BY <1>2, <1>3, <1>6
  <2> HIDE DEF own
  <2> QED
    BY <1>5, <2>1
<1> QED
  BY <1>2, <1>3, <1>4, <1>6

\* The material of a region is one the document states, with what the physics needs.
LEMMA MaterialFits ==
  ASSUME NEW d, IsValue(d), NEW m, Passes(d, m), NEW i \in DOMAIN GetRegions(d)
  PROVE  LET material == GetMaterials(d)[GetRegions(d)[i].MaterialName]
         IN  /\ PhysicsType(d) = "electrostatics" => material.RelPermittivity > 0
             /\ PhysicsType(d) # "electrostatics" => material.RelPermeability > 0
             /\ Conductivities(d, GetRegions(d)[i].MaterialName) = {material.Conductivity}
             /\ material.Conductivity \in Nat
<1> DEFINE name == GetRegions(d)[i].MaterialName
           materials == GetMaterials(d)
<1>1. WellTyped(d) /\ ValidateSimulation(d) = {} /\ ValidateMaterials(d) = {}
  BY ChecksPass
<1>2. name \in DOMAIN materials
  BY RegionsFit
<1>3. OwnNames(Section(d, "materials"))
  BY <1>1, MaterialsPass
<1>4. DOMAIN materials = {NameOf(x) : x \in Members(d, "materials")}
  BY <1>3, MaterialsByName DEF NameOf
<1> HIDE DEF name
<1>5. PICK x \in Members(d, "materials") : name = NameOf(x)
  BY <1>2, <1>4
<1> DEFINE properties == Field(x, "properties", Null)
           key == CoefficientKey(d)
<1>6. /\ Has(x, "properties") /\ IsValue(properties)
      /\ Number(properties, key, 0) > 0
      /\ Number(properties, "sigma", 0) \in Nat
  BY <1>1, MaterialsPass
<1>7. /\ materials[NameOf(x)] = DecodedMaterial(x)
      /\ Conductivities(d, NameOf(x)) = {DecodedMaterial(x).Conductivity}
  BY <1>3, <1>6, MaterialsByName DEF NameOf
<1> HIDE DEF materials
<1>8. Has(properties, key) /\ Number(properties, key, 100) > 0
  <2> HIDE DEF properties, key
  <2> QED
    BY <1>6 DEF Number
<1>9. /\ DecodedMaterial(x).Conductivity = Number(properties, "sigma", 0)
      /\ DecodedMaterial(x).RelPermittivity = Number(properties, "epsilon_r", 100)
      /\ DecodedMaterial(x).RelPermeability = Number(properties, "mu_r", 100)
  BY DEF DecodedMaterial
<1>10. /\ PhysicsType(d) = "electrostatics" => key = "epsilon_r"
       /\ PhysicsType(d) # "electrostatics" => key = "mu_r"
  BY DEF CoefficientKey
<1> HIDE DEF properties, key
<1> QED
  BY <1>5, <1>6, <1>7, <1>8, <1>9, <1>10 DEF name, materials

\* The fields of the configuration the document was decoded to.
LEMMA DecodedFields ==
  ASSUME NEW d, config = GetProblemConfig(d)
  PROVE  /\ config.PhysicsType = GetPhysicsType(d) /\ config.GeometryType = GetGeometryType(d)
         /\ config.EntityGroups = GetEntityGroups(d) /\ config.Regions = GetRegions(d)
         /\ config.Materials = GetMaterials(d) /\ config.Terminals = GetTerminals(d)
         /\ config.Scenarios = GetScenarios(d)
         /\ config.LinearSolver = GetLinearSolver(d)
  BY DEF GetProblemConfig

LEMMA InvResolves == CInv => ExcitationsResolve
<1> SUFFICES ASSUME CInv, config # NoConfig, NEW s \in Listed(config.Scenarios)
             PROVE  /\ \A j \in DOMAIN s.Excitations :
                            s.Excitations[j].TerminalName \in DOMAIN config.Terminals
                    /\ IsInjective([j \in DOMAIN s.Excitations |-> s.Excitations[j].TerminalName])
  BY DEF ExcitationsResolve, Decoded
<1>1. /\ config = GetProblemConfig(document) /\ Passes(document, NoMesh)
      /\ IsValue(document)
  BY PlainIsValue DEF CInv, ConfigInv, DocumentInv
<1>2. s \in Listed(GetScenarios(document)) /\ config.Terminals = GetTerminals(document)
  BY <1>1, DecodedFields
<1> QED
  BY <1>1, <1>2, ExcitationsFit

LEMMA InvCovers == CInv => OneMaterialPerElement
<1> SUFFICES ASSUME CInv, Accepted, Has(document, "regions"), NEW a \in mesh.attributes
             PROVE  \E i \in DOMAIN config.Regions :
                       /\ ClaimedBy(a) = {i}
                       /\ Coefficient(config.Materials[config.Regions[i].MaterialName]) > 0
  BY DEF OneMaterialPerElement, MaterialEverywhere
<1> DEFINE regions == Section(document, "regions")
           own(i) == config.EntityGroups[config.Regions[i].EntityGroupName].AttributeIds
<1>1. /\ IsValue(document) /\ Passes(document, mesh) /\ mesh # NoMesh
      /\ config = GetProblemConfig(document)
  BY PlainIsValue DEF CInv, Accepted, AcceptedSteps, WithMesh, WithConfig, DocumentInv, VerdictInv, MeshInv,
         ConfigInv
<1>2. /\ config.EntityGroups = GetEntityGroups(document)
      /\ config.Regions = GetRegions(document)
      /\ config.Materials = GetMaterials(document)
      /\ config.PhysicsType = GetPhysicsType(document)
  BY <1>1, DecodedFields
<1>3. /\ WellTyped(document) /\ ValidateSimulation(document) = {}
      /\ ValidateRegions(document, mesh, Names(document, mesh)) = {}
  BY <1>1, ChecksPass
<1>4. config.PhysicsType = PhysicsType(document)
  BY <1>1, <1>2, <1>3, SameModel
<1>5. PICK r \in Members(document, "regions") : a \in AttributesOf(document, r)
  <2>1. mesh.attributes \subseteq
            UNION {AttributesOf(document, r) : r \in Members(document, "regions")}
    BY <1>1, <1>3, RegionsPass
  <2> QED
    BY <2>1
<1>6. PICK i \in DOMAIN regions : r = regions[i]
  BY DEF Members, Elements, Section
<1>7. /\ DOMAIN config.Regions = DOMAIN regions
      /\ \A k \in DOMAIN config.Regions : own(k) = AttributesOf(document, regions[k])
      /\ \A j, k \in DOMAIN config.Regions : j # k => own(j) \cap own(k) = {}
  BY <1>1, <1>2, RegionsApart
<1>8. ClaimedBy(a) = {k \in DOMAIN config.Regions : a \in own(k)}
  BY DEF ClaimedBy, Attributes
<1> HIDE DEF own, regions
<1>9. i \in DOMAIN config.Regions /\ ClaimedBy(a) = {i}
  BY <1>5, <1>6, <1>7, <1>8
<1>10. Coefficient(config.Materials[config.Regions[i].MaterialName]) > 0
  <2> DEFINE material == GetMaterials(document)[GetRegions(document)[i].MaterialName]
  <2>1. /\ PhysicsType(document) = "electrostatics" => material.RelPermittivity > 0
        /\ PhysicsType(document) # "electrostatics" => material.RelPermeability > 0
    BY <1>1, <1>2, <1>9, MaterialFits
  <2>2. config.Materials[config.Regions[i].MaterialName] = material
    BY <1>2
  <2> HIDE DEF material
  <2> QED
    BY <1>4, <2>1, <2>2 DEF Coefficient
<1> QED
  BY <1>9, <1>10

LEMMA InvFloats == CInv => OpenRegionsFloat
<1> SUFFICES ASSUME CInv, Accepted, NEW i \in OpenRegions
             PROVE  /\ config.PhysicsType = "magnetoquasistatics" /\ ~ThreeD
                    /\ config.Materials[config.Regions[i].MaterialName].Conductivity > 0
                    /\ \A t \in TerminalsOf("massive") :
                          Attributes(config.Regions[i].EntityGroupName)
                            \cap Attributes(t.EntityGroupName) = {}
                    /\ \A j \in OpenRegions \ {i} :
                          Attributes(config.Regions[i].EntityGroupName)
                            \cap Attributes(config.Regions[j].EntityGroupName) = {}
  BY DEF OpenRegionsFloat
<1> DEFINE regions == Section(document, "regions")
           own(k) == config.EntityGroups[config.Regions[k].EntityGroupName].AttributeIds
<1>1. /\ IsValue(document) /\ Passes(document, mesh) /\ mesh # NoMesh
      /\ config = GetProblemConfig(document)
  BY PlainIsValue DEF CInv, Accepted, AcceptedSteps, WithMesh, WithConfig, DocumentInv, VerdictInv, MeshInv,
         ConfigInv
<1>2. /\ config.EntityGroups = GetEntityGroups(document)
      /\ config.Regions = GetRegions(document)
      /\ config.Materials = GetMaterials(document)
      /\ config.Terminals = GetTerminals(document)
      /\ config.PhysicsType = GetPhysicsType(document)
      /\ config.GeometryType = GetGeometryType(document)
  BY <1>1, DecodedFields
<1>3. /\ WellTyped(document) /\ ValidateSimulation(document) = {}
      /\ ValidateTerminals(document, Names(document, mesh)) = {}
      /\ ValidateGeometryCompatibility(document, mesh) = {}
  BY <1>1, ChecksPass
<1>4. /\ config.PhysicsType = PhysicsType(document)
      /\ config.GeometryType = GeometryType(document)
  BY <1>1, <1>2, <1>3, SameModel
<1>5. i \in DOMAIN config.Regions /\ config.Regions[i].CurrentConstraint = "open"
  BY DEF OpenRegions
<1>6. /\ i \in DOMAIN regions /\ RegionPassed(document, mesh, i)
      /\ IsOpen(regions[i])
      /\ config.Regions[i].MaterialName = Text(regions[i], "material", "")
  BY <1>1, <1>2, <1>5, RegionsFit DEF IsOpen
<1>7. /\ IsMqs(document)
      /\ \A sigma \in Conductivities(document, config.Regions[i].MaterialName) : ~(sigma <= 0)
      /\ AttributesOf(document, regions[i]) \cap MassiveTerminalAttributes(document) = {}
  BY <1>6, Zenon DEF RegionPassed
<1>8. /\ DOMAIN config.Regions = DOMAIN regions
      /\ \A k \in DOMAIN config.Regions : own(k) = AttributesOf(document, regions[k])
      /\ \A j, k \in DOMAIN config.Regions : j # k => own(j) \cap own(k) = {}
  BY <1>1, <1>2, RegionsApart
<1>9. config.PhysicsType = "magnetoquasistatics"
  BY <1>4, <1>7 DEF IsMqs
<1>10. ~ThreeD
  <2>1. Has(regions[i], "current_constraint")
    BY <1>6 DEF IsOpen, Text
  <2>2. regions[i] \in Members(document, "regions")
    BY <1>6 DEF Members, Elements, Section
  <2> DEFINE refused == /\ GeometryType(document) = "3d"
                        /\ \E r \in Members(document, "regions") : Has(r, "current_constraint")
             constraint == ErrorIf(refused, "regions", "current_constraint")
             dimension == ErrorIf(mesh # NoMesh /\ mesh.dim
                                    # (IF GeometryType(document) = "3d" THEN 3 ELSE 2),
                                  "simulation", "geometry_type")
  <2>3. GeometryType(document) = "3d" =>
            ValidateGeometryCompatibility(document, mesh) = dimension \cup constraint
    BY DEF ValidateGeometryCompatibility
  <2>4. GeometryType(document) = "3d" => constraint = {}
    <3> HIDE DEF dimension, constraint
    <3> QED
      BY <1>3, <2>3
  <2>5. constraint = {} => ~refused
    BY NoneRefused
  <2> HIDE DEF constraint
  <2> QED
    BY <1>4, <2>1, <2>2, <2>4, <2>5 DEF ThreeD
<1>11. config.Materials[config.Regions[i].MaterialName].Conductivity > 0
  <2> DEFINE sigma == config.Materials[config.Regions[i].MaterialName].Conductivity
  <2>1. /\ Conductivities(document, config.Regions[i].MaterialName) = {sigma}
        /\ sigma \in Nat
    BY <1>1, <1>2, <1>5, MaterialFits
  <2> HIDE DEF sigma
  <2>2. sigma > 0
    BY <1>7, <2>1
  <2> QED
    BY <2>2 DEF sigma
<1>12. ASSUME NEW t \in TerminalsOf("massive")
       PROVE  own(i) \cap config.EntityGroups[t.EntityGroupName].AttributeIds = {}
  <2>1. OwnNames(Section(document, "terminals")) /\ OwnNames(Section(document, "entity_groups"))
    BY <1>1, ChecksPass, TerminalsPass, GroupsPass
  <2>2. /\ DOMAIN config.Terminals = {NameOf(x) : x \in Members(document, "terminals")}
        /\ \A x \in Members(document, "terminals") :
             config.Terminals[NameOf(x)] = DecodedTerminal(x)
    BY <1>2, <2>1, TerminalsByName DEF NameOf
  <2>3. t.Conductor = "massive" /\ \E n \in DOMAIN config.Terminals : t = config.Terminals[n]
    BY DEF TerminalsOf, Terminals
  <2>4. PICK x \in Members(document, "terminals") : t = DecodedTerminal(x)
    BY <2>2, <2>3
  <2>5. /\ TerminalPassed(document, x, Names(document, mesh))
        /\ t.EntityGroupName \in DOMAIN config.EntityGroups
    BY <1>1, <1>2, <2>4, TerminalFits
  <2>6. /\ t.Conductor = Text(x, "conductor_type", "massive")
        /\ t.EntityGroupName = x.fields["entity_group"].text
    BY <2>4, <2>5, TerminalReads
  <2>7. Has(x, "entity_group")
    BY <2>5 DEF TerminalPassed
  <2>8. AttributesOf(document, x) = config.EntityGroups[t.EntityGroupName].AttributeIds
    BY <1>2, <2>1, <2>5, <2>6, <2>7, AttributesFit
  <2>9. AttributesOf(document, x) \subseteq MassiveTerminalAttributes(document)
    BY <2>3, <2>6 DEF MassiveTerminalAttributes
  <2>10. own(i) = AttributesOf(document, regions[i])
    BY <1>5, <1>8
  <2> HIDE DEF own
  <2> QED
    BY <1>7, <2>8, <2>9, <2>10
<1>13. \A j \in OpenRegions \ {i} : own(i) \cap own(j) = {}
  BY <1>5, <1>8 DEF OpenRegions
<1> QED
  BY <1>9, <1>10, <1>11, <1>12, <1>13 DEF Attributes

LEMMA InvSolver == CInv => SolverFitsModel
<1> SUFFICES ASSUME CInv, reached \in {"created", "ready"}
             PROVE  /\ solver \in {"MagnetostaticSolver3D", "MagnetoquasistaticSolver3D"}
                        <=> mesh.dim = 3 /\ config.PhysicsType # "electrostatics"
                    /\ mesh.dim = 3 => config.GeometryType = "3d"
                    /\ (solver # "ElectrostaticSolver" /\ mesh.dim = 3 /\ ~Parallel
                          /\ ~Given(Sim(document), "linear_solver"))
                       => config.LinearSolver = "direct"
  BY DEF SolverFitsModel
<1>1. /\ IsValue(document) /\ Passes(document, mesh) /\ mesh # NoMesh
      /\ config = GetProblemConfig(document) /\ solver = SolverFor
  BY PlainIsValue DEF CInv, AcceptedSteps, WithMesh, WithConfig, DocumentInv, VerdictInv, MeshInv, ConfigInv
<1>2. /\ config.PhysicsType = GetPhysicsType(document)
      /\ config.GeometryType = GetGeometryType(document)
      /\ config.LinearSolver = GetLinearSolver(document)
  BY <1>1, DecodedFields
<1>3. WellTyped(document) /\ ValidateSimulation(document) = {}
  BY <1>1, ChecksPass
<1>4. /\ config.PhysicsType = PhysicsType(document)
      /\ config.GeometryType = GeometryType(document)
      /\ PhysicsType(document) \in PhysicsTypes
  BY <1>1, <1>2, <1>3, SameModel, SimulationPasses
<1>5. mesh.dim = IF ThreeD THEN 3 ELSE 2
  BY <1>1, <1>4, DimensionFits DEF ThreeD
<1>6. config.PhysicsType = "electrostatics" => solver = "ElectrostaticSolver"
  BY <1>1 DEF SolverFor
<1>7. config.PhysicsType = "magnetostatics" =>
          solver = IF ThreeD THEN "MagnetostaticSolver3D" ELSE "MagnetostaticSolver"
  BY <1>1 DEF SolverFor
<1>8. config.PhysicsType = "magnetoquasistatics" =>
          solver = IF ThreeD THEN "MagnetoquasistaticSolver3D" ELSE "MagnetoquasistaticSolver"
  BY <1>1 DEF SolverFor
<1>9. ASSUME ~Given(Sim(document), "linear_solver"), ~Parallel,
             config.PhysicsType # "electrostatics"
      PROVE  config.LinearSolver = "direct"
  <2>1. GetText(Sim(document), "linear_solver", "direct") = "direct"
    BY <1>9 DEF GetText
  <2>2. ParseEnum(Sim(document), "linear_solver", "direct", {"iterative", "direct"}) = "direct"
    BY <2>1 DEF ParseEnum
  <2>3. GetLinearSolver(document)
          = ParseEnum(Sim(document), "linear_solver", "direct", {"iterative", "direct"})
    BY <1>2, <1>9 DEF GetLinearSolver
  <2> QED
    BY <1>2, <2>2, <2>3
<1> QED
  BY <1>4, <1>5, <1>6, <1>7, <1>8, <1>9 DEF PhysicsTypes, ThreeD

\* In an accepted model every element lies in one region whose material the
\* physics needs is positive, whatever the order of the regions; an open region is
\* a conductor apart from all the others; an excitation names a declared terminal,
\* each once; and the factory's solver is of the mesh's dimension.
THEOREM AcceptedModelIsWholeAlways == CSpec => []AcceptedModelIsWhole
<1>1. CInv => AcceptedModelIsWhole
  BY InvCovers, InvFloats, InvResolves, InvSolver DEF AcceptedModelIsWhole
<1> QED
  BY <1>1, ConfigInvariance, PTL

-----------------------------------------------------------------------------
(* What is decoded is what was written.                                    *)

\* A narrow integer reads as it is written.
LEMMA NarrowReads ==
  ASSUME NEW v, IsPlain(v), IsNarrow(Values)
  PROVE  /\ v.type = "integer" => AsInt(v) \in Int /\ Written(v) = 100 * AsInt(v)
         /\ HasType(v, "number") => AsNumber(v) \in Int
<1>1. IsValue(v)
  BY PlainIsValue
<1>2. v.type = "integer" => v.wraps = 0 /\ v.low \in Int /\ AsInt(v) = v.low
  BY <1>1, ValueTypes DEF IsPlain, IsNarrow
<1>3. v.type = "integer" => AsNumber(v) = 100 * v.low
  BY <1>2 DEF AsNumber
<1> QED
  BY <1>1, <1>2, <1>3, ValueTypes DEF Written

LEMMA PlainMembers ==
  ASSUME NEW d, IsPlain(d), NEW k
  PROVE  \A x \in Members(d, k) : IsPlain(x)
<1>1. CASE Has(d, k)
  <2>1. Members(d, k) = Elements(d.fields[k]) /\ IsPlain(d.fields[k])
    BY <1>1, MembersOf, PlainHolds
  <2> QED
    BY <2>1, PlainHolds
<1>2. CASE ~Has(d, k)
  BY <1>2, MembersOf
<1> QED
  BY <1>1, <1>2

\* A text, a number, a truth and a vector are what a read of them returns.
LEMMA ReadsKeep ==
  ASSUME NEW o, NEW k
  PROVE  /\ \A f : SameText(o, k, Text(o, k, f)) /\ SameNumber(o, k, Number(o, k, f))
         /\ (Has(o, k) => o.fields[k].type = "string") =>
                \A f : SameText(o, k, GetText(o, k, f))
         /\ (Has(o, k) => o.fields[k].type = "boolean") =>
                \A f : SameTruth(o, k, GetBool(o, k, f))
         /\ \A v : SameNumbers(v, Numbers(v))
<1>1. \A f : SameText(o, k, Text(o, k, f)) /\ SameNumber(o, k, Number(o, k, f))
  BY DEF SameText, SameNumber, Text, Number, Written
<1>2. (Has(o, k) => o.fields[k].type = "string") => \A f : SameText(o, k, GetText(o, k, f))
  BY TextReads DEF SameText
<1>3. (Has(o, k) => o.fields[k].type = "boolean") => \A f : SameTruth(o, k, GetBool(o, k, f))
  BY DEF SameTruth, GetBool, Given, Null
<1>4. \A v : SameNumbers(v, Numbers(v))
  BY DEF SameNumbers, Numbers, Written
<1> QED
  BY <1>1, <1>2, <1>3, <1>4

\* A narrow integer is not changed by a read of it, of either width.
LEMMA IntegersKeep ==
  ASSUME NEW o, IsPlain(o), IsNarrow(Values), NEW k,
         Has(o, k) => o.fields[k].type = "integer"
  PROVE  \A f : /\ SameNumber(o, k, 100 * Integer(o, k, f))
                /\ SameNumber(o, k, 100 * GetInt(o, k, f))
                /\ SameNumber(o, k, 100 * GetLong(o, k, f))
<1>1. CASE Has(o, k)
  <2> DEFINE v == o.fields[k]
  <2>1. IsPlain(v) /\ v.type = "integer"
    BY <1>1, PlainHolds
  <2>2. AsInt(v) \in Int /\ Written(v) = 100 * AsInt(v)
    BY <2>1, NarrowReads
  <2>3. Given(o, k)
    BY <1>1, <2>1 DEF Given, Null
  <2>4. \A f : /\ Integer(o, k, f) = AsInt(v) /\ GetInt(o, k, f) = AsInt(v)
               /\ GetLong(o, k, f) = Written(v) \div 100
    BY <1>1, <2>3 DEF Integer, GetInt, GetLong, Written
  <2> HIDE DEF v
  <2>5. (100 * AsInt(v)) \div 100 = AsInt(v)
    BY <2>2
  <2> QED
    BY <2>2, <2>4, <2>5 DEF SameNumber, v
<1>2. CASE ~Has(o, k)
  BY <1>2 DEF SameNumber
<1> QED
  BY <1>1, <1>2

\* A path is resolved to one that ends in it.
LEMMA PathsKeep ==
  ASSUME NEW S, NEW parent \in Seq(S), NEW path
  PROVE  LET resolved == Resolve(parent, path)
         IN  /\ resolved \in Seq(S \cup {path}) /\ resolved # <<>>
             /\ resolved[Len(resolved)] = path
<1>1. parent \in Seq(S \cup {path})
  OBVIOUS
<1>2. Append(parent, path) \in Seq(S \cup {path}) /\ <<path>> \in Seq(S \cup {path})
  BY <1>1
<1>3. /\ Append(parent, path) # <<>> /\ <<path>> # <<>>
      /\ Append(parent, path)[Len(Append(parent, path))] = path
      /\ <<path>>[Len(<<path>>)] = path
  BY <1>1
<1> QED
  BY <1>2, <1>3 DEF Resolve

\* An entry of its own for every name: none is lost to another.
LEMMA NamesCounted ==
  ASSUME NEW items, NEW n \in Nat, DOMAIN items = 1 .. n, OwnNames(items),
         NEW names, names = {NameOf(items[i]) : i \in DOMAIN items}
  PROVE  Cardinality(names) = n
<1> DEFINE a == [i \in 1 .. n |-> NameOf(items[i])]
<1>1. \A i, j \in 1 .. n : NameOf(items[i]) = NameOf(items[j]) => i = j
  BY DEF OwnNames, NameOf
<1>2. \A i \in 1 .. n : a[i] = NameOf(items[i])
  OBVIOUS
<1>3. names = {a[i] : i \in 1 .. n}
  BY <1>2
<1> HIDE DEF a
<1>4. \A i, j \in 1 .. n : a[i] = a[j] => i = j
  BY <1>1, <1>2
<1>5. Cardinality({a[i] : i \in 1 .. n}) = n
  BY <1>4, DistinctCount
<1> QED
  BY <1>3, <1>5

LEMMA EachOnce ==
  ASSUME NEW d, NEW key, OwnNames(Section(d, key)), NEW decoded,
         DOMAIN decoded = {NameOf(x) : x \in Members(d, key)}
  PROVE  /\ Cardinality(DOMAIN decoded) = Len(Section(d, key))
         /\ \A x \in Members(d, key) : NameOf(x) \in DOMAIN decoded
<1> DEFINE items == Section(d, key)
           n == Len(items)
<1>1. n \in Nat /\ DOMAIN items = 1 .. n
  BY ItemsOf DEF Section
<1>2. DOMAIN decoded = {NameOf(items[i]) : i \in DOMAIN items}
  BY DEF Members, Elements, Section
<1> HIDE DEF items, n
<1>3. Cardinality(DOMAIN decoded) = n
  BY <1>1, <1>2, NamesCounted DEF items
<1> QED
  BY <1>3 DEF n, items

LEMMA SimulationKept ==
  ASSUME NEW d, IsPlain(d), IsNarrow(Values), WellTyped(d), ValidateSimulation(d) = {},
         document = d, config = GetProblemConfig(d)
  PROVE  SimulationAsWritten
<1> DEFINE sim == Sim(d)
<1>1. /\ sim = Simulation(d) /\ IsPlain(sim) /\ IsValue(sim)
      /\ Has(sim, "physics_type") /\ PhysicsType(d) \in PhysicsTypes
      /\ GeometryType(d) \in {"axisymmetric", "planar", "3d"}
      /\ Has(sim, "linear_solver") =>
            sim.fields["linear_solver"].text \in {"direct", "iterative"}
      /\ Has(sim, "analysis_type") =>
            sim.fields["analysis_type"].text \in {"field", "coupling_matrix"}
  <2>1. IsValue(d)
    BY PlainIsValue
  <2>2. Has(d, "simulation") /\ Simulation(d) = Sim(d)
    BY <2>1, SimulationPasses
  <2>3. Sim(d) = d.fields["simulation"]
    BY <2>2 DEF Simulation, Field
  <2> QED
    BY <2>1, <2>2, <2>3, PlainHolds, SimulationPasses
<1>2. Typed(sim, SimulationTypes)
  BY <1>1 DEF WellTyped
<1> HIDE DEF sim
<1>3. ASSUME NEW k \in {"analysis_type", "linear_solver"}, NEW f, NEW table,
             Has(sim, k) => sim.fields[k].text \in table
      PROVE  Has(sim, k) => ParseEnum(sim, k, f, table) = sim.fields[k].text
  <2>1. Has(sim, k) => GetText(sim, k, f) = sim.fields[k].text
    BY <1>1, <1>2, <1>3, TypedReads DEF SimulationTypes, Text
  <2> QED
    BY <1>3, <2>1 DEF ParseEnum
<1>4. /\ config.PhysicsType = PhysicsType(d) /\ config.GeometryType = GeometryType(d)
      /\ config.AnalysisType = ParseEnum(sim, "analysis_type", "field",
                                         {"field", "coupling_matrix"})
      /\ config.LinearSolver = GetLinearSolver(d)
      /\ config.Order = GetInt(sim, "order", 1)
      /\ config.SolverMaxIter = GetInt(sim, "solver_max_iter", DefaultMaxIter)
      /\ config.SolverPrintLevel = GetInt(sim, "solver_print_level", DefaultPrintLevel)
      /\ config.MeshPath = GetMeshPath(d)
      /\ config.SolverTolerance = GetNumber(sim, "solver_tolerance", DefaultTolerance)
  BY SameModel, PlainIsValue DEF GetProblemConfig, sim
<1>5. /\ Has(sim, "physics_type") => sim.fields["physics_type"].text = config.PhysicsType
      /\ Has(sim, "geometry_type") => sim.fields["geometry_type"].text = config.GeometryType
  BY <1>1, <1>4 DEF PhysicsType, GeometryType, Text
<1>6. /\ Has(sim, "analysis_type") => sim.fields["analysis_type"].text = config.AnalysisType
      /\ Has(sim, "linear_solver") => sim.fields["linear_solver"].text = config.LinearSolver
  <2> DEFINE fallback == IF /\ GetGeometryType(d) = "3d"
                            /\ GetPhysicsType(d) = "electrostatics" \/ Parallel
                         THEN "iterative" ELSE "direct"
  <2>1. GetLinearSolver(d) = ParseEnum(sim, "linear_solver", fallback, {"iterative", "direct"})
    BY DEF GetLinearSolver, sim
  <2> HIDE DEF fallback
  <2> QED
    BY <1>1, <1>3, <1>4, <2>1
<1>7. \A k \in {"order", "solver_max_iter", "solver_print_level"} :
        \A f : SameNumber(sim, k, 100 * GetInt(sim, k, f))
  <2>1. \A k \in {"order", "solver_max_iter", "solver_print_level"} :
          Has(sim, k) => sim.fields[k].type = "integer"
    BY <1>2 DEF Typed, SimulationTypes, HasType
  <2> QED
    BY <1>1, <2>1, IntegersKeep
<1>8. Has(sim, "solver_tolerance") =>
        Written(sim.fields["solver_tolerance"]) = config.SolverTolerance
  BY <1>1, <1>2, <1>4, TypedReads DEF SimulationTypes, Number, Written
<1>9. Text(sim, "mesh", NotGiven) # NotGiven => SamePath(sim, "mesh", config.MeshPath)
  <2> SUFFICES ASSUME Text(sim, "mesh", NotGiven) # NotGiven
               PROVE  SamePath(sim, "mesh", config.MeshPath)
    OBVIOUS
  <2>1. GetText(sim, "mesh", NotGiven) = Text(sim, "mesh", NotGiven)
    BY <1>1, <1>2, TypedReads DEF SimulationTypes
  <2>2. GetMeshPath(d) = IF GetText(sim, "mesh", NotGiven) = NotGiven THEN <<"default.msh">>
                         ELSE Resolve(<<"config">>, GetText(sim, "mesh", NotGiven))
    BY Zenon DEF GetMeshPath, sim, NotGiven
  <2>3. config.MeshPath = Resolve(<<"config">>, Text(sim, "mesh", NotGiven))
    BY <1>4, <2>1, <2>2
  <2>4. <<"config">> \in Seq({"config"})
    OBVIOUS
  <2>5. config.MeshPath[Len(config.MeshPath)] = Text(sim, "mesh", NotGiven)
    BY <2>3, <2>4, PathsKeep
  <2> QED
    BY <2>5 DEF SamePath, Text
<1>10. Text(sim, "mesh", "") # "" => SamePath(sim, "mesh", config.MeshPath)
  BY <1>9, Zenon DEF NotGiven
<1>11. /\ SameText(sim, "physics_type", config.PhysicsType)
       /\ SameText(sim, "geometry_type", config.GeometryType)
       /\ SameText(sim, "analysis_type", config.AnalysisType)
       /\ SameText(sim, "linear_solver", config.LinearSolver)
  BY <1>5, <1>6 DEF SameText
<1>12. /\ SameNumber(sim, "order", 100 * config.Order)
       /\ SameNumber(sim, "solver_max_iter", 100 * config.SolverMaxIter)
       /\ SameNumber(sim, "solver_print_level", 100 * config.SolverPrintLevel)
  BY <1>4, <1>7
<1>13. SameNumber(sim, "solver_tolerance", config.SolverTolerance)
  BY <1>8 DEF SameNumber
<1> QED
  BY <1>10, <1>11, <1>12, <1>13, Zenon DEF SimulationAsWritten, sim

LEMMA AmrKept ==
  ASSUME IsPlain(document), IsNarrow(Values), WellTyped(document),
         ValidateSimulation(document) = {}, config = GetProblemConfig(document)
  PROVE  AmrAsWritten
<1> DEFINE amr == Field(Sim(document), "amr", Null)
<1>1. config.Amr = GetAmrSettings(document)
  BY DEF GetProblemConfig
<1>2. IsValue(document) /\ Simulation(document) = Sim(document)
  BY PlainIsValue, SimulationPasses
<1>3. Typed(amr, AmrTypes)
  BY <1>2 DEF WellTyped
<1>4. CASE Has(Sim(document), "amr")
  <2>1. IsPlain(Sim(document))
    BY <1>2, PlainHolds, SimulationPasses DEF Simulation, Field
  <2>2. IsPlain(amr)
    BY <1>4, <2>1, PlainHolds DEF Field
  <2> DEFINE got == config.Amr
  <2>3. /\ \E f : got.Enabled = GetBool(amr, "enabled", f)
        /\ \E f : got.MaxIterations = GetInt(amr, "max_iterations", f)
        /\ \E f : got.MaxDofs = GetLong(amr, "max_dofs", f)
        /\ \E f : got.ErrorFraction = GetNumber(amr, "error_fraction", f)
        /\ \E f : got.ErrorTolerance = GetNumber(amr, "error_tolerance", f)
        /\ \E f : got.Conforming = GetBool(amr, "conforming", f)
    <3>1. /\ got.Enabled = GetBool(amr, "enabled", FALSE)
          /\ got.MaxIterations = GetInt(amr, "max_iterations", 5)
          /\ got.ErrorFraction = GetNumber(amr, "error_fraction", 70)
          /\ got.ErrorTolerance = GetNumber(amr, "error_tolerance", 0)
          /\ got.Conforming = GetBool(amr, "conforming", TRUE)
      BY <1>1, SMT DEF GetAmrSettings
    <3>2. \E f : got.MaxDofs = GetLong(amr, "max_dofs", f)
      BY <1>1, SMT DEF GetAmrSettings
    <3> HIDE DEF amr, got
    <3> QED
      BY <3>1, <3>2, Zenon
  <2> HIDE DEF amr, got
  <2>4. /\ SameTruth(amr, "enabled", got.Enabled)
        /\ SameTruth(amr, "conforming", got.Conforming)
    <3>1. \A k \in {"enabled", "conforming"} : Has(amr, k) => amr.fields[k].type = "boolean"
      BY <1>3 DEF Typed, AmrTypes, HasType
    <3>2. ASSUME NEW k \in {"enabled", "conforming"}
          PROVE  \A f : SameTruth(amr, k, GetBool(amr, k, f))
      <4>1. Has(amr, k) => amr.fields[k].type = "boolean"
        BY <3>1
      <4> QED
        BY <4>1, ReadsKeep, Zenon
    <3> QED
      BY <2>3, <3>2, Zenon
  <2>5. /\ SameNumber(amr, "max_iterations", 100 * got.MaxIterations)
        /\ SameNumber(amr, "max_dofs", 100 * got.MaxDofs)
    <3>1. \A k \in {"max_iterations", "max_dofs"} : Has(amr, k) => amr.fields[k].type = "integer"
      BY <1>3 DEF Typed, AmrTypes, HasType
    <3>2. ASSUME NEW k \in {"max_iterations", "max_dofs"}
          PROVE  \A f : /\ SameNumber(amr, k, 100 * GetInt(amr, k, f))
                        /\ SameNumber(amr, k, 100 * GetLong(amr, k, f))
      <4>1. Has(amr, k) => amr.fields[k].type = "integer"
        BY <3>1
      <4> QED
        BY <2>2, <4>1, IntegersKeep, Zenon
    <3> QED
      BY <2>3, <3>2, Zenon
  <2>6. /\ SameNumber(amr, "error_fraction", got.ErrorFraction)
        /\ SameNumber(amr, "error_tolerance", got.ErrorTolerance)
    <3>1. \A k \in {"error_fraction", "error_tolerance"} :
            k \in DOMAIN AmrTypes /\ AmrTypes[k] = "number"
      BY DEF AmrTypes
    <3>2. IsValue(amr)
      BY <2>2, PlainIsValue
    <3>3. \A k \in {"error_fraction", "error_tolerance"} :
            \A f : GetNumber(amr, k, f) = Number(amr, k, f)
      BY <1>3, <3>1, <3>2, TypedReads
    <3>4. \A k, f : SameNumber(amr, k, Number(amr, k, f))
      BY ReadsKeep, Zenon
    <3> QED
      BY <2>3, <3>3, <3>4, Zenon
  <2> QED
    BY <2>4, <2>5, <2>6 DEF AmrAsWritten, amr, got
<1>5. CASE ~Has(Sim(document), "amr")
  <2>1. amr = Null
    BY <1>5 DEF Field
  <2>2. \A k : ~Has(amr, k)
    BY <2>1 DEF Has, Null
  <2> QED
    BY <2>2 DEF AmrAsWritten, SameTruth, SameNumber
<1> QED
  BY <1>4, <1>5

LEMMA GroupKept ==
  ASSUME NEW d, IsPlain(d), IsNarrow(Values), WellTyped(d), NEW m,
         NEW g \in Members(d, "entity_groups"), GroupPassed(d, m, g)
  PROVE  /\ SameNumber(g, "dim", 100 * DecodedGroup(g).Dim)
         /\ {100 * a : a \in DecodedGroup(g).AttributeIds}
              = {Written(a) : a \in Members(g, "attribute_ids")}
<1> DEFINE ids == Members(g, "attribute_ids")
<1>1. IsPlain(g)
  BY PlainMembers
<1>2. DecodedGroup(g).Dim = Integer(g, "dim", 0) /\ DecodedGroup(g).AttributeIds = {AsInt(v) : v \in ids}
  BY DEF DecodedGroup, IntegersOf, Members
<1>3. Has(g, "dim") /\ g.fields["dim"].type = "integer"
  BY DEF GroupPassed
<1>4. SameNumber(g, "dim", 100 * DecodedGroup(g).Dim)
  <2>1. IsPlain(g.fields["dim"])
    BY <1>1, <1>3, PlainHolds
  <2>2. Written(g.fields["dim"]) = 100 * AsInt(g.fields["dim"])
    BY <1>3, <2>1, NarrowReads
  <2> QED
    BY <1>2, <1>3, <2>2 DEF SameNumber, Integer
<1>5. \A v \in ids : Written(v) = 100 * AsInt(v)
  <2>1. \A v \in ids : v.type = "integer" /\ IsPlain(v)
    BY <1>1, PlainMembers DEF WellTyped
  <2> QED
    BY <2>1, NarrowReads
<1> HIDE DEF ids
<1>6. {100 * a : a \in DecodedGroup(g).AttributeIds} = {Written(a) : a \in ids}
  BY <1>2, <1>5
<1> QED
  BY <1>4, <1>6 DEF ids

LEMMA GroupsKept ==
  ASSUME IsPlain(document), IsNarrow(Values), WellTyped(document), NEW m,
         OwnNames(Section(document, "entity_groups")),
         \A g \in Members(document, "entity_groups") : GroupPassed(document, m, g),
         config.EntityGroups = GetEntityGroups(document)
  PROVE  GroupsAsWritten
<1> SUFFICES ASSUME NEW g \in Members(document, "entity_groups")
             PROVE  LET group == config.EntityGroups[NameOf(g)]
                    IN  /\ SameNumber(g, "dim", 100 * group.Dim)
                        /\ {100 * a : a \in group.AttributeIds}
                            = {Written(a) : a \in Members(g, "attribute_ids")}
  BY Zenon DEF GroupsAsWritten, NameOf
<1>1. config.EntityGroups[NameOf(g)] = DecodedGroup(g)
  BY GroupsByName, Zenon DEF GroupName, NameOf
<1> QED
  BY <1>1, GroupKept

LEMMA MaterialsKept ==
  ASSUME OwnNames(Section(document, "materials")), config.Materials = GetMaterials(document)
  PROVE  MaterialsAsWritten
<1> SUFFICES ASSUME NEW x \in Members(document, "materials")
             PROVE  LET material == config.Materials[NameOf(x)]
                        properties == Field(x, "properties", Null)
                    IN  /\ SameNumber(properties, "sigma", material.Conductivity)
                        /\ SameNumber(properties, "epsilon_r", material.RelPermittivity)
                        /\ SameNumber(properties, "mu_r", material.RelPermeability)
  BY Zenon DEF MaterialsAsWritten, NameOf
<1> DEFINE properties == Field(x, "properties", Null)
           material == DecodedMaterial(x)
<1>1. config.Materials[NameOf(x)] = material
  BY MaterialsByName, Zenon DEF NameOf
<1>2. /\ material.Conductivity = Number(properties, "sigma", 0)
      /\ material.RelPermittivity = Number(properties, "epsilon_r", 100)
      /\ material.RelPermeability = Number(properties, "mu_r", 100)
  BY DEF DecodedMaterial
<1>3. \A k, f : SameNumber(properties, k, Number(properties, k, f))
  BY ReadsKeep, Zenon
<1> HIDE DEF properties, material
<1>4. /\ SameNumber(properties, "sigma", material.Conductivity)
      /\ SameNumber(properties, "epsilon_r", material.RelPermittivity)
      /\ SameNumber(properties, "mu_r", material.RelPermeability)
  BY <1>2, <1>3, Zenon
<1> QED
  BY <1>1, <1>4 DEF properties

LEMMA DirectionKept ==
  ASSUME NEW o, NEW names, DirectionPassed(o, names)
  PROVE  DirectionAsWritten(o, GetCurrentDirection(o))
<1> DEFINE got == GetCurrentDirection(o)
<1>1. /\ \A k \in {"type", "input", "output", "cut"} : Has(o, k) => o.fields[k].type = "string"
      /\ \A k \in {"origin", "axis", "normal"} : Has(o, k) => IsPoint(o.fields[k], 3)
  BY DEF DirectionPassed
<1>2. got.Type = o.fields["type"].text
  BY DirectionReads
<1>3. /\ got.Input = GetText(o, "input", NotGiven)
      /\ got.Output = GetText(o, "output", NotGiven)
      /\ got.Cut = GetText(o, "cut", NotGiven)
  BY SMT DEF GetCurrentDirection, NotGiven
<1>4. /\ got.Origin = Read3(o, "origin", <<0, 0, 0>>)
      /\ got.Axis = Read3(o, "axis", <<0, 0, 100>>)
      /\ got.Normal = Read3(o, "normal", <<0, 0, 0>>)
  BY DEF GetCurrentDirection
<1> HIDE DEF got
<1>5. SameText(o, "type", got.Type)
  BY <1>2 DEF SameText
<1>6. ASSUME NEW k \in {"input", "output", "cut"} PROVE \A f : SameText(o, k, GetText(o, k, f))
  <2>1. Has(o, k) => o.fields[k].type = "string"
    BY <1>1
  <2> QED
    BY <2>1, ReadsKeep, Zenon
<1>7. ASSUME NEW k \in {"origin", "axis", "normal"} PROVE \A f : SameVector(o, k, Read3(o, k, f))
  <2>1. Has(o, k) => Len(Items(o.fields[k])) = 3
    BY <1>1 DEF IsPoint
  <2>2. Has(o, k) => \A f : Read3(o, k, f) = Numbers(o.fields[k])
    BY <2>1 DEF Read3, Field
  <2>3. \A v : SameNumbers(v, Numbers(v))
    BY ReadsKeep, Zenon
  <2> QED
    BY <2>2, <2>3, Zenon DEF SameVector
<1>8. /\ SameText(o, "input", got.Input) /\ SameText(o, "output", got.Output)
      /\ SameText(o, "cut", got.Cut)
  BY <1>3, <1>6, Zenon
<1>9. /\ SameVector(o, "origin", got.Origin) /\ SameVector(o, "axis", got.Axis)
      /\ SameVector(o, "normal", got.Normal)
  BY <1>4, <1>7, Zenon
<1> QED
  BY <1>5, <1>8, <1>9, Zenon DEF DirectionAsWritten, got

LEMMA TerminalKept ==
  ASSUME NEW d, NEW t, NEW names, TerminalPassed(d, t, names)
  PROVE  LET terminal == DecodedTerminal(t)
         IN  /\ SameText(t, "quantity", terminal.DriveQuantity)
             /\ SameText(t, "conductor_type", terminal.Conductor)
             /\ SameText(t, "entity_group", terminal.EntityGroupName)
             /\ SameNumber(t, "turns", terminal.Turns)
             /\ Has(t, "direction") =>
                  DirectionAsWritten(t.fields["direction"], terminal.Direction)
<1> DEFINE terminal == DecodedTerminal(t)
<1>1. /\ terminal.DriveQuantity = t.fields["quantity"].text
      /\ terminal.Conductor = Text(t, "conductor_type", "massive")
      /\ terminal.EntityGroupName = t.fields["entity_group"].text
      /\ terminal.Turns = Number(t, "turns", 100)
      /\ Has(t, "direction") => terminal.Direction = GetCurrentDirection(t.fields["direction"])
  BY TerminalReads
<1>2. Has(t, "direction") => DirectionPassed(t.fields["direction"], names)
  BY DEF TerminalPassed
<1> HIDE DEF terminal
<1>3. Has(t, "direction") => DirectionAsWritten(t.fields["direction"], terminal.Direction)
  BY <1>1, <1>2, DirectionKept
<1>4. /\ SameText(t, "quantity", terminal.DriveQuantity)
      /\ SameText(t, "conductor_type", terminal.Conductor)
      /\ SameText(t, "entity_group", terminal.EntityGroupName)
      /\ SameNumber(t, "turns", terminal.Turns)
  BY <1>1 DEF SameText, SameNumber, Text, Number, Written
<1> QED
  BY <1>3, <1>4 DEF terminal

LEMMA TerminalsKept ==
  ASSUME NEW names, OwnNames(Section(document, "terminals")),
         \A t \in Members(document, "terminals") : TerminalPassed(document, t, names),
         config.Terminals = GetTerminals(document)
  PROVE  TerminalsAsWritten
<1> SUFFICES ASSUME NEW t \in Members(document, "terminals")
             PROVE  LET terminal == config.Terminals[NameOf(t)]
                    IN  /\ SameText(t, "quantity", terminal.DriveQuantity)
                        /\ SameText(t, "conductor_type", terminal.Conductor)
                        /\ SameText(t, "entity_group", terminal.EntityGroupName)
                        /\ SameNumber(t, "turns", terminal.Turns)
                        /\ Has(t, "direction") =>
                             DirectionAsWritten(t.fields["direction"], terminal.Direction)
  BY Zenon DEF TerminalsAsWritten, NameOf
<1>1. config.Terminals[NameOf(t)] = DecodedTerminal(t)
  BY TerminalsByName, Zenon DEF NameOf
<1> QED
  BY <1>1, TerminalKept

\* No boundary condition of an accepted document is left out, or misplaced.
LEMMA BoundariesKept ==
  ASSUME IsValue(document), WellTyped(document), NEW names,
         ValidateBoundaries(document, names) = {},
         config.BoundaryConditions = GetBoundaries(document)
  PROVE  BoundariesAsWritten
<1> DEFINE listed == Section(document, "boundary_conditions")
           n == Len(listed)
           complete == {k \in DOMAIN listed :
                          \A key \in {"type", "value", "entity_group"} : Has(listed[k], key)}
           kept == InOrder(complete, n)
           got == config.BoundaryConditions
<1>1. n \in Nat /\ DOMAIN listed = 1 .. n
  BY ItemsOf DEF Section
<1>2. \A k \in DOMAIN listed : listed[k] \in Members(document, "boundary_conditions")
  BY DEF Members, Elements, Section
<1>3. \A k \in DOMAIN listed : BoundaryPassed(listed[k], names)
  BY <1>2, BoundariesPass
<1>4. complete = 0 + 1 .. 0 + n
  <2> HIDE DEF listed, n
  <2> QED
    BY <1>1, <1>3 DEF BoundaryPassed
<1>5. got = [k \in DOMAIN kept |->
               [Type            |-> Text(listed[kept[k]], "type", NotGiven),
                EntityGroupName |-> Text(listed[kept[k]], "entity_group", NotGiven),
                Value           |-> Number(listed[kept[k]], "value", 0),
                RobinCoeff      |-> Number(listed[kept[k]], "robin_coefficient", 100)]]
  BY Zenon DEF GetBoundaries, NotGiven
<1> HIDE DEF listed, n, complete, got
<1>6. /\ kept \in Seq(Nat)
      /\ Len(kept) = n /\ \A i \in 1 .. n : kept[i] = 0 + i
  <2>1. 0 \in Nat /\ 0 + n <= n
    BY <1>1
  <2>2. /\ Len(InOrder(0 + 1 .. 0 + n, n)) = n
        /\ \A i \in 1 .. n : InOrder(0 + 1 .. 0 + n, n)[i] = 0 + i
    BY <1>1, <2>1, BlockInOrder, Zenon
  <2>3. kept \in Seq(Nat)
    BY <1>1, InOrderStep
  <2> QED
    BY <1>4, <2>2, <2>3, Zenon
<1> HIDE DEF kept
<1>7. DOMAIN kept = 1 .. n /\ \A i \in 1 .. n : kept[i] = i
  BY <1>6
<1>8. DOMAIN got = 1 .. n
  BY <1>5, <1>7
<1>9. Len(got) = n
  <2>1. IsList(got, n)
    BY <1>1, <1>5, <1>8 DEF IsList
  <2> QED
    BY <2>1, Lists
<1>10. ASSUME NEW i \in 1 .. n
       PROVE  /\ SameText(listed[i], "type", got[i].Type)
              /\ SameText(listed[i], "entity_group", got[i].EntityGroupName)
              /\ SameNumber(listed[i], "value", got[i].Value)
              /\ SameNumber(listed[i], "robin_coefficient", got[i].RobinCoeff)
  <2> DEFINE bc == listed[i]
  <2>1. /\ got[i].Type = Text(bc, "type", NotGiven)
        /\ got[i].EntityGroupName = Text(bc, "entity_group", NotGiven)
        /\ got[i].Value = Number(bc, "value", 0)
        /\ got[i].RobinCoeff = Number(bc, "robin_coefficient", 100)
    BY <1>5, <1>7
  <2>2. \A k, f : SameText(bc, k, Text(bc, k, f)) /\ SameNumber(bc, k, Number(bc, k, f))
    BY ReadsKeep, Zenon
  <2> HIDE DEF bc
  <2>3. /\ SameText(bc, "type", got[i].Type)
        /\ SameText(bc, "entity_group", got[i].EntityGroupName)
        /\ SameNumber(bc, "value", got[i].Value)
        /\ SameNumber(bc, "robin_coefficient", got[i].RobinCoeff)
    BY <2>1, <2>2, Zenon
  <2> QED
    BY <2>3 DEF bc
<1> QED
  BY <1>1, <1>9, <1>10, Zenon DEF BoundariesAsWritten, n, listed, got

LEMMA RegionsKept ==
  ASSUME IsValue(document), NEW m, Passes(document, m),
         config.Regions = GetRegions(document)
  PROVE  RegionsAsWritten
<1> SUFFICES ASSUME NEW i \in DOMAIN Section(document, "regions")
             PROVE  LET written == Section(document, "regions")[i]
                        region == config.Regions[i]
                    IN  /\ SameText(written, "entity_group", region.EntityGroupName)
                        /\ SameText(written, "material", region.MaterialName)
                        /\ SameText(written, "current_constraint", region.CurrentConstraint)
  BY Zenon DEF RegionsAsWritten
<1> DEFINE written == Section(document, "regions")[i]
           region == config.Regions[i]
<1>1. i \in DOMAIN GetRegions(document)
  BY DEF GetRegions
<1>2. /\ region.EntityGroupName = written.fields["entity_group"].text
      /\ region.MaterialName = Text(written, "material", NotGiven)
      /\ region.CurrentConstraint = Text(written, "current_constraint", "none")
  BY <1>1, RegionsFit, Zenon DEF NotGiven
<1> HIDE DEF written, region
<1>3. \A k, f : SameText(written, k, Text(written, k, f))
  BY ReadsKeep, Zenon
<1>4. SameText(written, "entity_group", region.EntityGroupName)
  BY <1>2 DEF SameText
<1>5. /\ SameText(written, "material", region.MaterialName)
      /\ SameText(written, "current_constraint", region.CurrentConstraint)
  BY <1>2, <1>3, Zenon
<1> QED
  BY <1>4, <1>5 DEF written, region

\* A line of probes starts where it was written to.
LEMMA LineKept ==
  ASSUME NEW from, NEW to, NEW count, count \in Int, ~(count < 2),
         DOMAIN from = DOMAIN to,
         \A c \in DOMAIN from : from[c] \in Int /\ to[c] \in Int,
         from = [c \in DOMAIN from |-> from[c]],
         NEW points, points = [i \in 1 .. count |->
                                [c \in DOMAIN from |->
                                   from[c] + ((i - 1) * (to[c] - from[c])) \div (count - 1)]]
  PROVE  Len(points) = count /\ points[1] = from
<1>1. count \in Nat /\ 1 \in 1 .. count /\ count - 1 \in Nat \ {0}
  OBVIOUS
<1>2. Len(points) = count
  BY <1>1
<1>3. ASSUME NEW c \in DOMAIN from
      PROVE  from[c] + ((1 - 1) * (to[c] - from[c])) \div (count - 1) = from[c]
  <2> DEFINE step == to[c] - from[c]
             last == count - 1
  <2>1. step \in Int /\ last \in Nat \ {0} /\ from[c] \in Int
    BY <1>1, <1>3
  <2> HIDE DEF step, last
  <2>2. (1 - 1) * step = 0
    BY <2>1
  <2>3. 0 \div last = 0
    BY <2>1
  <2> QED
    BY <2>1, <2>2, <2>3 DEF step, last
<1>4. points[1] = [c \in DOMAIN from |->
                     from[c] + ((1 - 1) * (to[c] - from[c])) \div (count - 1)]
  BY <1>1
<1>5. points[1] = [c \in DOMAIN from |-> from[c]]
  BY <1>3, <1>4
<1> QED
  BY <1>2, <1>5

LEMMA ProbeKept ==
  ASSUME NEW probe, IsPlain(probe), IsNarrow(Values), NEW dim, ProbePassed(probe, dim)
  PROVE  ProbeAsWritten(probe, GetProbe(probe))
<1> DEFINE got == GetProbe(probe)
           line == Field(probe, "line", Null)
           points == Items(Field(probe, "points", Null))
           from == Numbers(Field(line, "from", Null))
           to == Numbers(Field(line, "to", Null))
           count == Integer(line, "count", 0)
<1>1. /\ got.Name = Text(probe, "name", NotGiven)
      /\ got.Group = GetText(probe, "entity_group", NotGiven)
  BY Zenon DEF GetProbe, NotGiven
<1>2. /\ Has(probe, "points") =>
            got.Points = [i \in DOMAIN points |-> Numbers(points[i])]
      /\ ~Has(probe, "points") =>
            got.Points = [i \in 1 .. count |->
                           [c \in DOMAIN from |->
                              from[c] + ((i - 1) * (to[c] - from[c])) \div (count - 1)]]
  BY Zenon DEF GetProbe
<1> HIDE DEF got
<1>3. \A v : SameNumbers(v, Numbers(v))
  BY ReadsKeep, Zenon
<1>4. SameText(probe, "name", got.Name)
  BY <1>1, ReadsKeep, Zenon
<1>5. SameText(probe, "entity_group", got.Group)
  <2>1. Has(probe, "entity_group") => probe.fields["entity_group"].type = "string"
    BY DEF ProbePassed
  <2> QED
    BY <1>1, <2>1, ReadsKeep, Zenon
<1>6. Has(probe, "points") =>
        /\ Len(got.Points) = Len(points)
        /\ \A i \in DOMAIN points : SameNumbers(points[i], got.Points[i])
  <2>1. DOMAIN points = 1 .. Len(points) /\ Len(points) \in Nat
    BY ItemsOf
  <2> HIDE DEF points
  <2>2. ASSUME Has(probe, "points") PROVE Len(got.Points) = Len(points)
    <3>1. IsList(got.Points, Len(points))
      BY <1>2, <2>1, <2>2 DEF IsList
    <3> QED
      BY <3>1, Lists
  <2>3. Has(probe, "points") => \A i \in DOMAIN points : got.Points[i] = Numbers(points[i])
    BY <1>2
  <2> QED
    BY <1>3, <2>2, <2>3, Zenon
<1>7. Has(probe, "line") =>
        /\ SameNumber(line, "count", 100 * Len(got.Points))
        /\ SameVector(line, "from", got.Points[1])
  <2> SUFFICES ASSUME Has(probe, "line")
               PROVE  /\ SameNumber(line, "count", 100 * Len(got.Points))
                      /\ SameVector(line, "from", got.Points[1])
    OBVIOUS
  <2>1. line = probe.fields["line"] /\ ~Has(probe, "points")
    BY DEF ProbePassed, Field
  <2>2. IsPlain(line)
    BY <2>1, PlainHolds
  <2>3. /\ IsPoint(Field(line, "from", Null), dim) /\ IsPoint(Field(line, "to", Null), dim)
        /\ Has(line, "count") /\ line.fields["count"].type = "integer"
        /\ ~(AsInt(line.fields["count"]) < 2)
    BY <2>1 DEF ProbePassed
  <2> HIDE DEF line
  <2>4. /\ count \in Int /\ ~(count < 2)
        /\ \A f : SameNumber(line, "count", 100 * Integer(line, "count", f))
    <3>1. IsPlain(line.fields["count"])
      BY <2>2, <2>3, PlainHolds
    <3>2. AsInt(line.fields["count"]) \in Int
      BY <2>3, <3>1, NarrowReads
    <3> QED
      BY <2>2, <2>3, <3>2, IntegersKeep DEF Integer
  <2>5. ASSUME NEW k \in {"from", "to"}
        PROVE  LET v == Numbers(Field(line, k, Null))
               IN  /\ DOMAIN v = 1 .. dim /\ v = [c \in DOMAIN v |-> v[c]]
                   /\ \A c \in DOMAIN v : v[c] \in Int
    <3> DEFINE f == Field(line, k, Null)
               v == Numbers(f)
    <3>1. IsPoint(f, dim)
      BY <2>3
    <3>2. Has(line, k) /\ f = line.fields[k]
      BY <3>1 DEF IsPoint, Field, Null
    <3>3. IsPlain(f)
      BY <2>2, <3>2, PlainHolds
    <3>4. \A x \in Elements(f) : AsNumber(x) \in Int
      <4>1. \A x \in Elements(f) : IsPlain(x) /\ HasType(x, "number")
        BY <3>1, <3>3, PlainHolds DEF IsPoint
      <4> QED
        BY <4>1, NarrowReads
    <3>5. DOMAIN Items(f) = 1 .. dim
      BY <3>1, ItemsOf DEF IsPoint
    <3> HIDE DEF f
    <3>6. v = [c \in DOMAIN Items(f) |-> AsNumber(Items(f)[c])]
      BY DEF Numbers
    <3> HIDE DEF v
    <3>7. DOMAIN v = 1 .. dim /\ v = [c \in DOMAIN v |-> v[c]]
      BY <3>5, <3>6
    <3>8. \A c \in DOMAIN v : v[c] \in Int
      BY <3>4, <3>6 DEF Elements
    <3> QED
      BY <3>7, <3>8 DEF v, f
  <2> HIDE DEF from, to, count
  <2>6. /\ DOMAIN from = DOMAIN to /\ from = [c \in DOMAIN from |-> from[c]]
        /\ \A c \in DOMAIN from : from[c] \in Int /\ to[c] \in Int
    BY <2>5 DEF from, to
  <2>7. Len(got.Points) = count /\ got.Points[1] = from
    BY <1>2, <2>1, <2>4, <2>6, LineKept
  <2>8. SameVector(line, "from", from)
    BY <1>3 DEF SameVector, Field, from
  <2> QED
    BY <2>4, <2>7, <2>8, Zenon DEF count
<1> HIDE DEF line, points
<1> QED
  BY <1>4, <1>5, <1>6, <1>7, Zenon DEF ProbeAsWritten, got, line, points

\* The path of an output that was asked for.
LEMMA TargetKept ==
  ASSUME NEW S, NEW directory \in Seq(S), NEW written, NEW f, NEW key, NEW name,
         Has(written, f) =>
            \A k : Has(written.fields[f], k) => written.fields[f].fields[k].type = "string",
         NEW path,
         path = IF Has(written, f)
                THEN Resolve(directory, GetText(written.fields[f], key, name)) ELSE <<>>
  PROVE  /\ path # <<>> <=> Has(written, f)
         /\ SamePath(Field(written, f, Null), key, path)
<1> DEFINE target == Field(written, f, Null)
           text == GetText(target, key, name)
<1>1. CASE Has(written, f)
  <2>1. target = written.fields[f]
    BY <1>1 DEF Field
  <2>2. path = Resolve(directory, text)
    BY <1>1, <2>1
  <2>3. Has(target, key) => text = target.fields[key].text
    BY <1>1, <2>1, TextReads
  <2> HIDE DEF text, target
  <2>4. path # <<>> /\ path[Len(path)] = text
    BY <2>2, PathsKeep
  <2>5. SamePath(target, key, path)
    BY <2>3, <2>4 DEF SamePath
  <2> QED
    BY <1>1, <2>4, <2>5 DEF target
<1>2. CASE ~Has(written, f)
  <2>1. ~Has(target, key)
    BY <1>2 DEF Field, Has, Null
  <2> QED
    BY <1>2, <2>1 DEF SamePath
<1> QED
  BY <1>1, <1>2

LEMMA OutputKept ==
  ASSUME IsPlain(document), IsNarrow(Values), ValidateOutput(document) = {},
         NEW mesh0, NEW names, ValidateProbes(document, mesh0, names) = {},
         config.Output = GetOutputSettings(document)
  PROVE  OutputAsWritten
<1> DEFINE written == Field(document, "output", Obj(<<>>))
           output == config.Output
           directory == Resolve(<<"config">>, GetText(written, "directory", "results"))
           Path(format, key, name) ==
             IF Has(written, format)
             THEN Resolve(directory, GetText(written.fields[format], key, name)) ELSE <<>>
           Target(format, key, path) ==
             /\ path # <<>> <=> Has(written, format)
             /\ SamePath(Field(written, format, Null), key, path)
           probes == Section(written, "probes")
<1>1. /\ written.type = "object" /\ Typed(written, OutputTypes)
      /\ \A f \in {"paraview", "gmsh", "hdf5"} :
            Has(written, f) => ValidateFormat(written.fields[f], f) = {}
      /\ \A p \in Members(written, "probes") : \E dim : ProbePassed(p, dim)
  BY OutputPasses
<1>2. IsPlain(written)
  <2>1. CASE Has(document, "output")
    <3>1. written = document.fields["output"]
      BY <2>1 DEF Field
    <3> QED
      BY <2>1, <3>1, PlainHolds
  <2>2. CASE ~Has(document, "output")
    <3>1. written = Obj(<<>>)
      BY <2>2 DEF Field
    <3> QED
      BY <3>1, PlainValues
  <2> QED
    BY <2>1, <2>2
<1>3. /\ output.Directory = directory
      /\ output.Export = GetBool(written, "export_fields_for_coupling_matrix", FALSE)
      /\ output.Paraview = Path("paraview", "directory", "paraview")
      /\ output.Gmsh = Path("gmsh", "directory", "gmsh")
      /\ output.Version = GetText(Field(written, "gmsh", Null), "version", "2.2")
      /\ output.Hdf5 = Path("hdf5", "file", "results.h5")
      /\ output.Probes = [i \in DOMAIN probes |-> GetProbe(probes[i])]
  BY DEF GetOutputSettings
<1> HIDE DEF written, output
<1>4. /\ Has(written, "directory") => written.fields["directory"].type = "string"
      /\ Has(written, "export_fields_for_coupling_matrix") =>
            written.fields["export_fields_for_coupling_matrix"].type = "boolean"
  BY <1>1 DEF Typed, OutputTypes, HasType
<1>5. \A f \in {"paraview", "gmsh", "hdf5"} : Has(written, f) =>
        \A k : Has(written.fields[f], k) => written.fields[f].fields[k].type = "string"
  <2>1. DOMAIN FormatKeys = {"paraview", "gmsh", "hdf5"}
    BY DEF FormatKeys
  <2> QED
    BY <1>1, <2>1, FormatReads
<1>6. <<"config">> \in Seq({"config"})
  OBVIOUS
<1>7. PICK S : directory \in Seq(S)
  BY <1>6, PathsKeep
<1>8. SamePath(written, "directory", output.Directory)
  <2> DEFINE text == GetText(written, "directory", "results")
  <2>1. Has(written, "directory") => text = written.fields["directory"].text
    BY <1>4, TextReads
  <2>2. output.Directory = Resolve(<<"config">>, text)
    BY <1>3
  <2> HIDE DEF text
  <2>3. output.Directory[Len(output.Directory)] = text
    BY <1>6, <2>2, PathsKeep
  <2> QED
    BY <2>1, <2>3 DEF SamePath
<1> HIDE DEF directory
<1>9. SameTruth(written, "export_fields_for_coupling_matrix", output.Export)
  <2> DEFINE key == "export_fields_for_coupling_matrix"
             truth == output.Export
  <2>1. truth = GetBool(written, key, FALSE)
    BY <1>3
  <2>2. Has(written, key) => written.fields[key].type = "boolean"
    BY <1>4
  <2> HIDE DEF key, truth
  <2>3. SameTruth(written, key, truth)
    BY <2>1, <2>2, ReadsKeep, Zenon
  <2> QED
    BY <2>3 DEF key, truth
<1>10. ASSUME NEW f \in {"paraview", "gmsh", "hdf5"}, NEW key, NEW name, NEW path,
              path = Path(f, key, name)
       PROVE  Target(f, key, path)
  BY <1>5, <1>7, <1>10, TargetKept
<1> HIDE DEF Path, Target
<1>11. /\ Target("paraview", "directory", output.Paraview)
       /\ Target("gmsh", "directory", output.Gmsh)
       /\ Target("hdf5", "file", output.Hdf5)
  BY <1>3, <1>10
<1>12. SameText(Field(written, "gmsh", Null), "version", output.Version)
  <2> DEFINE gmsh == Field(written, "gmsh", Null)
  <2>1. Has(gmsh, "version") => gmsh.fields["version"].type = "string"
    BY <1>5 DEF Field, Has, Null
  <2>2. output.Version = GetText(gmsh, "version", "2.2")
    BY <1>3
  <2> HIDE DEF gmsh
  <2>3. SameText(gmsh, "version", output.Version)
    BY <2>1, <2>2, ReadsKeep, Zenon
  <2> QED
    BY <2>3 DEF gmsh
<1>13. DOMAIN probes = 1 .. Len(probes) /\ Len(probes) \in Nat
  BY ItemsOf DEF Section
<1>14. \A i \in DOMAIN probes : probes[i] \in Members(written, "probes")
  BY DEF Section, Members, Elements
<1> HIDE DEF probes
<1>15. Len(output.Probes) = Len(probes)
  <2>1. IsList(output.Probes, Len(probes))
    BY <1>3, <1>13 DEF IsList
  <2> QED
    BY <2>1, Lists
<1>16. ASSUME NEW i \in DOMAIN probes PROVE ProbeAsWritten(probes[i], output.Probes[i])
  <2>1. IsPlain(probes[i])
    BY <1>2, <1>14, PlainMembers
  <2>2. PICK dim : ProbePassed(probes[i], dim)
    BY <1>1, <1>14
  <2>3. output.Probes[i] = GetProbe(probes[i])
    BY <1>3
  <2> QED
    BY <2>1, <2>2, <2>3, ProbeKept
<1> QED
  BY <1>8, <1>9, <1>11, <1>12, <1>15, <1>16, Zenon
     DEF OutputAsWritten, Target, written, output, probes

\* The sections of an accepted document, but for the scenarios and the output.
LEMMA EntriesKept ==
  ASSUME IsPlain(document), IsNarrow(Values), NEW m, Passes(document, m),
         config = GetProblemConfig(document)
  PROVE  /\ OneEach("entity_groups", config.EntityGroups)
         /\ OneEach("materials", config.Materials)
         /\ OneEach("terminals", config.Terminals)
         /\ SimulationAsWritten /\ AmrAsWritten /\ GroupsAsWritten /\ MaterialsAsWritten
         /\ RegionsAsWritten /\ BoundariesAsWritten /\ TerminalsAsWritten
<1>1. IsValue(document)
  BY PlainIsValue
<1>2. /\ WellTyped(document) /\ ValidateSimulation(document) = {}
      /\ ValidateEntityGroups(NoNames, document, m) = {}
      /\ ValidateMaterials(document) = {}
      /\ ValidateTerminals(document, Names(document, m)) = {}
      /\ ValidateBoundaries(document, Names(document, m)) = {}
  BY ChecksPass
<1>3. /\ OwnNames(Section(document, "entity_groups"))
      /\ OwnNames(Section(document, "materials"))
      /\ OwnNames(Section(document, "terminals"))
      /\ \A g \in Members(document, "entity_groups") : GroupPassed(document, m, g)
      /\ \A t \in Members(document, "terminals") :
            TerminalPassed(document, t, Names(document, m))
  BY <1>1, <1>2, GroupsPass, MaterialsPass, TerminalsPass
<1>4. /\ config.EntityGroups = GetEntityGroups(document)
      /\ config.Materials = GetMaterials(document)
      /\ config.Terminals = GetTerminals(document)
      /\ config.Regions = GetRegions(document)
      /\ config.BoundaryConditions = GetBoundaries(document)
  BY DecodedFields DEF GetProblemConfig
<1>5. /\ DOMAIN config.EntityGroups = {NameOf(g) : g \in Members(document, "entity_groups")}
      /\ \A g \in Members(document, "entity_groups") :
            config.EntityGroups[NameOf(g)] = DecodedGroup(g)
  BY <1>3, <1>4, GroupsByName DEF GroupName, NameOf
<1>6. DOMAIN config.Materials = {NameOf(x) : x \in Members(document, "materials")}
  BY <1>3, <1>4, MaterialsByName DEF NameOf
<1>7. /\ DOMAIN config.Terminals = {NameOf(t) : t \in Members(document, "terminals")}
      /\ \A t \in Members(document, "terminals") :
            config.Terminals[NameOf(t)] = DecodedTerminal(t)
  BY <1>3, <1>4, TerminalsByName DEF NameOf
<1>8. /\ OneEach("entity_groups", config.EntityGroups)
      /\ OneEach("materials", config.Materials)
      /\ OneEach("terminals", config.Terminals)
  <2>1. ASSUME NEW key \in {"entity_groups", "materials", "terminals"}, NEW decoded,
               OwnNames(Section(document, key)),
               DOMAIN decoded = {NameOf(x) : x \in Members(document, key)}
        PROVE  OneEach(key, decoded)
    BY <2>1, EachOnce DEF OneEach, NameOf
  <2> QED
    BY <1>3, <1>5, <1>6, <1>7, <2>1
<1>9. SimulationAsWritten /\ AmrAsWritten
  BY <1>2, SimulationKept, AmrKept
<1>10. GroupsAsWritten
  BY <1>2, <1>3, <1>4, GroupsKept
<1>11. MaterialsAsWritten
  BY <1>3, <1>4, MaterialsKept
<1>12. RegionsAsWritten
  BY <1>1, <1>4, RegionsKept
<1>13. BoundariesAsWritten
  BY <1>1, <1>2, <1>4, BoundariesKept
<1>14. TerminalsAsWritten
  BY <1>3, <1>4, TerminalsKept
<1> QED
  BY <1>8, <1>9, <1>10, <1>11, <1>12, <1>13, <1>14

-----------------------------------------------------------------------------
(* The points of a sweep.                                                  *)

\* a to the n is a times a to the n - 1.
LEMMA PowerStep ==
  ASSUME NEW a \in Nat
  PROVE  /\ Power(a, 0) = 1
         /\ \A n \in Nat : Power(a, n) \in Nat /\ Power(a, n + 1) = a * Power(a, n)
<1> DEFINE G == [n \in Nat |-> [x \in Nat |-> a * x]]
           P(f) == [k \in Nat |-> IF k = 0 THEN 1 ELSE a * f[k - 1]]
           power == CHOOSE f : f = P(f)
<1>1. \A n : Power(a, n) = power[n]
  BY DEF Power
<1>2. \A x \in Nat : a * x \in Nat
  OBVIOUS
<1>3. G \in [Nat -> [Nat -> Nat]]
  BY <1>2
<1>4. PICK f \in [Nat -> Nat] : RunsOn(f, 1, G)
  BY <1>3, Recursion
<1>5. f = P(f)
  <2>1. \A n \in Nat : f[n + 1] = a * f[n] /\ f[0] = 1
    BY <1>4 DEF RunsOn
  <2>2. ASSUME NEW k \in Nat, k # 0 PROVE f[k] = a * f[k - 1]
    <3>1. k - 1 \in Nat /\ (k - 1) + 1 = k
      BY <2>2
    <3> QED
      BY <2>1, <3>1
  <2> QED
    BY <2>1, <2>2
<1>6. power = P(power)
  BY <1>5
<1> HIDE DEF power
<1>7. power[0] = 1 /\ \A n \in Nat : power[n + 1] = a * power[n]
  <2>1. \A n \in Nat : n + 1 # 0 /\ (n + 1) - 1 = n /\ n + 1 \in Nat
    OBVIOUS
  <2> QED
    BY <1>6, <2>1
<1> DEFINE S == {n \in Nat : power[n] \in Nat}
<1>8. 0 \in S /\ \A n \in Nat : n \in S => n + 1 \in S
  BY <1>2, <1>7
<1> HIDE DEF S
<1>9. Nat \subseteq S
  BY <1>8, Induction
<1> QED
  BY <1>1, <1>7, <1>9 DEF S

\* A non-empty set of numbers up to b has its largest.
LEMMA LargestExists ==
  ASSUME NEW b \in Nat, NEW S \in SUBSET (0 .. b), S # {}
  PROVE  Max(S) \in S /\ \A y \in S : y <= Max(S)
<1> DEFINE T == {b - y : y \in S}
<1>1. T \in SUBSET Nat /\ T # {}
  <2>1. \A y \in S : b - y \in Nat
    OBVIOUS
  <2> QED
    BY <2>1
<1>2. PICK t \in T : \A k \in T : t <= k
  BY <1>1, LeastNumber
<1>3. PICK x \in S : t = b - x
  BY <1>2
<1>4. \A y \in S : y \in Int /\ y <= x
  <2>1. ASSUME NEW y \in S PROVE y \in Int /\ y <= x
    <3>1. b - y \in T
      OBVIOUS
    <3>2. b - x <= b - y
      BY <1>2, <1>3, <3>1
    <3> HIDE DEF T
    <3>3. b \in Int /\ x \in Int /\ y \in Int
      OBVIOUS
    <3> QED
      BY <3>2, <3>3
  <2> QED
    BY <2>1
<1>5. Max(S) = x
  BY <1>4, LargestOf
<1> QED
  BY <1>4, <1>5

\* A geometric spacing rises from its start to its stop.
LEMMA LogSpacedFits ==
  ASSUME NEW start \in Nat \ {0}, NEW stop \in Nat, start <= stop, NEW m \in Nat \ {0}
  PROVE  /\ \A i \in 0 .. m : LogSpaced(start, stop, m, i) \in start .. stop
         /\ \A i \in 0 .. m - 1 :
                LogSpaced(start, stop, m, i) <= LogSpaced(start, stop, m, i + 1)
<1> DEFINE bound(i) == Power(start, m - i) * Power(stop, i)
           S(i) == {f \in start .. stop : Power(f, m) <= bound(i)}
<1>1. \A a \in {start, stop} : \A n \in Nat : Power(a, n) \in Nat
  BY PowerStep
<1>2. ASSUME NEW i \in 0 .. m PROVE bound(i) \in Nat
  <2>1. m - i \in Nat /\ i \in Nat
    OBVIOUS
  <2>2. Power(start, m - i) \in Nat /\ Power(stop, i) \in Nat
    BY <1>1, <2>1
  <2> QED
    BY <2>2
<1>3. ASSUME NEW i \in 0 .. m - 1 PROVE bound(i) <= bound(i + 1)
  <2>1. i \in Nat /\ m - (i + 1) \in Nat /\ (m - (i + 1)) + 1 = m - i
    OBVIOUS
  <2>2. /\ Power(start, m - i) = start * Power(start, m - (i + 1))
        /\ Power(stop, i + 1) = stop * Power(stop, i)
        /\ Power(start, m - (i + 1)) \in Nat /\ Power(stop, i) \in Nat
    BY <2>1, PowerStep
  <2> DEFINE p == Power(start, m - (i + 1))
             q == Power(stop, i)
  <2>3. bound(i) = (start * p) * q /\ bound(i + 1) = p * (stop * q) /\ p \in Nat /\ q \in Nat
    BY <2>2
  <2> HIDE DEF p, q, bound
  <2>4. p * q \in Nat
    BY <2>3
  <2>5. bound(i) = start * (p * q) /\ bound(i + 1) = stop * (p * q)
    BY <2>3
  <2>6. (stop - start) * (p * q) >= 0
    BY <2>4
  <2> QED
    BY <2>4, <2>5, <2>6
<1>4. bound(0) = Power(start, m)
  <2>1. m - 0 = m /\ Power(stop, 0) = 1 /\ Power(start, m) \in Nat
    BY PowerStep
  <2> QED
    BY <2>1
<1> HIDE DEF bound
<1>5. \A i \in 0 .. m : bound(0) <= bound(i)
  <2> DEFINE T == {i \in Nat : i <= m => bound(0) <= bound(i)}
  <2>1. 0 \in T
    BY <1>2
  <2>2. ASSUME NEW i \in Nat, i \in T PROVE i + 1 \in T
    <3>1. CASE i + 1 <= m
      <4>1. i \in 0 .. m - 1 /\ i \in 0 .. m /\ i + 1 \in 0 .. m /\ 0 \in 0 .. m
        BY <3>1
      <4>2. bound(0) <= bound(i) /\ bound(i) <= bound(i + 1)
        BY <1>3, <2>2, <4>1
      <4>3. bound(0) \in Nat /\ bound(i) \in Nat /\ bound(i + 1) \in Nat
        BY <1>2, <4>1
      <4> QED
        BY <4>2, <4>3
    <3>2. CASE ~(i + 1 <= m)
      BY <3>2
    <3> QED
      BY <3>1, <3>2
  <2> HIDE DEF T
  <2>3. Nat \subseteq T
    BY <2>1, <2>2, Induction
  <2> QED
    BY <2>3 DEF T
<1>6. ASSUME NEW i \in 0 .. m PROVE Max(S(i)) \in S(i) /\ \A y \in S(i) : y <= Max(S(i))
  <2>1. S(i) \in SUBSET (0 .. stop)
    OBVIOUS
  <2>2. start \in S(i)
    BY <1>4, <1>5
  <2> HIDE DEF S
  <2> QED
    BY <2>1, <2>2, LargestExists
<1>7. \A i : LogSpaced(start, stop, m, i) = Max(S(i))
  BY DEF LogSpaced, bound
<1>8. ASSUME NEW i \in 0 .. m PROVE Max(S(i)) \in start .. stop
  BY <1>6
<1>9. ASSUME NEW i \in 0 .. m - 1 PROVE Max(S(i)) <= Max(S(i + 1))
  <2>1. i \in 0 .. m /\ i + 1 \in 0 .. m
    OBVIOUS
  <2>2. bound(i) \in Nat /\ bound(i + 1) \in Nat /\ bound(i) <= bound(i + 1)
    BY <1>2, <1>3, <2>1
  <2>3. \A f \in start .. stop : Power(f, m) \in Nat
    <3>1. \A f \in start .. stop : f \in Nat
      OBVIOUS
    <3> QED
      BY <3>1, PowerStep
  <2>4. S(i) \subseteq S(i + 1)
    BY <2>2, <2>3
  <2> HIDE DEF S
  <2> QED
    BY <1>6, <2>1, <2>4
<1> HIDE DEF S
<1> QED
  BY <1>7, <1>8, <1>9

\* The error of exp and log moves a point by a last place, and never to zero.
LEMMA ExpLogFits ==
  ASSUME NEW start \in Nat \ {0}, NEW stop \in Nat, start <= stop, NEW n \in Nat \ {0, 1},
         NEW i \in 0 .. n - 1
  PROVE  LET point == ExpLog(start, stop, n, i)
             spaced == LogSpaced(start, stop, n - 1, i)
         IN  /\ point \in Nat \ {0}
             /\ spaced - 1 <= point /\ point <= spaced + 1
<1> DEFINE q == <<start, stop, n, i>>
           error == IF q \in DOMAIN ExpLogErrors THEN ExpLogErrors[q] ELSE 0
           spaced == LogSpaced(start, stop, n - 1, i)
           S == {1, spaced + error}
<1>1. error \in Int /\ -1 <= error /\ error <= 1
  <2>1. q \in DOMAIN ExpLogErrors => ExpLogErrors[q] \in -1 .. 1
    BY ErrorsAssumption DEF LastPlace
  <2> QED
    BY <2>1
<1>2. spaced \in start .. stop
  <2>1. n - 1 \in Nat \ {0}
    OBVIOUS
  <2> QED
    BY <2>1, LogSpacedFits
<1>3. ExpLog(start, stop, n, i) = Max(S)
  BY DEF ExpLog
<1> HIDE DEF error, spaced
<1>4. spaced \in Nat \ {0}
  BY <1>2
<1>5. CASE spaced + error >= 1
  <2>1. spaced + error \in S /\ \A y \in S : y \in Int /\ y <= spaced + error
    BY <1>1, <1>4, <1>5
  <2> HIDE DEF S
  <2>2. Max(S) = spaced + error
    BY <1>1, <1>4, <2>1, LargestOf
  <2> QED
    BY <1>1, <1>3, <1>4, <1>5, <2>2 DEF spaced
<1>6. CASE ~(spaced + error >= 1)
  <2>1. 1 \in S /\ \A y \in S : y \in Int /\ y <= 1
    BY <1>1, <1>4, <1>6
  <2> HIDE DEF S
  <2>2. Max(S) = 1
    BY <2>1, LargestOf
  <2> QED
    BY <1>1, <1>3, <1>4, <1>6, <2>2 DEF spaced
<1> QED
  BY <1>5, <1>6

\* What a logarithmic point may be off by.
SlackOf(scale) == IF scale = "log" THEN LastPlace ELSE 0

\* The last of several points is the stop, a single one the start, and they rise
\* between the two but for the error of logarithmic points.
SweepRises(scale, start, stop, n) ==
  LET hz(i) == SweepFrequency(scale, start, stop, n, i)
      slack == SlackOf(scale)
  IN  /\ n = 1 \/ scale # "log" => hz(0) = start
      /\ n > 1 => hz(n - 1) = stop
      /\ \A i \in 0 .. n - 1 : hz(i) \in Nat \ {0}
      /\ \A i \in 0 .. n - 1 : hz(i) \in start - slack .. stop + slack
      /\ \A i \in 0 .. n - 2 : hz(i) <= hz(i + 1) + 2 * slack

LEMMA SweepFits ==
  ASSUME NEW scale, NEW start \in Nat \ {0}, NEW stop \in Nat, start <= stop,
         NEW n \in Nat \ {0}
  PROVE  SweepRises(scale, start, stop, n)
<1> DEFINE hz(i) == SweepFrequency(scale, start, stop, n, i)
           m == n - 1
           linear(i) == start + (i * (stop - start)) \div m
<1>1. CASE n = 1
  <2>1. \A i : hz(i) = start
    BY <1>1 DEF SweepFrequency
  <2> DEFINE slack == SlackOf(scale)
  <2>2. slack \in Nat
    BY DEF SlackOf, LastPlace
  <2> HIDE DEF hz, slack
  <2>3. start \in start - slack .. stop + slack
    BY <2>2
  <2> QED
    BY <1>1, <2>1, <2>3 DEF hz, slack, SweepRises
<1>2. CASE n # 1
  <2>1. m \in Nat \ {0} /\ n - 2 = m - 1
    BY <1>2
  <2>2. hz(m) = stop
    BY <1>2 DEF SweepFrequency
  <2>3. CASE scale = "log"
    <3> DEFINE spaced(i) == LogSpaced(start, stop, m, i)
    <3>1. ASSUME NEW i \in 0 .. m - 1 PROVE hz(i) = ExpLog(start, stop, n, i)
      BY <1>2, <2>3 DEF SweepFrequency
    <3>2. /\ \A i \in 0 .. m : spaced(i) \in start .. stop
          /\ \A i \in 0 .. m - 1 : spaced(i) <= spaced(i + 1)
      BY <2>1, LogSpacedFits
    <3>3. ASSUME NEW i \in 0 .. m - 1
          PROVE  hz(i) \in Nat \ {0} /\ spaced(i) - 1 <= hz(i) /\ hz(i) <= spaced(i) + 1
      <4>1. n \in Nat \ {0, 1} /\ i \in 0 .. n - 1
        BY <1>2, <2>1
      <4>2. LET point == ExpLog(start, stop, n, i)
            IN  point \in Nat \ {0} /\ spaced(i) - 1 <= point /\ point <= spaced(i) + 1
        BY <4>1, ExpLogFits
      <4> QED
        BY <3>1, <4>2
    <3>4. SlackOf(scale) = 1
      BY <2>3 DEF SlackOf, LastPlace
    <3> HIDE DEF hz, m, spaced
    <3>5. \A i \in 0 .. m : i \in 0 .. m - 1 \/ i = m
      BY <2>1
    <3>6. \A i \in 0 .. m : hz(i) \in Nat \ {0} /\ hz(i) \in start - 1 .. stop + 1
      <4>1. ASSUME NEW i \in 0 .. m - 1 PROVE hz(i) \in start - 1 .. stop + 1
        <5>1. spaced(i) \in start .. stop
          BY <2>1, <3>2
        <5> QED
          BY <3>3, <5>1
      <4> QED
        BY <2>2, <3>3, <3>5, <4>1
    <3>7. ASSUME NEW i \in 0 .. m - 1 PROVE hz(i) <= hz(i + 1) + 2
      <4>1. i \in 0 .. m /\ i + 1 \in 0 .. m
        BY <2>1
      <4>2. /\ spaced(i) \in Nat /\ spaced(i + 1) \in Nat /\ spaced(i) <= spaced(i + 1)
            /\ spaced(i) <= stop /\ hz(i) \in Nat /\ hz(i) <= spaced(i) + 1
        BY <3>2, <3>3, <4>1
      <4>3. CASE i + 1 \in 0 .. m - 1
        <5>1. hz(i + 1) \in Nat /\ spaced(i + 1) - 1 <= hz(i + 1)
          BY <3>3, <4>3
        <5> QED
          BY <4>2, <5>1
      <4>4. CASE i + 1 = m
        BY <2>2, <4>2, <4>4
      <4> QED
        BY <3>5, <4>1, <4>3, <4>4
    <3>8. /\ n - 1 = m /\ n - 2 = m - 1 /\ n > 1 /\ n # 1
      BY <1>2, <2>1 DEF m
    <3> QED
      BY <2>2, <2>3, <3>4, <3>6, <3>7, <3>8 DEF hz, SweepRises
  <2>4. CASE scale # "log"
    <3>1. ASSUME NEW i \in 0 .. m - 1 PROVE hz(i) = linear(i)
      BY <1>2, <2>4 DEF SweepFrequency
    <3> DEFINE w == stop - start
               q(i) == (i * w) \div m
    <3>2. w \in Nat
      OBVIOUS
    <3>3. ASSUME NEW i \in 0 .. m
          PROVE  q(i) \in Nat /\ m * q(i) <= i * w /\ i * w < m * q(i) + m
      <4>1. i * w \in Nat
        BY <3>2
      <4> DEFINE a == i * w
      <4> HIDE DEF a, m
      <4>2. a \div m \in Nat /\ a % m \in 0 .. m - 1 /\ a = m * (a \div m) + (a % m)
        BY <2>1, <4>1, Division DEF a
      <4> DEFINE b == a \div m
                 c == a % m
      <4>3. b \in Nat /\ c \in 0 .. m - 1 /\ a = m * b + c
        BY <4>2
      <4> HIDE DEF b, c
      <4>4. m * b \in Nat
        BY <2>1, <4>3
      <4>5. m * b <= a /\ a < m * b + m
        BY <2>1, <4>3, <4>4
      <4> QED
        BY <4>3, <4>5 DEF a, b
    <3> HIDE DEF q
    <3>4. ASSUME NEW i \in 0 .. m - 1 PROVE q(i) <= q(i + 1)
      <4>1. i \in 0 .. m /\ i + 1 \in 0 .. m
        BY <2>1
      <4>2. /\ q(i) \in Nat /\ q(i + 1) \in Nat
            /\ m * q(i) <= i * w /\ (i + 1) * w < m * q(i + 1) + m
        BY <3>3, <4>1
      <4> DEFINE x == q(i)
                 y == q(i + 1)
      <4>3. x \in Nat /\ y \in Nat /\ m * x <= i * w /\ (i + 1) * w < m * y + m
        BY <4>2
      <4> HIDE DEF x, y, w, m
      <4>4. (i + 1) * w = i * w + w /\ i * w \in Nat
        BY <2>1, <3>2
      <4>5. m * x < m * (y + 1)
        BY <2>1, <3>2, <4>3, <4>4
      <4>6. x < y + 1
        <5> SUFFICES ASSUME x >= y + 1 PROVE FALSE
          BY <4>3
        <5>1. m * (x - (y + 1)) >= 0
          BY <2>1, <4>3
        <5>2. m * x = m * (y + 1) + m * (x - (y + 1))
          BY <2>1, <4>3
        <5>3. m * x \in Int /\ m * (y + 1) \in Int /\ m * (x - (y + 1)) \in Int
          BY <2>1, <4>3
        <5> QED
          BY <4>5, <5>1, <5>2, <5>3
      <4> QED
        BY <4>3, <4>6 DEF x, y
    <3>5. ASSUME NEW i \in 0 .. m PROVE q(i) <= w
      <4> DEFINE x == q(i)
      <4>1. x \in Nat /\ m * x <= i * w
        BY <3>3
      <4> HIDE DEF x, w, m
      <4>2. (m - i) * w >= 0 /\ m * w = i * w + (m - i) * w
        BY <2>1, <3>2
      <4>3. m * x <= m * w
        <5>1. m * x \in Int /\ i * w \in Int /\ (m - i) * w \in Int /\ m * w \in Int
          BY <2>1, <3>2, <4>1
        <5> QED
          BY <4>1, <4>2, <5>1
      <4>4. x <= w
        <5> SUFFICES ASSUME x >= w + 1 PROVE FALSE
          BY <3>2, <4>1
        <5>1. m * (x - w) > 0 /\ m * x = m * w + m * (x - w)
          BY <2>1, <3>2, <4>1
        <5>2. m * x \in Int /\ m * w \in Int /\ m * (x - w) \in Int
          BY <2>1, <3>2, <4>1
        <5> QED
          BY <4>3, <5>1, <5>2
      <4> QED
        BY <4>4 DEF x
    <3>6. q(0) = 0
      <4>1. 0 * w = 0 /\ 0 \in 0 .. m
        BY <2>1, <3>2
      <4>2. q(0) \in Nat /\ m * q(0) <= 0
        BY <3>3, <4>1
      <4> DEFINE x == q(0)
      <4> HIDE DEF x, m, w
      <4>3. x \in Nat /\ m * x <= 0
        BY <4>2 DEF x
      <4>4. x # 0 => m * x > 0
        BY <2>1, <4>3
      <4>5. x = 0
        <5>1. m * x \in Int
          BY <2>1, <4>3
        <5> QED
          BY <4>3, <4>4, <5>1
      <4> QED
        BY <4>5 DEF x
    <3>7. \A i : linear(i) = start + q(i)
      BY DEF q
    <3> HIDE DEF hz, m, linear, w
    <3>8. \A i \in 0 .. m : i \in 0 .. m - 1 \/ i = m
      BY <2>1
    <3>9. ASSUME NEW i \in 0 .. m PROVE q(i) \in Nat /\ q(i) <= w
      BY <3>3, <3>5
    <3>10. start + w = stop
      BY DEF w
    <3>11. \A i \in 0 .. m - 1 : hz(i) = start + q(i)
      BY <3>1, <3>7
    <3>12. \A i \in 0 .. m : hz(i) \in start .. stop
      <4>1. ASSUME NEW i \in 0 .. m - 1 PROVE hz(i) \in start .. stop
        <5>1. q(i) \in Nat /\ q(i) <= w /\ hz(i) = start + q(i)
          BY <2>1, <3>9, <3>11
        <5> QED
          BY <3>2, <3>10, <5>1
      <4> QED
        BY <2>2, <3>8, <4>1
    <3>13. ASSUME NEW i \in 0 .. m - 1 PROVE hz(i) <= hz(i + 1)
      <4>1. i + 1 \in 0 .. m /\ i \in 0 .. m
        BY <2>1
      <4>2. CASE i + 1 \in 0 .. m - 1
        <5>1. q(i) \in Nat /\ q(i + 1) \in Nat /\ q(i) <= q(i + 1)
          BY <3>4, <3>9, <4>1
        <5>2. hz(i) = start + q(i) /\ hz(i + 1) = start + q(i + 1)
          BY <3>11, <4>2
        <5> QED
          BY <5>1, <5>2
      <4>3. CASE i + 1 = m
        BY <2>2, <3>12, <4>1, <4>3
      <4> QED
        BY <3>8, <4>1, <4>2, <4>3
    <3>14. hz(0) = start
      <4>1. 0 \in 0 .. m - 1
        BY <2>1
      <4> QED
        BY <3>6, <3>11, <4>1
    <3>15. /\ n - 1 = m /\ n - 2 = m - 1 /\ n > 1 /\ SlackOf(scale) = 0
      BY <1>2, <2>1, <2>4 DEF m, SlackOf
    <3>16. \A i \in 0 .. m : hz(i) \in Nat \ {0} /\ hz(i) \in start - 0 .. stop + 0
      BY <3>12
    <3>17. \A i \in 0 .. m - 1 : hz(i) <= hz(i + 1) + 2 * 0
      <4>1. ASSUME NEW i \in 0 .. m - 1 PROVE hz(i) <= hz(i + 1) + 2 * 0
        <5>1. i \in 0 .. m /\ i + 1 \in 0 .. m
          BY <2>1
        <5> QED
          BY <3>13, <3>16, <5>1
      <4> QED
        BY <4>1
    <3> QED
      BY <2>2, <3>14, <3>15, <3>16, <3>17 DEF hz, SweepRises
  <2> QED
    BY <2>3, <2>4
<1> QED
  BY <1>1, <1>2

\* The points of a scenario are found by its name, all of them in their order.
LEMMA PointsFound ==
  ASSUME NEW d, IsValue(d), WellTyped(d), ValidateSimulation(d) = {}, ValidateScenarios(d) = {},
         config.Scenarios = GetScenarios(d), NEW k \in DOMAIN Section(d, "scenarios")
  PROVE  LET s == Section(d, "scenarios")[k]
             points == PointsOf(NameOf(s))
             expanded == ExpandScenario(d, s)
         IN  /\ IsList(points, Len(expanded))
             /\ \A p \in 1 .. Len(expanded) : points[p] = expanded[p]
<1> DEFINE scenarios == Section(d, "scenarios")
           N == Len(scenarios)
           E == [n \in 1 .. N |-> ExpandScenario(d, scenarios[n])]
           all == config.Scenarios
           name == NameOf(scenarios[k])
           own == {i \in DOMAIN all : all[i].Name[1] = name}
           order == InOrder(own, Len(all))
           points == PointsOf(name)
<1>1. /\ N \in Nat /\ DOMAIN scenarios = 1 .. N
      /\ \A n \in 1 .. N : ScenarioPassed(d, scenarios[n])
      /\ \E f, P : JoinedTo(f, E, P, N) /\ GetScenarios(d) = f[N]
  BY ScenariosExpand
<1>2. PICK f, P : JoinedTo(f, E, P, N) /\ GetScenarios(d) = f[N]
  BY <1>1
<1>3. OwnNames(scenarios)
  BY ScenariosPass
<1>4. points = [p \in DOMAIN order |-> all[order[p]]]
  BY DEF PointsOf
<1>5. \A n \in 1 .. N : E[n] = ExpandScenario(d, scenarios[n])
  OBVIOUS
<1>6. k \in 1 .. N
  BY <1>1
<1> HIDE DEF E, N, scenarios, points
<1> DEFINE len(n) == Len(f[n])
           size(n) == Len(E[n])
<1>7. ASSUME NEW n \in 1 .. N
      PROVE  \A p \in 1 .. size(n) : E[n][p].Name[1] = NameOf(scenarios[n])
  <2>1. PICK c \in Nat \ {0} :
            /\ IsList(E[n], c)
            /\ \A p \in 1 .. c : E[n][p].Name[1] = NameOf(scenarios[n])
    BY <1>1, <1>5, ScenarioExpands
  <2>2. size(n) = c
    BY <2>1, Lists
  <2> QED
    BY <2>1, <2>2
<1>8. /\ all = f[N] /\ all \in Seq(P)
      /\ \A n \in 0 .. N : len(n) \in Nat
      /\ \A n \in 1 .. N : size(n) \in Nat /\ len(n) = len(n - 1) + size(n) /\ len(n) <= len(N)
      /\ \A n \in 1 .. N : \A p \in 1 .. size(n) : all[len(n - 1) + p] = E[n][p]
      /\ \A i \in 1 .. len(N) :
            \E n \in 1 .. N : \E p \in 1 .. size(n) : i = len(n - 1) + p
  <2>1. all = f[N]
    BY <1>2
  <2>2. JoinedTo(f, E, P, N)
    BY <1>2
  <2> HIDE DEF all
  <2> QED
    BY <2>1, <2>2 DEF JoinedTo
<1> DEFINE a == len(k - 1)
           c == size(k)
<1>9. a \in Nat /\ c \in Nat /\ len(N) \in Nat /\ a + c <= len(N)
  <2>1. k - 1 \in 0 .. N /\ N \in 0 .. N
    BY <1>1, <1>6
  <2>2. len(k) = len(k - 1) + size(k) /\ len(k) <= len(N)
    BY <1>6, <1>8
  <2> HIDE DEF len, size
  <2> QED
    BY <1>6, <1>8, <2>1, <2>2
<1>10. DOMAIN all = 1 .. len(N) /\ Len(all) = len(N)
  BY <1>8
<1> HIDE DEF all, len, size, a, c
<1>11. own = a + 1 .. a + c
  <2>1. ASSUME NEW i \in a + 1 .. a + c PROVE i \in own
    <3> DEFINE p == i - a
    <3>1. p \in 1 .. c /\ i = a + p /\ i \in 1 .. len(N)
      BY <1>9, <2>1
    <3> HIDE DEF p
    <3>2. all[i] = E[k][p]
      BY <1>6, <1>8, <3>1 DEF a, c
    <3> QED
      BY <1>6, <1>7, <1>10, <3>1, <3>2 DEF c, name
  <2>2. ASSUME NEW i \in own PROVE i \in a + 1 .. a + c
    <3>1. i \in 1 .. len(N) /\ all[i].Name[1] = name
      BY <1>10, <2>2
    <3>2. PICK n \in 1 .. N : \E p \in 1 .. size(n) : i = len(n - 1) + p
      BY <1>8, <3>1
    <3>3. PICK p \in 1 .. size(n) : i = len(n - 1) + p
      BY <3>2
    <3>4. NameOf(scenarios[n]) = name
      BY <1>7, <1>8, <3>1, <3>3
    <3>5. n = k
      BY <1>1, <1>3, <1>6, <3>4 DEF OwnNames, NameOf, name
    <3>6. i = a + p /\ p \in 1 .. c
      BY <3>3, <3>5 DEF a, c
    <3> QED
      BY <1>9, <3>6
  <2> HIDE DEF own
  <2> QED
    BY <2>1, <2>2
<1> HIDE DEF own, name
<1>12. Len(order) = c /\ \A p \in 1 .. c : order[p] = a + p
  BY <1>9, <1>10, <1>11, BlockInOrder
<1>13. order \in Seq(Nat)
  <2>1. Len(all) \in Nat
    BY <1>9, <1>10
  <2> QED
    BY <2>1, InOrderStep
<1> HIDE DEF order
<1>14. DOMAIN order = 1 .. c
  BY <1>12, <1>13
<1>15. IsList(points, c)
  <2>1. points = [p \in 1 .. c |-> all[order[p]]]
    BY <1>4, <1>14
  <2> QED
    BY <1>9, <2>1 DEF IsList
<1>16. \A p \in 1 .. c : points[p] = E[k][p]
  <2>1. \A p \in 1 .. c : points[p] = all[a + p]
    BY <1>4, <1>12, <1>14
  <2> QED
    BY <1>6, <1>8, <2>1 DEF a, c
<1> QED
  BY <1>5, <1>6, <1>15, <1>16 DEF c, size, points, name, scenarios

LEMMA ExcitationsKept ==
  ASSUME NEW s
  PROVE  ExcitationsAsWritten(Section(s, "excitations"), ParseScenarioExcitations(s))
<1> DEFINE written == Section(s, "excitations")
           got == ParseScenarioExcitations(s)
<1>1. got = [j \in DOMAIN written |->
               [TerminalName |-> Text(written[j], "terminal", NotGiven),
                Value        |-> Number(written[j], "value", 0),
                Phase        |-> Number(written[j], "phase", 0)]]
  BY Zenon DEF ParseScenarioExcitations, NotGiven
<1> HIDE DEF written, got
<1>2. DOMAIN got = DOMAIN written
  BY <1>1
<1>3. ASSUME NEW j \in DOMAIN written
      PROVE  /\ SameText(written[j], "terminal", got[j].TerminalName)
             /\ SameNumber(written[j], "value", got[j].Value)
             /\ SameNumber(written[j], "phase", got[j].Phase)
  <2> DEFINE e == written[j]
  <2>1. /\ got[j].TerminalName = Text(e, "terminal", NotGiven)
        /\ got[j].Value = Number(e, "value", 0) /\ got[j].Phase = Number(e, "phase", 0)
    BY <1>1
  <2>2. \A k, f : SameText(e, k, Text(e, k, f)) /\ SameNumber(e, k, Number(e, k, f))
    BY ReadsKeep, Zenon
  <2> HIDE DEF e
  <2>3. /\ SameText(e, "terminal", got[j].TerminalName)
        /\ SameNumber(e, "value", got[j].Value) /\ SameNumber(e, "phase", got[j].Phase)
    BY <2>1, <2>2, Zenon
  <2> QED
    BY <2>3 DEF e
<1> QED
  BY <1>2, <1>3, Zenon DEF ExcitationsAsWritten, written, got

\* No scenario is lost, and each point of it has its excitations.
LEMMA ScenariosKept ==
  ASSUME IsValue(document), WellTyped(document), ValidateSimulation(document) = {},
         ValidateScenarios(document) = {}, config.Scenarios = GetScenarios(document)
  PROVE  ScenariosAsWritten
<1> SUFFICES ASSUME NEW s \in Members(document, "scenarios")
             PROVE  LET points == PointsOf(NameOf(s))
                    IN  /\ points # <<>>
                        /\ \A p \in DOMAIN points :
                             ExcitationsAsWritten(Section(s, "excitations"),
                                                  points[p].Excitations)
  BY Zenon DEF ScenariosAsWritten, NameOf
<1> DEFINE points == PointsOf(NameOf(s))
           expanded == ExpandScenario(document, s)
           written == Section(s, "excitations")
<1>1. ScenarioPassed(document, s)
  BY ScenariosPass
<1>2. PICK n \in Nat \ {0} :
          /\ IsList(expanded, n)
          /\ \A p \in 1 .. n : expanded[p].Excitations = ParseScenarioExcitations(s)
  BY <1>1, ScenarioExpands
<1>3. PICK k \in DOMAIN Section(document, "scenarios") : s = Section(document, "scenarios")[k]
  BY DEF Members, Elements, Section
<1>4. /\ IsList(points, Len(expanded))
      /\ \A p \in 1 .. Len(expanded) : points[p] = expanded[p]
  BY <1>3, PointsFound
<1>5. ExcitationsAsWritten(written, ParseScenarioExcitations(s))
  BY ExcitationsKept
<1>6. Len(expanded) = n
  BY <1>2, Lists
<1> HIDE DEF points, expanded, written
<1>7. Len(points) = n /\ DOMAIN points = 1 .. n
  BY <1>4, <1>6, Lists
<1>8. points # <<>>
  BY <1>7
<1>9. \A p \in DOMAIN points : ExcitationsAsWritten(written, points[p].Excitations)
  BY <1>2, <1>4, <1>5, <1>6, <1>7
<1> QED
  BY <1>8, <1>9 DEF points, written

\* Every run of an accepted MQS document has a positive frequency.
LEMMA FrequenciesArePositive ==
  ASSUME NEW f, FrequencyPassed(f), NEW p \in DOMAIN Frequencies(f)
  PROVE  Frequencies(f)[p] > 0
<1>1. CASE f.type = "object"
  <2> DEFINE scale == Text(f, "scale", "")
             start == AsNumber(f.fields["start"])
             stop == AsNumber(f.fields["stop"])
             n == AsInt(f.fields["points"])
             hz(i) == SweepFrequency(scale, start, stop, n, i)
  <2>1. /\ \A k \in DOMAIN SweepTypes : Has(f, k)
        /\ n \in Nat \ {0} /\ start \in Nat \ {0} /\ stop \in Nat \ {0} /\ start <= stop
    BY <1>1 DEF FrequencyPassed
  <2>2. Has(f, "start") /\ Has(f, "stop") /\ Has(f, "points")
    BY <2>1 DEF SweepTypes
  <2>3. /\ Integer(f, "points", 0) = n /\ Number(f, "start", 0) = start
        /\ Number(f, "stop", 0) = stop
    BY <2>2 DEF Integer, Number
  <2>4. Frequencies(f) = [q \in 1 .. n |-> hz(q - 1)]
    BY <1>1, <2>3 DEF Frequencies
  <2>5. \A i \in 0 .. n - 1 : hz(i) \in Nat \ {0}
    <3> HIDE DEF n, start, stop, scale
    <3> QED
      BY <2>1, SweepFits DEF SweepRises
  <2> HIDE DEF hz, n, start, stop
  <2>6. p \in 1 .. n /\ p - 1 \in 0 .. n - 1
    BY <2>1, <2>4
  <2> QED
    BY <2>1, <2>4, <2>5, <2>6
<1>2. CASE f.type = "array"
  <2>1. Frequencies(f) = Numbers(f)
    BY <1>2 DEF Frequencies
  <2>2. p \in DOMAIN Items(f) /\ Frequencies(f)[p] = AsNumber(Items(f)[p])
    BY <2>1 DEF Numbers
  <2>3. Items(f)[p] \in Elements(f)
    BY <2>2 DEF Elements
  <2> QED
    BY <2>2, <2>3 DEF FrequencyPassed
<1>3. CASE f.type \in {"number", "integer"}
  <2>1. Frequencies(f) = <<AsNumber(f)>>
    BY <1>3 DEF Frequencies
  <2>2. p = 1
    BY <2>1
  <2> QED
    BY <1>3, <2>1, <2>2 DEF FrequencyPassed
<1> QED
  BY <1>1, <1>2, <1>3 DEF FrequencyPassed

\* Along a sweep, the points run from its start to its stop.
LEMMA SweepFollowed ==
  ASSUME NEW f, IsPlain(f), IsNarrow(Values), FrequencyPassed(f), f.type = "object",
         NEW points, NEW n \in Nat \ {0}, n = AsInt(f.fields["points"]), Len(points) = n,
         \A p \in 1 .. n : points[p].Frequency = Frequencies(f)[p]
  PROVE  SweepFromTo(f, points)
<1> DEFINE scale == Text(f, "scale", "")
           start == AsNumber(f.fields["start"])
           stop == AsNumber(f.fields["stop"])
           slack == SlackOf(scale)
           hz(i) == SweepFrequency(scale, start, stop, n, i)
           at(p) == points[p].Frequency
<1>1. /\ \A k \in DOMAIN SweepTypes : Has(f, k)
      /\ f.fields["points"].type = "integer"
      /\ start \in Nat \ {0} /\ stop \in Nat \ {0} /\ start <= stop
  BY DEF FrequencyPassed
<1>2. Has(f, "start") /\ Has(f, "stop") /\ Has(f, "points") /\ Has(f, "scale")
  BY <1>1 DEF SweepTypes
<1>3. Frequencies(f) = [q \in 1 .. n |-> hz(q - 1)]
  <2>1. /\ Integer(f, "points", 0) = n /\ Number(f, "start", 0) = start
        /\ Number(f, "stop", 0) = stop
    BY <1>2 DEF Integer, Number
  <2> QED
    BY <2>1 DEF Frequencies
<1>4. 100 * n = Written(f.fields["points"])
  <2>1. IsPlain(f.fields["points"])
    BY <1>2, PlainHolds
  <2> QED
    BY <1>1, <2>1, NarrowReads
<1>5. scale = f.fields["scale"].text
  BY <1>2 DEF Text
<1> HIDE DEF scale, start, stop
<1>6. /\ n = 1 \/ scale # "log" => hz(0) = start
      /\ n > 1 => hz(n - 1) = stop
      /\ \A i \in 0 .. n - 1 : hz(i) \in start - slack .. stop + slack
      /\ \A i \in 0 .. n - 2 : hz(i) <= hz(i + 1) + 2 * slack
  <2>1. start \in Nat \ {0} /\ stop \in Nat /\ start <= stop
    BY <1>1
  <2>2. SweepRises(scale, start, stop, n)
    BY <2>1, SweepFits
  <2> QED
    BY <2>2, Zenon DEF SweepRises
<1> HIDE DEF hz, slack
<1>7. \A p \in 1 .. n : at(p) = hz(p - 1)
  BY <1>3
<1> HIDE DEF at
<1>8. n = 1 \/ scale # "log" => at(1) = start
  BY <1>6, <1>7
<1>9. n > 1 => at(n) = stop
  BY <1>6, <1>7
<1>10. ASSUME NEW p \in 1 .. n PROVE at(p) \in start - slack .. stop + slack
  BY <1>6, <1>7
<1>11. ASSUME NEW p \in 1 .. n - 1 PROVE at(p) <= at(p + 1) + 2 * slack
  <2>1. p \in 1 .. n /\ p + 1 \in 1 .. n /\ (p + 1) - 1 = (p - 1) + 1 /\ p - 1 \in 0 .. n - 2
    OBVIOUS
  <2> QED
    BY <1>6, <1>7, <2>1
<1> QED
  BY <1>4, <1>5, <1>8, <1>9, <1>10, <1>11
     DEF SweepFromTo, Written, start, stop, slack, SlackOf, at

LEMMA SweepsFit ==
  ASSUME IsPlain(document), IsNarrow(Values), NEW m, Passes(document, m),
         config = GetProblemConfig(document)
  PROVE  SweepsCoverTheirRange
<1>1. IsValue(document)
  BY PlainIsValue
<1>2. /\ WellTyped(document) /\ ValidateSimulation(document) = {}
      /\ ValidateScenarios(document) = {}
  BY ChecksPass
<1>3. config.PhysicsType = PhysicsType(document) /\ config.Scenarios = GetScenarios(document)
  BY <1>1, <1>2, DecodedFields, SameModel
<1> DEFINE Run(points) == [p \in DOMAIN points |-> points[p].Frequency]
<1> SUFFICES ASSUME IsMqs(document)
             PROVE  /\ \A s \in Listed(config.Scenarios) : s.Frequency > 0
                    /\ \A s \in Members(document, "scenarios") :
                        LET f == s.fields["frequency"]
                            points == PointsOf(NameOf(s))
                        IN  CASE f.type = "object" -> SweepFromTo(f, points)
                              [] f.type = "array"  -> SameNumbers(f, Run(points))
                              [] OTHER             -> Run(points) = <<Written(f)>>
  BY <1>3 DEF SweepsCoverTheirRange, IsMqs, NameOf
<1>4. ASSUME NEW r \in Listed(config.Scenarios) PROVE r.Frequency > 0
  <2>1. r \in Listed(GetScenarios(document))
    BY <1>3, <1>4
  <2>2. PICK s \in Members(document, "scenarios") :
            /\ ScenarioPassed(document, s)
            /\ \E p \in DOMAIN ExpandScenario(document, s) : r = ExpandScenario(document, s)[p]
    BY <1>1, <1>2, <2>1, RunOfScenario
  <2> DEFINE f == s.fields["frequency"]
  <2>3. FrequencyPassed(f)
    BY <2>2 DEF ScenarioPassed
  <2>4. PICK n \in Nat \ {0} :
            /\ IsList(ExpandScenario(document, s), n)
            /\ \A p \in 1 .. n : ExpandScenario(document, s)[p].Frequency = Frequencies(f)[p]
            /\ DOMAIN Frequencies(f) = 1 .. n
    BY <1>1, <1>2, <2>2, ScenarioExpands
  <2>5. PICK p \in 1 .. n : r = ExpandScenario(document, s)[p]
    BY <2>2, <2>4, Lists
  <2> HIDE DEF f
  <2> QED
    BY <2>3, <2>4, <2>5, FrequenciesArePositive
<1>5. ASSUME NEW s \in Members(document, "scenarios")
      PROVE  LET f == s.fields["frequency"]
                 points == PointsOf(NameOf(s))
             IN  CASE f.type = "object" -> SweepFromTo(f, points)
                   [] f.type = "array"  -> SameNumbers(f, Run(points))
                   [] OTHER             -> Run(points) = <<Written(f)>>
  <2> DEFINE f == s.fields["frequency"]
             points == PointsOf(NameOf(s))
             expanded == ExpandScenario(document, s)
  <2>1. ScenarioPassed(document, s)
    BY <1>1, <1>2, ScenariosPass
  <2>2. Has(s, "frequency") /\ FrequencyPassed(f)
    BY <2>1 DEF ScenarioPassed
  <2>3. IsPlain(f)
    <3>1. IsPlain(s)
      BY PlainMembers
    <3> QED
      BY <2>2, <3>1, PlainHolds
  <2>4. PICK n \in Nat \ {0} :
            /\ IsList(expanded, n)
            /\ \A p \in 1 .. n : expanded[p].Frequency = Frequencies(f)[p]
            /\ DOMAIN Frequencies(f) = 1 .. n
            /\ f.type = "object" => n = AsInt(f.fields["points"])
    BY <1>1, <1>2, <2>1, ScenarioExpands
  <2>5. PICK k \in DOMAIN Section(document, "scenarios") :
            s = Section(document, "scenarios")[k]
    BY DEF Members, Elements, Section
  <2>6. /\ IsList(points, Len(expanded))
        /\ \A p \in 1 .. Len(expanded) : points[p] = expanded[p]
    BY <1>1, <1>2, <1>3, <2>5, PointsFound
  <2>7. Len(expanded) = n
    BY <2>4, Lists
  <2> HIDE DEF f, points, expanded
  <2>8. /\ Len(points) = n /\ DOMAIN points = 1 .. n
        /\ \A p \in 1 .. n : points[p].Frequency = Frequencies(f)[p]
    BY <2>4, <2>6, <2>7, Lists
  <2>9. f.type = "object" => SweepFromTo(f, points)
    BY <2>2, <2>3, <2>4, <2>8, SweepFollowed
  <2>10. ASSUME f.type = "array" PROVE SameNumbers(f, Run(points))
    <3>1. Frequencies(f) = Numbers(f)
      BY <2>10 DEF Frequencies
    <3>2. 1 .. n = DOMAIN Items(f) /\ \A p \in 1 .. n : Numbers(f)[p] = Written(Items(f)[p])
      BY <2>4, <3>1 DEF Numbers, Written
    <3> DEFINE run == Run(points)
    <3>3. DOMAIN run = 1 .. n /\ \A p \in 1 .. n : run[p] = Frequencies(f)[p]
      BY <2>8
    <3> HIDE DEF run
    <3>4. SameNumbers(f, run)
      BY <3>1, <3>2, <3>3 DEF SameNumbers
    <3> QED
      BY <3>4 DEF run
  <2>11. ASSUME f.type \notin {"object", "array"} PROVE Run(points) = <<Written(f)>>
    <3>1. Frequencies(f) = <<Written(f)>>
      BY <2>11 DEF Frequencies, Written
    <3>2. n = 1
      BY <2>4, <3>1
    <3>3. Run(points) = [p \in 1 .. 1 |-> Written(f)]
      BY <2>8, <3>1, <3>2
    <3> QED
      BY <3>3
  <2> QED
    BY <2>9, <2>10, <2>11 DEF f, points
<1> QED
  BY <1>4, <1>5

LEMMA InvTyped == CInv => CTypeOK
<1> SUFFICES ASSUME CInv PROVE CTypeOK
  OBVIOUS
<1>1. /\ reached \in Steps /\ edits \in 0 .. MaxEdits /\ mesh \in Meshes \cup {NoMesh}
      /\ reached = "failed" <=> failure # NoFailure
      /\ reached = "failed" => failure[1] \in {"load", "checked", "accepted", "model"}
  BY DEF CInv, DocumentInv, MeshInv, FailureInv
<1>2. failure[1] \in {NoStep, "load", "checked", "decoded", "accepted",
                      "configuration", "model"}
  BY <1>1, Failures
<1> QED
  BY <1>1, <1>2, Zenon DEF CTypeOK, NoStep

\* The directory of the command line is the one of the document, and of the run.
LEMMA InvDirected == CInv => OutputGoesWhereAsked
<1> SUFFICES ASSUME CInv, config # NoConfig, override # NotGiven
             PROVE  config.Output.Directory = <<override>>
  BY Zenon DEF OutputGoesWhereAsked, Decoded, NotGiven
<1> DEFINE output == document.fields["output"]
           path == GetText(output, "directory", "results")
<1>1. /\ config = GetProblemConfig(document) /\ Directed(document, override)
      /\ override \in AbsolutePaths
  BY DEF CInv, DocumentInv, ConfigInv
<1>2. Has(document, "output") /\ Given(output, "directory") /\ path = override
  BY <1>1 DEF Directed, Given, GetText, Str, Null
<1>3. Field(document, "output", Obj(<<>>)) = output
  BY <1>2 DEF Field
<1>4. config.Output = GetOutputSettings(document)
  BY <1>1 DEF GetProblemConfig
<1>5. GetOutputSettings(document).Directory = Resolve(<<"config">>, path)
  BY <1>3 DEF GetOutputSettings
<1> QED
  BY <1>1, <1>2, <1>4, <1>5 DEF Resolve

\* What the parser makes of an accepted document is what its author wrote: each
\* field that is given a value in its sections (the simulation and its refinement,
\* groups, materials, regions, boundary conditions, terminals and their directions,
\* scenarios and their excitations, output and probes) is the value of the run, the
\* points of a sweep are between its start and its stop, with what is exact of them
\* and what is not, and the directory of the command line is the run's.  Its
\* hypothesis is the one place where the code changes such a value: an integer
\* beyond 32 bits is narrowed.
THEOREM AcceptedAsWrittenAlways ==
  ASSUME IsNarrow(Values)
  PROVE  CSpec => []AcceptedAsWritten
<1>1. CInv => ValuesAreKept /\ SweepsCoverTheirRange
  <2> SUFFICES ASSUME CInv PROVE ValuesAreKept /\ SweepsCoverTheirRange
    OBVIOUS
  <2>1. CASE config = NoConfig
    BY <2>1 DEF ValuesAreKept, SweepsCoverTheirRange, Decoded
  <2>2. CASE config # NoConfig
    <3>1. /\ IsPlain(document) /\ Passes(document, NoMesh)
          /\ config = GetProblemConfig(document)
      BY <2>2 DEF CInv, DocumentInv, ConfigInv
    <3>2. /\ IsValue(document) /\ WellTyped(document) /\ ValidateSimulation(document) = {}
          /\ ValidateScenarios(document) = {} /\ ValidateOutput(document) = {}
          /\ ValidateProbes(document, NoMesh, Names(document, NoMesh)) = {}
      BY <3>1, ChecksPass, PlainIsValue
    <3>3. /\ config.Scenarios = GetScenarios(document)
          /\ config.Output = GetOutputSettings(document)
      BY <3>1 DEF GetProblemConfig
    <3>4. ScenariosAsWritten
      BY <3>2, <3>3, ScenariosKept
    <3>5. OutputAsWritten
      BY <3>1, <3>2, <3>3, OutputKept
    <3>6. SweepsCoverTheirRange
      BY <3>1, SweepsFit
    <3> QED
      BY <3>1, <3>4, <3>5, <3>6, EntriesKept DEF ValuesAreKept
  <2> QED
    BY <2>1, <2>2
<1>2. CInv => AcceptedAsWritten
  BY <1>1, InvTyped, InvDirected DEF AcceptedAsWritten
<1> QED
  BY <1>2, ConfigInvariance, PTL
=============================================================================
