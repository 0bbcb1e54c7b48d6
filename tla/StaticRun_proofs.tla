--------------------------- MODULE StaticRun_proofs ---------------------------
(***************************************************************************)
(* A coupling matrix of a static solver is reciprocal and free of boundary     *)
(* data, and a static run implements its contract, for any number of terminals,  *)
(* scenarios, refinements and runs.                                          *)
(*                                                                         *)
(* The argument is one invariant: while a run is under way everything that was  *)
(* built is of the mesh of the moment, a cache holds units of the one mesh it    *)
(* was filled on, and the matrix is the table of the terminals' own units up to  *)
(* the column that is being solved.                                          *)
(***************************************************************************)
EXTENDS StaticRun, Counting_proofs

-----------------------------------------------------------------------------
(* What the invariant is made of.                                          *)

PrebuiltOnes == {t \in Terminals : Prebuilt(t)}
StrandedOnes == Terminals \ PrebuiltOnes

\* The unit of each terminal on the mesh of the moment.
OwnUnit == [t \in Terminals |-> Unit(t, Kind(t), sequence, sequence)]

AreaOn(m) == [t \in Terminals |-> [terminal |-> t, mesh |-> m]]
WindingOn(m) == [t \in Terminals |-> Unit(t, "winding", m, m)]

Images(f, T) == {f[t] : t \in T}

\* The operators are those of the mesh of the moment.
Current == pc \notin {"constructed", "rebuild", "failed"}

BuiltInv ==
  Current =>
    /\ fespace = sequence /\ A_op = sequence /\ factors = sequence
    /\ K = ChargeOperator
    /\ physics # "Magnetostatics3D" => natural_rhs = sequence
    /\ unit_loads = Images(OwnUnit, PrebuiltOnes)

\* A cache is of the mesh it was filled on, and empty before.
CacheInv ==
  /\ cached_sequence = -1 => terminal_areas = {} /\ winding_functionals = {}
  /\ terminal_areas \subseteq Images(AreaOn(cached_sequence), Terminals)
  /\ winding_functionals \subseteq Images(WindingOn(cached_sequence), StrandedOnes)

Back == IF coupling THEN {} ELSE {sequence}

LoadInv ==
  pc = "solve" => load = {[units |-> Images(OwnUnit, Drives[item]), background |-> Back]}

SolutionInv ==
  pc \in {"gather", "save"} =>
    solution = {[meshes |-> {sequence}, units |-> Images(OwnUnit, Drives[item]),
                 background |-> Back]}

\* The items that were gathered.
Done == IF pc = "save" /\ physics # "Magnetostatics" THEN item ELSE item - 1

Entry(own, r, c) ==
  [row |-> r, column |-> c, reads |-> own[r], units |-> {own[c]}, background |-> {}]
Filled(own, k) == {Entry(own, r, c) : r \in Terminals, c \in 1..k}

\* The table of the terminals' own units, up to the last gathered column.
MatrixInv ==
  /\ \A e \in matrix : e.background = {}
  /\ coupling /\ pc \in {"imprint", "solve", "gather", "save", "ran"} =>
       matrix = Filled(OwnUnit, Done)

ProgressInv ==
  /\ pc \in {"solve", "gather", "save"} => item <= Len(Drives)
  /\ pc \in {"ran", "refine"} => item = Len(Drives) + 1

Ans(drives, m, i) ==
  [item |-> i, meshes |-> {m}, frequencies |-> {0}, driven |-> drives[i]]
Answered(drives, m, k) == {Ans(drives, m, i) : i \in 1..k}

AnswerInv ==
  /\ pc \in {"imprint", "solve", "gather", "save", "refine"} =>
       observed = Answered(Drives, sequence, Done)
  /\ pc \in {"begin", "rebuild"} => observed = {}

Configured ==
  /\ physics \in Physics /\ coupling \in BOOLEAN
  /\ scenarios \in ScenarioLists

SInv ==
  /\ Configured /\ StaticTypeOK /\ BuiltInv /\ CacheInv
  /\ LoadInv /\ SolutionInv /\ MatrixInv /\ ProgressInv /\ AnswerInv

-----------------------------------------------------------------------------
(* The plan and the units.                                                 *)

\* The plan drives sets of terminals, a coupling plan one each.
LEMMA DrivesType ==
  ASSUME Configured
  PROVE  /\ Len(Drives) \in Nat /\ DOMAIN Drives = 1..Len(Drives)
         /\ \A i \in 1..Len(Drives) : Drives[i] \in SUBSET Terminals
         /\ coupling => Len(Drives) = NTerminals /\ \A i \in Terminals : Drives[i] = {i}
<1> USE StaticAssumption
<1>1. CASE coupling
  <2> DEFINE v(t) == {t}
  <2>1. Drives = [t \in 1..NTerminals |-> v(t)]
    BY <1>1 DEF Drives, Terminals
  <2>2. \A i \in Terminals : v(i) \in SUBSET Terminals
    OBVIOUS
  <2> HIDE DEF v
  <2>3. Len(Drives) = NTerminals /\ DOMAIN Drives = 1..NTerminals
    BY <2>1
  <2>4. \A i \in Terminals : Drives[i] = v(i)
    BY <2>1 DEF Terminals
  <2> QED BY <2>2, <2>3, <2>4 DEF Terminals, v
<1>2. CASE ~coupling
  <2>1. Drives = scenarios /\ scenarios \in Seq(SUBSET Terminals)
    BY <1>2 DEF Drives, Configured
  <2> DEFINE S == SUBSET Terminals
  <2> HIDE DEF S
  <2>2. Drives \in Seq(S)
    BY <2>1 DEF S
  <2>3. Len(Drives) \in Nat /\ DOMAIN Drives = 1..Len(Drives)
        /\ \A i \in 1..Len(Drives) : Drives[i] \in S
    BY <2>2
  <2> QED BY <1>2, <2>3 DEF S
<1> QED BY <1>1, <1>2

\* A terminal's own unit names it, and is the winding of a stranded one.
LEMMA OwnUnits ==
  ASSUME Configured, sequence \in Meshes
  PROVE  /\ \A t \in Terminals : /\ OwnUnit[t] \in Units
                                 /\ OwnUnit[t].terminal = t
                                 /\ OwnUnit[t].mesh = sequence /\ OwnUnit[t].norm = sequence
         /\ \A t \in StrandedOnes : OwnUnit[t] = WindingOn(sequence)[t]
<1>1. \A t \in Terminals : OwnUnit[t] = Unit(t, Kind(t), sequence, sequence)
  BY DEF OwnUnit
<1>2. \A t \in Terminals : Kind(t) \in {"dofs", "massive", "winding", "projected"}
  BY DEF Kind
<1>3. \A t \in StrandedOnes : Kind(t) = "winding"
  BY DEF StrandedOnes, PrebuiltOnes, Prebuilt, Kind
<1>4. \A t \in StrandedOnes : t \in Terminals /\ WindingOn(sequence)[t] = Unit(t, "winding", sequence, sequence)
  BY DEF WindingOn, StrandedOnes
<1>5. ASSUME NEW t \in Terminals
      PROVE  OwnUnit[t] \in Units /\ OwnUnit[t].terminal = t
             /\ OwnUnit[t].mesh = sequence /\ OwnUnit[t].norm = sequence
  <2> DEFINE k == Kind(t)
             u == OwnUnit[t]
  <2>1. u = [terminal |-> t, kind |-> k, mesh |-> sequence, norm |-> sequence]
        /\ k \in {"dofs", "massive", "winding", "projected"}
    BY <1>1, <1>2 DEF Unit
  <2> HIDE DEF k, u
  <2>2. u \in Units /\ u.terminal = t /\ u.mesh = sequence /\ u.norm = sequence
    BY <2>1 DEF Units
  <2> QED BY <2>2 DEF u
<1>6. \A t \in StrandedOnes : OwnUnit[t] = WindingOn(sequence)[t]
  BY <1>1, <1>3, <1>4
<1> QED BY <1>5, <1>6

\* What the configuration alone determines.
LEMMA ConfigKept ==
  ASSUME UNCHANGED config
  PROVE  /\ Drives' = Drives /\ PrebuiltOnes' = PrebuiltOnes /\ StrandedOnes' = StrandedOnes
         /\ coupling' = coupling /\ physics' = physics /\ ChargeOperator'
                = IF physics = "Electrostatics" /\ coupling THEN sequence' ELSE -1
         /\ (Configured => Configured')
         /\ (sequence' = sequence => OwnUnit' = OwnUnit)
<1>1. physics' = physics /\ coupling' = coupling /\ massive' = massive /\ scenarios' = scenarios
  BY DEF config
<1>2. PrebuiltOnes' = PrebuiltOnes
  BY <1>1 DEF PrebuiltOnes, Prebuilt
<1>3. sequence' = sequence => OwnUnit' = OwnUnit
  BY <1>1 DEF OwnUnit, Kind
<1> QED BY <1>1, <1>2, <1>3 DEF Drives, StrandedOnes, ChargeOperator, Configured

-----------------------------------------------------------------------------
(* The caches.                                                             *)

\* What a cache keeps on this mesh is of this mesh.
LEMMA KeptIsOfMesh ==
  ASSUME CacheInv
  PROVE  /\ Kept(terminal_areas) \subseteq Images(AreaOn(sequence), Terminals)
         /\ Kept(winding_functionals) \subseteq Images(WindingOn(sequence), StrandedOnes)
<1>1. CASE cached_sequence = sequence
  BY <1>1 DEF CacheInv, Kept
<1>2. CASE cached_sequence # sequence
  BY <1>2 DEF Kept
<1> QED BY <1>1, <1>2

\* Asked for the terminals T, the areas are of this mesh, and those of T are there.
LEMMA AreasAsked ==
  ASSUME CacheInv, NEW T \in SUBSET Terminals
  PROVE  /\ AreasWith(T) \subseteq Images(AreaOn(sequence), Terminals)
         /\ \A t \in T : AreaOn(sequence)[t] \in AreasWith(T)
<1> DEFINE a == AreaOn(sequence)
           kept == Kept(terminal_areas)
           b(t) == [terminal |-> t, mesh |-> sequence]
<1>1. \A t \in Terminals : a[t] = b(t) /\ a[t].terminal = t
  BY DEF AreaOn
<1>2. kept \subseteq Images(a, Terminals)
  BY KeptIsOfMesh
<1>3. AreasWith(T) = kept \cup {a[t] : t \in T \ Found(kept)}
  <2>1. AreasWith(T) = kept \cup {b(t) : t \in T \ Found(kept)}
    BY DEF AreasWith
  <2> HIDE DEF a, b, kept
  <2> QED BY <1>1, <2>1
<1> HIDE DEF a, b, kept
<1>4. ASSUME NEW t \in T, t \in Found(kept) PROVE a[t] \in kept
  <2>1. PICK e \in kept : e.terminal = t
    BY <1>4 DEF Found
  <2>2. PICK u \in Terminals : e = a[u]
    BY <1>2, <2>1 DEF Images
  <2> QED BY <1>1, <2>1, <2>2
<1>5. AreasWith(T) \subseteq Images(a, Terminals)
  BY <1>2, <1>3 DEF Images
<1>6. \A t \in T : a[t] \in AreasWith(T)
  BY <1>3, <1>4
<1> QED BY <1>5, <1>6 DEF a

\* The units made for the stranded terminals T are their own on this mesh.
LEMMA WindingsAreOwn ==
  ASSUME CacheInv, fespace = sequence, NEW T \in SUBSET Terminals
  PROVE  Windings(T) = Images(WindingOn(sequence), T)
<1> DEFINE a == AreaOn(sequence)
           w == WindingOn(sequence)
           A == AreasWith(T)
           v(e) == Unit(e.terminal, "winding", fespace, e.mesh)
<1>1. \A t \in Terminals : a[t].terminal = t /\ v(a[t]) = w[t]
  BY DEF AreaOn, WindingOn
<1>2. A \subseteq Images(a, Terminals) /\ \A t \in T : a[t] \in A
  BY AreasAsked
<1>3. Windings(T) = {v(e) : e \in {e \in A : e.terminal \in T}}
  BY DEF Windings
<1> HIDE DEF a, w, A, v
<1>4. ASSUME NEW e \in A, e.terminal \in T PROVE \E t \in T : v(e) = w[t]
  <2>1. PICK t \in Terminals : e = a[t]
    BY <1>2 DEF Images
  <2> QED BY <1>1, <1>4, <2>1
<1>5. ASSUME NEW t \in T PROVE a[t] \in A /\ a[t].terminal \in T /\ v(a[t]) = w[t]
  BY <1>1, <1>2
<1>6. Windings(T) = Images(w, T)
  BY <1>3, <1>4, <1>5, Zenon DEF Images
<1> QED BY <1>6 DEF w

\* Asked for the stranded terminals T, the functionals are of this mesh, and those
\* of T are there.
LEMMA FunctionalsAsked ==
  ASSUME CacheInv, fespace = sequence, NEW T \in SUBSET StrandedOnes
  PROVE  LET kept == Kept(winding_functionals)
             W == kept \cup Windings(T \ Found(kept))
         IN /\ W \subseteq Images(WindingOn(sequence), StrandedOnes)
            /\ Images(WindingOn(sequence), T) \subseteq W
<1> DEFINE w == WindingOn(sequence)
           kept == Kept(winding_functionals)
           missing == T \ Found(kept)
<1>1. \A t \in Terminals : w[t].terminal = t
  BY DEF WindingOn, Unit
<1>2. kept \subseteq Images(w, StrandedOnes)
  BY KeptIsOfMesh
<1>3. StrandedOnes \subseteq Terminals
  BY DEF StrandedOnes
<1>4. Windings(missing) = Images(w, missing)
  <2>1. missing \in SUBSET Terminals
    BY <1>3
  <2> HIDE DEF missing
  <2> QED BY <2>1, WindingsAreOwn
<1> HIDE DEF w, kept
<1>5. ASSUME NEW t \in T, t \in Found(kept) PROVE w[t] \in kept
  <2>1. PICK e \in kept : e.terminal = t
    BY <1>5 DEF Found
  <2>2. PICK u \in StrandedOnes : e = w[u]
    BY <1>2, <2>1 DEF Images
  <2> QED BY <1>1, <1>3, <2>1, <2>2
<1>6. kept \cup Windings(missing) \subseteq Images(w, StrandedOnes)
  BY <1>2, <1>4 DEF Images
<1>7. Images(w, T) \subseteq kept \cup Windings(missing)
  BY <1>4, <1>5 DEF Images
<1> QED BY <1>6, <1>7 DEF w, kept

\* AskAreas keeps the caches what they are.
LEMMA AskAreasKeeps ==
  ASSUME CacheInv, UNCHANGED <<config, sequence>>, sequence \in Meshes,
         NEW T \in SUBSET Terminals, AskAreas(T)
  PROVE  CacheInv' /\ cached_sequence' \in {cached_sequence, sequence}
<1>0. StrandedOnes' = StrandedOnes
  BY ConfigKept
<1>1. CASE T = {}
  BY <1>0, <1>1 DEF AskAreas, caches, CacheInv
<1>2. CASE T # {}
  <2>1. /\ terminal_areas' = AreasWith(T)
        /\ winding_functionals' = Kept(winding_functionals) /\ cached_sequence' = sequence
    BY <1>2 DEF AskAreas
  <2>2. sequence # -1
    BY StaticAssumption DEF Meshes, MaxSequence
  <2> QED BY <1>0, <2>1, <2>2, AreasAsked, KeptIsOfMesh DEF CacheInv
<1> QED BY <1>1, <1>2

\* AskWindings keeps the caches what they are, and finds a functional for each.
LEMMA AskWindingsKeeps ==
  ASSUME CacheInv, UNCHANGED <<config, sequence>>, sequence \in Meshes, fespace = sequence,
         NEW T \in SUBSET StrandedOnes, AskWindings(T)
  PROVE  /\ CacheInv' /\ cached_sequence' \in {cached_sequence, sequence}
         /\ T # {} => /\ winding_functionals' \subseteq Images(WindingOn(sequence), StrandedOnes)
                      /\ Images(WindingOn(sequence), T) \subseteq winding_functionals'
<1>0. StrandedOnes' = StrandedOnes /\ StrandedOnes \subseteq Terminals
  BY ConfigKept DEF StrandedOnes
<1>1. CASE T = {}
  BY <1>0, <1>1 DEF AskWindings, caches, CacheInv
<1>2. CASE T # {}
  <2> DEFINE missing == T \ Found(Kept(winding_functionals))
  <2>1. /\ terminal_areas' = AreasWith(missing)
        /\ winding_functionals' = Kept(winding_functionals) \cup Windings(missing)
        /\ cached_sequence' = sequence
    BY <1>2 DEF AskWindings
  <2>2. sequence # -1
    BY StaticAssumption DEF Meshes, MaxSequence
  <2>3. missing \in SUBSET Terminals
    BY <1>0
  <2>4. /\ winding_functionals' \subseteq Images(WindingOn(sequence), StrandedOnes)
        /\ Images(WindingOn(sequence), T) \subseteq winding_functionals'
    BY <2>1, FunctionalsAsked
  <2> HIDE DEF missing
  <2>5. AreasWith(missing) \subseteq Images(AreaOn(sequence), Terminals)
    BY <2>3, AreasAsked
  <2> QED BY <1>0, <2>1, <2>2, <2>4, <2>5 DEF CacheInv
<1> QED BY <1>1, <1>2

-----------------------------------------------------------------------------
(* What drives a column, and what reads it.                                *)

\* A solve is driven by its terminals' own units.
LEMMA LoadIsOwn ==
  ASSUME Configured, CacheInv, fespace = sequence, sequence \in Meshes,
         unit_loads = Images(OwnUnit, PrebuiltOnes), NEW driven \in SUBSET Terminals
  PROVE  {u \in unit_loads : u.terminal \in driven} \cup Windings(Stranded(driven))
           = Images(OwnUnit, driven)
<1> DEFINE own == OwnUnit
           w == WindingOn(sequence)
           P == PrebuiltOnes
           S == StrandedOnes
<1>1. (\A t \in Terminals : own[t].terminal = t) /\ (\A t \in S : own[t] = w[t])
  BY OwnUnits
<1>2. P \subseteq Terminals /\ S = Terminals \ P
  BY DEF PrebuiltOnes, StrandedOnes
<1>3. Stranded(driven) = driven \ P
  BY DEF Stranded, PrebuiltOnes
<1>4. Windings(driven \ P) = Images(w, driven \ P)
  <2>1. driven \ P \in SUBSET Terminals
    OBVIOUS
  <2> QED BY <2>1, WindingsAreOwn
<1> HIDE DEF own, w, P, S
<1>5. {u \in unit_loads : u.terminal \in driven} = Images(own, driven \cap P)
  <2>1. unit_loads = Images(own, P)
    BY DEF own, P
  <2> QED BY <1>1, <1>2, <2>1 DEF Images
<1>6. Images(w, driven \ P) = Images(own, driven \ P)
  <2>1. \A t \in driven \ P : own[t] = w[t]
    BY <1>1, <1>2
  <2> QED BY <2>1 DEF Images
<1>7. Images(own, driven \cap P) \cup Images(own, driven \ P) = Images(own, driven)
  BY DEF Images
<1> QED BY <1>3, <1>4, <1>5, <1>6, <1>7 DEF own

\* A row is read with the unit that would drive its column.
LEMMA ReadingIsOwn ==
  ASSUME Configured, sequence \in Meshes, coupling, K = ChargeOperator,
         unit_loads = Images(OwnUnit, PrebuiltOnes),
         winding_functionals' \subseteq Images(WindingOn(sequence), StrandedOnes),
         Images(WindingOn(sequence), StrandedOnes) \subseteq winding_functionals',
         NEW row \in Terminals
  PROVE  Reading(row) = {OwnUnit[row]}
<1> DEFINE own == OwnUnit
           P == PrebuiltOnes
           S == StrandedOnes
<1>1. /\ \A t \in Terminals : own[t] \in Units /\ own[t].terminal = t /\ own[t].mesh = sequence
      /\ \A t \in S : own[t] = WindingOn(sequence)[t]
  BY OwnUnits
<1>2. P \subseteq Terminals /\ S = Terminals \ P
  BY DEF PrebuiltOnes, StrandedOnes
<1>3. unit_loads = Images(own, P)
  OBVIOUS
<1>4. CASE physics = "Electrostatics"
  <2>1. P = Terminals /\ K = sequence
    BY <1>4 DEF PrebuiltOnes, Prebuilt, ChargeOperator
  <2> HIDE DEF own, P, S
  <2>2. {u \in unit_loads : u.terminal = row} = {own[row]}
    BY <1>1, <1>3, <2>1 DEF Images
  <2>3. [own[row] EXCEPT !.mesh = K] = own[row]
    BY <1>1, <2>1 DEF Units
  <2> QED BY <1>4, <2>2, <2>3 DEF Reading, own
<1>5. CASE physics # "Electrostatics"
  <2>1. winding_functionals' = Images(own, S)
    <3>1. Images(own, S) = Images(WindingOn(sequence), S)
      BY <1>1 DEF Images
    <3> QED BY <3>1
  <2> HIDE DEF own, P, S
  <2>2. unit_loads \cup winding_functionals' = Images(own, Terminals)
    BY <1>2, <1>3, <2>1 DEF Images
  <2>3. {u \in Images(own, Terminals) : u.terminal = row} = {own[row]}
    BY <1>1 DEF Images
  <2> QED BY <1>5, <2>2, <2>3 DEF Reading, own
<1> QED BY <1>4, <1>5

\* Gathering a column adds its entries to the table.
LEMMA ColumnIsOwn ==
  ASSUME SInv, coupling, pc = "gather", GatherColumn, UNCHANGED <<config, sequence>>
  PROVE  matrix' = Filled(OwnUnit, item) /\ CacheInv'
         /\ cached_sequence' \in {cached_sequence, sequence}
<1>1. /\ Configured /\ sequence \in Meshes /\ fespace = sequence /\ K = ChargeOperator
      /\ unit_loads = Images(OwnUnit, PrebuiltOnes) /\ CacheInv
      /\ item \in 1..(Len(Drives) + 1) /\ item <= Len(Drives)
      /\ solution = {[meshes |-> {sequence}, units |-> Images(OwnUnit, Drives[item]),
                      background |-> {}]}
      /\ matrix = Filled(OwnUnit, item - 1)
  BY DEF SInv, StaticTypeOK, BuiltInv, Current, ProgressInv, SolutionInv, Back, MatrixInv, Done
<1>2. Stranded(Terminals) = StrandedOnes
  BY DEF Stranded, StrandedOnes, PrebuiltOnes
<1>3. /\ CacheInv' /\ cached_sequence' \in {cached_sequence, sequence}
      /\ StrandedOnes # {} =>
           /\ winding_functionals' \subseteq Images(WindingOn(sequence), StrandedOnes)
           /\ Images(WindingOn(sequence), StrandedOnes) \subseteq winding_functionals'
  <2>1. AskWindings(StrandedOnes)
    BY <1>2 DEF GatherColumn
  <2> QED BY <1>1, <2>1, AskWindingsKeeps
<1>4. /\ winding_functionals' \subseteq Images(WindingOn(sequence), StrandedOnes)
      /\ Images(WindingOn(sequence), StrandedOnes) \subseteq winding_functionals'
  <2>1. CASE StrandedOnes = {}
    BY <1>3, <2>1, ConfigKept DEF CacheInv, Images
  <2> QED BY <1>3, <2>1
<1>5. \A r \in Terminals : Reading(r) = {OwnUnit[r]}
  BY <1>1, <1>4, ReadingIsOwn
<1>6. Drives[item] = {item} /\ item \in 1..NTerminals
  BY <1>1, DrivesType DEF Terminals
<1> DEFINE own == OwnUnit
           x == [meshes |-> {sequence}, units |-> {own[item]}, background |-> {}]
           e(r, u, y) == [row |-> r, column |-> item, reads |-> u, units |-> y.units,
                          background |-> y.background]
<1>7. solution = {x}
  BY <1>1, <1>6 DEF Images
<1>8. \A r \in Terminals : e(r, own[r], x) = Entry(own, r, item)
  BY DEF Entry
<1>9. matrix' = matrix \cup UNION {{e(r, u, y) : u \in Reading(r), y \in solution} : r \in Terminals}
  BY DEF GatherColumn
<1> HIDE DEF own, x, e
<1>10. \A r \in Terminals : {e(r, u, y) : u \in Reading(r), y \in solution} = {Entry(own, r, item)}
  BY <1>5, <1>7, <1>8 DEF own
<1>11. matrix' = matrix \cup {Entry(own, r, item) : r \in Terminals}
  <2> DEFINE g(r) == {e(r, u, y) : u \in Reading(r), y \in solution}
             h(r) == Entry(own, r, item)
  <2>1. \A r \in Terminals : g(r) = {h(r)}
    BY <1>10
  <2>2. matrix' = matrix \cup UNION {g(r) : r \in Terminals}
    BY <1>9
  <2> HIDE DEF g, h
  <2>3. UNION {g(r) : r \in Terminals} = {h(r) : r \in Terminals}
    BY <2>1
  <2> QED BY <2>2, <2>3 DEF h
<1>12. Filled(own, item) = Filled(own, item - 1) \cup {Entry(own, r, item) : r \in Terminals}
  <2>1. 1..item = (1..(item - 1)) \cup {item}
    BY <1>1
  <2> QED BY <2>1 DEF Filled
<1> QED BY <1>1, <1>3, <1>11, <1>12 DEF own

-----------------------------------------------------------------------------
(* Types, and what a step leaves alone.                                    *)

Phases == {"constructed", "ready", "begin", "imprint", "solve", "gather", "save",
           "refine", "rebuild", "ran", "saved", "failed"}

BuiltType ==
  /\ {fespace, A_op, factors, K, natural_rhs} \subseteq Meshes \cup {-1}
  /\ K # -1 => coupling /\ physics = "Electrostatics"
  /\ unit_loads \subseteq Units

LEMMA TypeStep ==
  ASSUME StaticTypeOK, UNCHANGED config, CacheInv', BuiltType',
         cached_sequence' \in {cached_sequence, sequence}, sequence' \in Meshes,
         pc' \in Phases, runs' \in 0..MaxRuns, item' \in 1..(Len(Drives) + 1), iteration' \in Nat
  PROVE  StaticTypeOK'
<1>1. cached_sequence' \in Meshes \cup {-1}
  BY DEF StaticTypeOK
<1>2. winding_functionals' \subseteq Units
  <2> DEFINE m == cached_sequence'
  <2>1. CASE m = -1
    BY <2>1 DEF CacheInv
  <2>2. CASE m # -1
    <3>1. m \in Meshes
      BY <1>1, <2>2
    <3> HIDE DEF m
    <3>2. \A t \in Terminals : WindingOn(m)[t] \in Units
      BY <3>1 DEF WindingOn, Unit, Units
    <3>3. winding_functionals' \subseteq Images(WindingOn(m), StrandedOnes')
      BY DEF CacheInv, m
    <3>4. StrandedOnes' \subseteq Terminals
      BY DEF StrandedOnes
    <3> QED BY <3>2, <3>3, <3>4 DEF Images
  <2> QED BY <2>1, <2>2
<1>3. Drives' = Drives
  BY ConfigKept
<1> QED BY <1>1, <1>2, <1>3 DEF StaticTypeOK, BuiltType, Phases

\* The operators as they were.
LEMMA KeepBuilt ==
  ASSUME SInv, UNCHANGED <<config, built>>, Current' => Current /\ sequence' = sequence
  PROVE  BuiltInv' /\ BuiltType'
<1>1. BuiltType'
  BY ConfigKept DEF SInv, StaticTypeOK, BuiltType, built
<1>2. ASSUME Current' PROVE BuiltInv'
  <2>1. sequence' = sequence /\ OwnUnit' = OwnUnit /\ PrebuiltOnes' = PrebuiltOnes
        /\ ChargeOperator' = ChargeOperator /\ physics' = physics
    BY <1>2, ConfigKept DEF ChargeOperator
  <2> QED BY <1>2, <2>1 DEF SInv, BuiltInv, built
<1> QED BY <1>1, <1>2 DEF BuiltInv

\* The operators rebuilt.
LEMMA NewBuilt ==
  ASSUME SInv, BuildOperators, UNCHANGED <<config, sequence>>
  PROVE  BuiltInv' /\ BuiltType'
<1>1. /\ OwnUnit' = OwnUnit /\ PrebuiltOnes' = PrebuiltOnes /\ physics' = physics
      /\ coupling' = coupling /\ ChargeOperator' = ChargeOperator
      /\ Configured /\ sequence \in Meshes
  BY ConfigKept DEF ChargeOperator, SInv, StaticTypeOK
<1>2. unit_loads' = Images(OwnUnit, PrebuiltOnes)
  BY DEF BuildOperators, BuildSources, Images, OwnUnit, PrebuiltOnes
<1>3. unit_loads' \subseteq Units
  BY <1>1, <1>2, OwnUnits DEF Images, PrebuiltOnes
<1>4. BuiltInv'
  BY <1>1, <1>2 DEF BuildOperators, BuiltInv, Factored
<1>5. BuiltType'
  BY <1>1, <1>3 DEF BuildOperators, BuiltType, Factored, ChargeOperator
<1> QED BY <1>4, <1>5

\* A step that leaves the mesh, the operators and the caches alone.
LEMMA Frame ==
  ASSUME SInv, UNCHANGED <<config, sequence, built, caches>>, Current' => Current,
         pc' \in Phases, runs' \in 0..MaxRuns, item' \in 1..(Len(Drives) + 1), iteration' \in Nat
  PROVE  /\ Configured' /\ StaticTypeOK' /\ BuiltInv' /\ CacheInv'
         /\ Drives' = Drives /\ OwnUnit' = OwnUnit /\ Back' = Back /\ coupling' = coupling
         /\ physics' = physics
<1>1. /\ Configured' /\ Drives' = Drives /\ OwnUnit' = OwnUnit /\ coupling' = coupling
      /\ physics' = physics /\ StrandedOnes' = StrandedOnes
  BY ConfigKept DEF SInv
<1>2. CacheInv'
  BY <1>1 DEF SInv, CacheInv, caches
<1>3. BuiltInv' /\ BuiltType'
  BY KeepBuilt
<1>4. StaticTypeOK'
  <2>1. cached_sequence' \in {cached_sequence, sequence} /\ sequence' \in Meshes /\ StaticTypeOK
    BY DEF SInv, StaticTypeOK, caches
  <2> QED BY <1>2, <1>3, <2>1, TypeStep
<1> QED BY <1>1, <1>2, <1>3, <1>4 DEF Back

LEMMA InitSInv == Init => SInv
<1> SUFFICES ASSUME Init PROVE SInv
  OBVIOUS
<1>1. Configured
  BY DEF Init, Configured
<1>2. StaticTypeOK
  <2>1. Len(Drives) \in Nat
    BY <1>1, DrivesType
  <2>2. 0 \in Meshes /\ 0 \in 0..MaxRuns
    BY StaticAssumption, SMT DEF Meshes, MaxSequence
  <2> QED BY <2>1, <2>2 DEF Init, StaticTypeOK
<1> QED BY <1>1, <1>2
        DEF Init, SInv, BuiltInv, Current, CacheInv, LoadInv, SolutionInv, MatrixInv,
            ProgressInv, AnswerInv

LEMMA SetupSInv == ASSUME SInv, Setup PROVE SInv'
<1>1. UNCHANGED <<config, sequence, caches, runs, iteration, item, matrix>> /\ pc' = "ready"
      /\ BuildOperators
  BY DEF Setup, loop
<1>2. Configured' /\ StrandedOnes' = StrandedOnes
  BY <1>1, ConfigKept DEF SInv
<1>3. CacheInv'
  BY <1>1, <1>2 DEF SInv, CacheInv, caches
<1>4. BuiltInv' /\ BuiltType'
  BY <1>1, NewBuilt
<1>5. StaticTypeOK'
  <2>1. /\ cached_sequence' \in {cached_sequence, sequence} /\ sequence' \in Meshes /\ StaticTypeOK
        /\ pc' \in Phases /\ runs' \in 0..MaxRuns /\ item' \in 1..(Len(Drives) + 1)
        /\ iteration' \in Nat
    BY <1>1 DEF SInv, StaticTypeOK, Phases, caches
  <2> QED BY <1>1, <1>3, <1>4, <2>1, TypeStep
<1> QED BY <1>1, <1>2, <1>3, <1>4, <1>5
        DEF SInv, LoadInv, SolutionInv, MatrixInv, ProgressInv, AnswerInv

\* A failed build leaves what it made, of a mesh that exists.
LEMMA BuildFailsSInv == ASSUME SInv, BuildFails PROVE SInv'
<1>1. UNCHANGED <<config, sequence, caches, runs, iteration, item, matrix>> /\ pc' = "failed"
  BY DEF BuildFails, loop
<1>2. Configured' /\ StrandedOnes' = StrandedOnes /\ coupling' = coupling /\ physics' = physics
  BY <1>1, ConfigKept DEF SInv
<1>3. CacheInv'
  BY <1>1, <1>2 DEF SInv, CacheInv, caches
<1>4. StaticTypeOK /\ BuiltType
  BY DEF SInv, StaticTypeOK, BuiltType
<1>5. BuiltInv' /\ BuiltType'
  <2>1. BuiltType'
    <3>1. CASE UNCHANGED built
      BY <1>2, <1>4, <3>1 DEF BuiltType, built
    <3>2. CASE /\ fespace' = sequence /\ A_op' = sequence /\ factors' = -1
               /\ UNCHANGED <<K, natural_rhs, unit_loads>>
      BY <1>2, <1>4, <3>2 DEF BuiltType, StaticTypeOK
    <3> QED BY <3>1, <3>2 DEF BuildFails
  <2> QED BY <1>1, <2>1 DEF BuiltInv, Current
<1>6. StaticTypeOK'
  <2>1. /\ cached_sequence' \in {cached_sequence, sequence} /\ sequence' \in Meshes
        /\ pc' \in Phases /\ runs' \in 0..MaxRuns /\ item' \in 1..(Len(Drives) + 1)
        /\ iteration' \in Nat
    BY <1>1, <1>4 DEF StaticTypeOK, Phases, caches
  <2> QED BY <1>1, <1>3, <1>4, <1>5, <2>1, TypeStep
<1> QED BY <1>1, <1>2, <1>3, <1>5, <1>6
        DEF SInv, LoadInv, SolutionInv, MatrixInv, ProgressInv, AnswerInv

\* A step to a phase that promises nothing of the solves.
LEMMA IdleSInv ==
  ASSUME SInv, UNCHANGED <<config, loop, sequence, built, caches, matrix>>,
         pc' \in {"failed", "saved"}, Current' => Current
  PROVE  SInv'
<1>1. pc' \in Phases /\ runs' \in 0..MaxRuns /\ item' \in 1..(Len(Drives) + 1)
      /\ iteration' \in Nat
  BY DEF SInv, StaticTypeOK, Phases, loop
<1>2. Configured' /\ StaticTypeOK' /\ BuiltInv' /\ CacheInv'
  BY <1>1, Frame
<1> QED BY <1>2 DEF SInv, LoadInv, SolutionInv, MatrixInv, ProgressInv, AnswerInv

LEMMA RunSInv == ASSUME SInv, Run PROVE SInv'
<1>1. /\ pc' \in Phases /\ runs' \in 0..MaxRuns /\ item' \in 1..(Len(Drives) + 1)
      /\ iteration' \in Nat /\ pc' = "begin" /\ Current /\ UNCHANGED <<config, sequence, built, caches>>
  BY StaticAssumption DEF Run, SInv, StaticTypeOK, Phases, Current
<1>2. Configured' /\ StaticTypeOK' /\ BuiltInv' /\ CacheInv'
  BY <1>1, Frame
<1> QED BY <1>1, <1>2
        DEF Run, SInv, LoadInv, SolutionInv, MatrixInv, ProgressInv, AnswerInv

LEMMA BeginSInv == ASSUME SInv, BeginPass PROVE SInv'
<1>1. Len(Drives) \in Nat
  BY DrivesType DEF SInv
<1>2. /\ pc' \in Phases /\ runs' \in 0..MaxRuns /\ item' \in 1..(Len(Drives) + 1)
      /\ iteration' \in Nat /\ pc = "begin" /\ pc' = "imprint" /\ item' = 1
      /\ Current /\ UNCHANGED <<config, sequence, built, caches, observed>>
  BY <1>1 DEF BeginPass, SInv, StaticTypeOK, Phases, Current
<1>3. Configured' /\ StaticTypeOK' /\ BuiltInv' /\ CacheInv' /\ coupling' = coupling
  BY <1>2, Frame
<1>4. Done' = 0 /\ \A own : Filled(own, 0) = {} /\ \A d, m : Answered(d, m, 0) = {}
  BY <1>2 DEF Done, Filled, Answered
<1>5. MatrixInv'
  BY <1>2, <1>3, <1>4 DEF BeginPass, ResetMatrix, SInv, MatrixInv
<1>6. AnswerInv'
  BY <1>2, <1>4 DEF SInv, AnswerInv
<1> QED BY <1>2, <1>3, <1>5, <1>6 DEF SInv, LoadInv, SolutionInv, ProgressInv

\* The end of a pass.
LEMMA EndSInv == ASSUME SInv, EndSinglePass \/ EndAdaptivePass PROVE SInv'
<1>1. /\ pc' \in Phases /\ runs' \in 0..MaxRuns /\ item' \in 1..(Len(Drives) + 1)
      /\ iteration' \in Nat /\ pc = "imprint" /\ pc' \in {"ran", "refine"} /\ item' = item
      /\ Current /\ UNCHANGED <<config, sequence, built, caches, observed, matrix>>
      /\ item > Len(Drives)
  BY DEF EndSinglePass, EndAdaptivePass, EndPass, SInv, StaticTypeOK, Phases, Current, loop
<1>2. Configured' /\ StaticTypeOK' /\ BuiltInv' /\ CacheInv' /\ coupling' = coupling
      /\ Drives' = Drives /\ OwnUnit' = OwnUnit
  BY <1>1, Frame
<1>3. Done' = Done
  BY <1>1 DEF Done
<1>4. item = Len(Drives) + 1
  BY <1>1, DrivesType DEF SInv, StaticTypeOK
<1>5. MatrixInv' /\ AnswerInv' /\ ProgressInv'
  BY <1>1, <1>2, <1>3, <1>4 DEF SInv, MatrixInv, AnswerInv, ProgressInv
<1> QED BY <1>1, <1>2, <1>5 DEF SInv, LoadInv, SolutionInv

\* A refinement outdates the operators, not the types.
LEMMA RefineSInv == ASSUME SInv, Refine \/ RefineFails PROVE SInv'
<1>1. /\ UNCHANGED <<config, built, caches, runs, iteration, item, matrix>>
      /\ pc' \in {"rebuild", "failed"} /\ (pc' = "rebuild" => observed' = {})
      /\ sequence' \in {sequence, sequence + 1} /\ sequence < MaxSequence
  BY DEF Refine, RefineFails, loop
<1>2. Configured' /\ StrandedOnes' = StrandedOnes
  BY <1>1, ConfigKept DEF SInv
<1>3. CacheInv'
  BY <1>1, <1>2 DEF SInv, CacheInv, caches
<1>4. BuiltInv' /\ BuiltType'
  BY <1>1, KeepBuilt DEF Current
<1>5. StaticTypeOK'
  <2>1. /\ cached_sequence' \in {cached_sequence, sequence} /\ StaticTypeOK
        /\ pc' \in Phases /\ runs' \in 0..MaxRuns /\ item' \in 1..(Len(Drives) + 1)
        /\ iteration' \in Nat
    BY <1>1 DEF SInv, StaticTypeOK, Phases, caches
  <2>2. sequence' \in Meshes
    <3>1. MaxSequence \in Nat
      BY StaticAssumption, SMT DEF MaxSequence
    <3> QED BY <1>1, <3>1, <2>1 DEF StaticTypeOK, Meshes
  <2> QED BY <1>1, <1>3, <1>4, <2>1, <2>2, TypeStep
<1> QED BY <1>1, <1>2, <1>3, <1>4, <1>5
        DEF SInv, LoadInv, SolutionInv, MatrixInv, ProgressInv, AnswerInv

LEMMA RebuildSInv == ASSUME SInv, Rebuild PROVE SInv'
<1>1. /\ UNCHANGED <<config, sequence, caches, runs, item, matrix, observed>>
      /\ pc = "rebuild" /\ pc' = "begin" /\ iteration' = iteration + 1 /\ BuildOperators
  BY DEF Rebuild
<1>2. Configured' /\ StrandedOnes' = StrandedOnes
  BY <1>1, ConfigKept DEF SInv
<1>3. CacheInv'
  BY <1>1, <1>2 DEF SInv, CacheInv, caches
<1>4. BuiltInv' /\ BuiltType'
  BY <1>1, NewBuilt
<1>5. StaticTypeOK'
  <2>1. /\ cached_sequence' \in {cached_sequence, sequence} /\ sequence' \in Meshes /\ StaticTypeOK
        /\ pc' \in Phases /\ runs' \in 0..MaxRuns /\ item' \in 1..(Len(Drives) + 1)
        /\ iteration' \in Nat
    BY <1>1 DEF SInv, StaticTypeOK, Phases, caches
  <2> QED BY <1>1, <1>3, <1>4, <2>1, TypeStep
<1> QED BY <1>1, <1>2, <1>3, <1>4, <1>5
        DEF SInv, LoadInv, SolutionInv, MatrixInv, ProgressInv, AnswerInv

\* The load is the terminals' own units, with the boundary data of a field solution.
LEMMA ImprintSInv == ASSUME SInv, ImprintScenario PROVE SInv'
<1>1. /\ UNCHANGED <<config, sequence, built, matrix, observed, runs, iteration, item>>
      /\ pc = "imprint" /\ pc' = "solve" /\ item <= Len(Drives)
      /\ AskAreas(Stranded(Drives[item]))
  BY DEF ImprintScenario, loop
<1>2. /\ Configured /\ StaticTypeOK /\ CacheInv /\ sequence \in Meshes /\ fespace = sequence
      /\ unit_loads = Images(OwnUnit, PrebuiltOnes)
      /\ physics # "Magnetostatics3D" => natural_rhs = sequence
  BY <1>1 DEF SInv, StaticTypeOK, BuiltInv, Current
<1>3. /\ Configured' /\ Drives' = Drives /\ OwnUnit' = OwnUnit /\ coupling' = coupling
      /\ physics' = physics /\ Back' = Back
  BY <1>1, <1>2, ConfigKept DEF Back
<1>4. Drives[item] \in SUBSET Terminals
  BY <1>1, <1>2, DrivesType DEF StaticTypeOK
<1>5. CacheInv' /\ cached_sequence' \in {cached_sequence, sequence}
  <2>1. Stranded(Drives[item]) \in SUBSET Terminals
    BY <1>4 DEF Stranded
  <2> QED BY <1>1, <1>2, <2>1, AskAreasKeeps
<1>6. BuiltInv' /\ BuiltType'
  BY <1>1, KeepBuilt DEF Current
<1>7. StaticTypeOK'
  <2>1. /\ sequence' \in Meshes /\ pc' \in Phases /\ runs' \in 0..MaxRuns
        /\ item' \in 1..(Len(Drives) + 1) /\ iteration' \in Nat
    BY <1>1, <1>2 DEF StaticTypeOK, Phases
  <2> QED BY <1>1, <1>2, <1>5, <1>6, <2>1, TypeStep
<1>8. LoadInv'
  <2>1. {u \in unit_loads : u.terminal \in Drives[item]} \cup Windings(Stranded(Drives[item]))
          = Images(OwnUnit, Drives[item])
    BY <1>2, <1>4, LoadIsOwn
  <2>2. Background = Back
    BY <1>2 DEF Background, Back
  <2>3. load' = {[units |-> Images(OwnUnit, Drives[item]), background |-> Back]}
    BY <2>1, <2>2 DEF ImprintScenario
  <2> QED BY <1>1, <1>3, <2>3 DEF LoadInv
<1>9. Done' = Done
  BY <1>1 DEF Done
<1>10. MatrixInv' /\ AnswerInv' /\ ProgressInv'
  BY <1>1, <1>3, <1>9 DEF SInv, MatrixInv, AnswerInv, ProgressInv
<1> QED BY <1>1, <1>3, <1>5, <1>6, <1>7, <1>8, <1>10 DEF SInv, SolutionInv

LEMMA SolveSInv == ASSUME SInv, SolveSystem PROVE SInv'
<1>1. /\ UNCHANGED <<config, sequence, built, caches, matrix, observed, runs, iteration, item>>
      /\ pc = "solve" /\ Current
      /\ pc' = IF physics = "Magnetostatics" THEN "save" ELSE "gather"
  BY DEF SolveSystem, loop, Current
<1>2. /\ pc' \in Phases /\ runs' \in 0..MaxRuns /\ item' \in 1..(Len(Drives) + 1)
      /\ iteration' \in Nat
  BY <1>1 DEF SInv, StaticTypeOK, Phases
<1>3. Configured' /\ StaticTypeOK' /\ BuiltInv' /\ CacheInv' /\ coupling' = coupling
      /\ Drives' = Drives /\ OwnUnit' = OwnUnit /\ Back' = Back /\ physics' = physics
  BY <1>1, <1>2, Frame
<1>4. SolutionInv'
  <2> DEFINE l == [units |-> Images(OwnUnit, Drives[item]), background |-> Back]
             v(y) == [meshes |-> {fespace, A_op, factors}, units |-> y.units,
                      background |-> y.background]
  <2>1. solution' = {v(y) : y \in load}
    BY DEF SolveSystem
  <2>2. load = {l} /\ {fespace, A_op, factors} = {sequence}
    BY <1>1 DEF SInv, LoadInv, BuiltInv
  <2>3. v(l) = [meshes |-> {sequence}, units |-> Images(OwnUnit, Drives[item]),
                background |-> Back]
    BY <2>2
  <2> HIDE DEF l, v
  <2>4. solution' = {v(l)}
    BY <2>1, <2>2
  <2> QED BY <1>1, <1>3, <2>3, <2>4 DEF SolutionInv
<1>5. Done' = Done /\ pc' \in {"save", "gather"}
  BY <1>1, <1>3 DEF Done
<1>6. MatrixInv' /\ AnswerInv' /\ ProgressInv'
  BY <1>1, <1>3, <1>5 DEF SInv, MatrixInv, AnswerInv, ProgressInv
<1> QED BY <1>3, <1>4, <1>5, <1>6 DEF SInv, LoadInv

\* What Gather reads is the answer of the current item.
LEMMA GatherAnswers ==
  ASSUME SInv, Gather
  PROVE  observed' = observed \cup {Ans(Drives, sequence, item)}
<1>1. /\ pc = "gather" /\ item <= Len(Drives) /\ item \in 1..(Len(Drives) + 1)
      /\ Configured /\ sequence \in Meshes
  BY DEF Gather, SInv, ProgressInv, StaticTypeOK
<1> DEFINE own == OwnUnit
           D == Drives[item]
           x == [meshes |-> {sequence}, units |-> Images(own, D), background |-> Back]
<1>2. D \in SUBSET Terminals
  BY <1>1, DrivesType
<1>3. \A t \in Terminals : own[t].terminal = t /\ own[t].mesh = sequence /\ own[t].norm = sequence
  BY <1>1, OwnUnits
<1>4. solution = {x}
  BY <1>1 DEF SInv, SolutionInv
<1>5. x.meshes = {sequence} /\ x.units = Images(own, D) /\ x.background = Back
      /\ D = Drives[item] /\ Back \subseteq {sequence}
  BY DEF Back
<1> HIDE DEF own, D, x
<1>6. Found(x.units) = D
  BY <1>2, <1>3, <1>5 DEF Found, Images
<1>7. {u.mesh : u \in x.units} \subseteq {sequence} /\ {u.norm : u \in x.units} \subseteq {sequence}
  BY <1>2, <1>3, <1>5 DEF Images
<1>8. x.meshes \cup x.background \cup {u.mesh : u \in x.units} \cup {u.norm : u \in x.units}
        = {sequence}
  BY <1>5, <1>7
<1>9. Observed(x) = Ans(Drives, sequence, item)
  BY <1>5, <1>6, <1>8 DEF Observed, Ans
<1>10. {Observed(y) : y \in solution} = {Observed(x)}
  BY <1>4
<1> QED BY <1>9, <1>10 DEF Gather

LEMMA AnsweredNext ==
  ASSUME NEW drives, NEW m, NEW k \in Nat \ {0}
  PROVE  Answered(drives, m, k) = Answered(drives, m, k - 1) \cup {Ans(drives, m, k)}
<1>1. 1..k = (1..(k - 1)) \cup {k}
  OBVIOUS
<1> QED BY <1>1 DEF Answered

\* A column is gathered, and an answer.
LEMMA GatherSInv == ASSUME SInv, Gather PROVE SInv'
<1>1. /\ UNCHANGED <<config, sequence, built, solution, runs, iteration>>
      /\ pc = "gather" /\ Current
      /\ IF physics = "Magnetostatics" THEN item' = item + 1 /\ pc' = "imprint"
                                       ELSE item' = item /\ pc' = "save"
  BY DEF Gather, solving, Current
<1>2. /\ Configured /\ StaticTypeOK /\ CacheInv /\ item \in 1..(Len(Drives) + 1)
      /\ item <= Len(Drives) /\ Len(Drives) \in Nat
  BY <1>1, DrivesType DEF SInv, StaticTypeOK, ProgressInv
<1>3. /\ Configured' /\ Drives' = Drives /\ OwnUnit' = OwnUnit /\ coupling' = coupling
      /\ physics' = physics /\ Back' = Back /\ StrandedOnes' = StrandedOnes
  BY <1>1, <1>2, ConfigKept DEF Back
<1>4. Done' = item
  BY <1>1, <1>2, <1>3 DEF Done
<1>5. /\ CacheInv' /\ cached_sequence' \in {cached_sequence, sequence}
      /\ coupling => matrix' = Filled(OwnUnit, item)
      /\ ~coupling => matrix' = matrix
  <2>1. CASE coupling
    BY <1>1, <2>1, ColumnIsOwn DEF Gather
  <2>2. CASE ~coupling
    BY <1>1, <1>2, <1>3, <2>2 DEF Gather, caches, CacheInv
  <2> QED BY <2>1, <2>2
<1>6. BuiltInv' /\ BuiltType'
  BY <1>1, KeepBuilt
<1>7. StaticTypeOK'
  <2>1. /\ sequence' \in Meshes /\ pc' \in Phases /\ runs' \in 0..MaxRuns
        /\ item' \in 1..(Len(Drives) + 1) /\ iteration' \in Nat
    BY <1>1, <1>2 DEF StaticTypeOK, Phases
  <2> QED BY <1>1, <1>2, <1>5, <1>6, <2>1, TypeStep
<1>8. MatrixInv'
  <2>1. \A own, k : \A e \in Filled(own, k) : e.background = {}
    BY DEF Filled, Entry
  <2>2. \A e \in matrix' : e.background = {}
    BY <1>5, <2>1 DEF SInv, MatrixInv
  <2> QED BY <1>3, <1>4, <1>5, <2>2 DEF MatrixInv
<1>9. AnswerInv'
  <2>1. observed = Answered(Drives, sequence, item - 1)
    BY <1>1 DEF SInv, AnswerInv, Done
  <2>2. observed' = Answered(Drives, sequence, item)
    <3>1. item \in Nat \ {0}
      BY <1>2
    <3>2. Answered(Drives, sequence, item)
            = Answered(Drives, sequence, item - 1) \cup {Ans(Drives, sequence, item)}
      BY <3>1, AnsweredNext
    <3>3. observed' = observed \cup {Ans(Drives, sequence, item)}
      BY GatherAnswers
    <3> QED BY <2>1, <3>2, <3>3
  <2> QED BY <1>1, <1>3, <1>4, <2>2 DEF AnswerInv
<1>10. SolutionInv' /\ ProgressInv' /\ LoadInv'
  BY <1>1, <1>2, <1>3 DEF SInv, SolutionInv, ProgressInv, LoadInv
<1> QED BY <1>3, <1>5, <1>6, <1>7, <1>8, <1>9, <1>10 DEF SInv

LEMMA SaveSInv == ASSUME SInv, SaveScenario PROVE SInv'
<1>1. /\ UNCHANGED <<config, sequence, built, caches, solution, runs, iteration, matrix, observed>>
      /\ pc = "save" /\ Current
      /\ IF physics = "Magnetostatics" THEN item' = item /\ pc' = "gather"
                                       ELSE item' = item + 1 /\ pc' = "imprint"
  BY DEF SaveScenario, solving, Current
<1>2. /\ item \in 1..(Len(Drives) + 1) /\ item <= Len(Drives) /\ Len(Drives) \in Nat
  BY <1>1, DrivesType DEF SInv, StaticTypeOK, ProgressInv
<1>3. /\ pc' \in Phases /\ runs' \in 0..MaxRuns /\ item' \in 1..(Len(Drives) + 1)
      /\ iteration' \in Nat
  BY <1>1, <1>2 DEF SInv, StaticTypeOK, Phases
<1>4. Configured' /\ StaticTypeOK' /\ BuiltInv' /\ CacheInv' /\ coupling' = coupling
      /\ Drives' = Drives /\ OwnUnit' = OwnUnit /\ Back' = Back /\ physics' = physics
  BY <1>1, <1>3, Frame
<1>5. Done' = Done
  BY <1>1, <1>2, <1>4 DEF Done
<1>6. MatrixInv' /\ AnswerInv'
  BY <1>1, <1>4, <1>5 DEF SInv, MatrixInv, AnswerInv
<1>7. SolutionInv' /\ ProgressInv' /\ LoadInv'
  BY <1>1, <1>2, <1>4 DEF SInv, SolutionInv, ProgressInv, LoadInv
<1> QED BY <1>4, <1>6, <1>7 DEF SInv

LEMMA NextSInv == SInv /\ [Next]_vars => SInv'
<1> SUFFICES ASSUME SInv, [Next]_vars PROVE SInv'
  OBVIOUS
<1>1. CASE Setup
  BY <1>1, SetupSInv
<1>2. CASE BuildFails
  BY <1>2, BuildFailsSInv
<1>3. CASE Run
  BY <1>3, RunSInv
<1>4. CASE BeginPass
  BY <1>4, BeginSInv
<1>5. CASE ImprintScenario
  BY <1>5, ImprintSInv
<1>6. CASE SolveSystem
  BY <1>6, SolveSInv
<1>7. CASE SolveFails
  BY <1>7, IdleSInv DEF SolveFails, Current
<1>8. CASE Gather
  BY <1>8, GatherSInv
<1>9. CASE SaveScenario
  BY <1>9, SaveSInv
<1>10. CASE WriteFails
  BY <1>10, IdleSInv DEF WriteFails, Current
<1>11. CASE EndSinglePass \/ EndAdaptivePass
  BY <1>11, EndSInv
<1>12. CASE Refine \/ RefineFails
  BY <1>12, RefineSInv
<1>13. CASE Rebuild
  BY <1>13, RebuildSInv
<1>14. CASE SaveAnalysis
  BY <1>14, IdleSInv DEF SaveAnalysis, Current
<1>15. CASE UNCHANGED vars
  <2>1. UNCHANGED <<config, loop, sequence, built, caches, matrix, observed, load, solution>>
        /\ pc' = pc /\ UNCHANGED <<runs, iteration, item>>
    BY <1>15 DEF vars, solving, loop
  <2>2. /\ pc' \in Phases /\ runs' \in 0..MaxRuns /\ item' \in 1..(Len(Drives) + 1)
        /\ iteration' \in Nat /\ Current' = Current
    BY <2>1 DEF SInv, StaticTypeOK, Phases, Current
  <2>3. Configured' /\ StaticTypeOK' /\ BuiltInv' /\ CacheInv' /\ coupling' = coupling
        /\ Drives' = Drives /\ OwnUnit' = OwnUnit /\ Back' = Back /\ physics' = physics
    BY <2>1, <2>2, Frame
  <2>4. Done' = Done
    BY <2>1, <2>3 DEF Done
  <2> QED BY <2>1, <2>3, <2>4
          DEF SInv, LoadInv, SolutionInv, MatrixInv, ProgressInv, AnswerInv
<1> QED
  BY <1>1, <1>2, <1>3, <1>4, <1>5, <1>6, <1>7, <1>8, <1>9, <1>10, <1>11, <1>12, <1>13, <1>14,
     <1>15 DEF Next, Step

-----------------------------------------------------------------------------
(* The theorems.                                                           *)

\* SInv holds throughout: everything a run uses is of the mesh of the moment.
THEOREM StaticInvariance == Spec => []SInv
BY InitSInv, NextSInv, PTL DEF Spec

\* The whole table of own units is reciprocal.
LEMMA TableIsReciprocal ==
  ASSUME SInv PROVE MatrixIsReciprocal
<1> SUFFICES ASSUME coupling, pc = "ran", NEW r \in Terminals, NEW c \in Terminals
             PROVE  LET at(i, j) == {e \in matrix : e.row = i /\ e.column = j}
                    IN /\ Cardinality(at(r, c)) = 1
                       /\ \A e \in at(r, c), f \in at(c, r) :
                            /\ e.reads.terminal = r /\ e.reads.mesh = sequence
                            /\ e.units = {f.reads} /\ f.units = {e.reads}
  BY DEF MatrixIsReciprocal
<1> DEFINE own == OwnUnit
           at(i, j) == {e \in matrix : e.row = i /\ e.column = j}
<1>1. matrix = Filled(own, NTerminals)
  <2>1. Len(Drives) = NTerminals /\ NTerminals \in Nat
    <3>1. Configured
      BY DEF SInv
    <3>2. Len(Drives) = NTerminals
      BY <3>1, DrivesType, Zenon
    <3> QED BY <3>2, StaticAssumption
  <2>2. Done = NTerminals
    BY <2>1 DEF SInv, ProgressInv, Done
  <2> QED BY <2>2 DEF SInv, MatrixInv
<1>2. \A t \in Terminals : own[t].terminal = t /\ own[t].mesh = sequence
  BY OwnUnits DEF SInv, StaticTypeOK
<1>3. \A i, j \in Terminals : /\ Entry(own, i, j).row = i /\ Entry(own, i, j).column = j
                              /\ Entry(own, i, j).reads = own[i]
                              /\ Entry(own, i, j).units = {own[j]}
  BY DEF Entry
<1> HIDE DEF own
<1>4. ASSUME NEW i \in Terminals, NEW j \in Terminals PROVE at(i, j) = {Entry(own, i, j)}
  <2>1. matrix = {Entry(own, p, q) : p \in Terminals, q \in Terminals}
    BY <1>1 DEF Filled, Terminals
  <2> QED BY <1>3, <2>1
<1>5. Cardinality(at(r, c)) = 1
  <2>1. Cardinality({Entry(own, r, c)}) = 1
    BY FS_Singleton
  <2> QED BY <1>4, <2>1
<1> QED BY <1>2, <1>3, <1>4, <1>5

\* For any number of terminals, scenarios, refinements and runs, the matrix that is
\* written has one entry per pair, made of the two terminals' own units on the last
\* mesh, and no boundary data (GatherColumn and ImprintScenario of the static solvers).
THEOREM MatrixOfTerminals == Spec => []MatrixIsOfTerminals
<1>1. SInv => MatrixIsOfTerminals
  <2> SUFFICES ASSUME SInv PROVE MatrixIsOfTerminals
    OBVIOUS
  <2>1. BackgroundAsAnalysed
    <3> DEFINE x == [meshes |-> {sequence}, units |-> Images(OwnUnit, Drives[item]),
                     background |-> Back]
    <3>1. pc \in {"gather", "save"} => solution = {x}
      BY DEF SInv, SolutionInv
    <3>2. x.background = Back
      OBVIOUS
    <3> HIDE DEF x
    <3> QED BY <3>1, <3>2 DEF SInv, MatrixInv, Back, BackgroundAsAnalysed
  <2> QED BY <2>1, TableIsReciprocal DEF SInv, MatrixIsOfTerminals
<1> QED BY <1>1, StaticInvariance, PTL

\* Gather answers, a refinement discards the answers, the start and the end of a run
\* start and finish, an exception fails, and nothing else is seen by the contract.
LEMMA StepKeepsContract ==
  ASSUME SInv, [Next]_vars
  PROVE  [Contract!CNext]_(Contract!cvars)
<1> DEFINE plan == [k \in DOMAIN Drives |-> [Frequency |-> 0, driven |-> Drives[k]]]
<1>1. /\ Configured /\ item \in 1..(Len(Drives) + 1) /\ Len(Drives) \in Nat
      /\ DOMAIN Drives = 1..Len(Drives)
  BY DrivesType DEF SInv, StaticTypeOK
<1>2. \A i \in DOMAIN Drives : Contract!Answer(i) = Ans(Drives, sequence, i)
  BY DEF Contract!Answer, Ans
<1>3. Contract!Answers = Answered(Drives, sequence, Len(Drives))
  <2>1. DOMAIN plan = DOMAIN Drives
    OBVIOUS
  <2> QED BY <1>1, <1>2, <2>1 DEF Contract!Answers, Answered
<1>4. ASSUME UNCHANGED config PROVE plan' = plan
  BY <1>4, ConfigKept
<1>5. ASSUME plan' = plan, sequence' = sequence, observed' = observed, Status' = Status
      PROVE  UNCHANGED Contract!cvars
  BY <1>5 DEF Contract!cvars
<1>6. CASE Setup \/ SaveAnalysis \/ BeginPass \/ ImprintScenario \/ SolveSystem
           \/ SaveScenario \/ Rebuild
  <2>1. UNCHANGED config /\ sequence' = sequence /\ observed' = observed /\ Status' = Status
    BY <1>6 DEF Setup, SaveAnalysis, BeginPass, ImprintScenario, SolveSystem, SaveScenario,
                Rebuild, Status
  <2> QED BY <1>4, <1>5, <2>1
<1>7. CASE BuildFails \/ SolveFails \/ WriteFails \/ RefineFails
  <2>1. UNCHANGED config /\ sequence' \in {sequence, sequence + 1} /\ observed' = observed
        /\ Status' = "failed"
    BY <1>7 DEF BuildFails, SolveFails, WriteFails, RefineFails, Status
  <2> QED BY <1>4, <2>1 DEF Contract!CNext, Contract!Fail
<1>8. CASE Run
  <2>1. UNCHANGED config /\ sequence' = sequence /\ observed' = {} /\ Status = "idle"
        /\ Status' = "running"
    BY <1>8 DEF Run, Status
  <2> QED BY <1>4, <2>1 DEF Contract!CNext, Contract!Start
<1>9. CASE Gather
  <2>1. UNCHANGED config /\ sequence' = sequence /\ Status = "running" /\ Status' = "running"
    BY <1>9 DEF Gather, Status
  <2>2. item \in DOMAIN Drives /\ observed = Answered(Drives, sequence, item - 1)
    BY <1>1, <1>9 DEF Gather, SInv, ProgressInv, AnswerInv, Done
  <2>3. Cardinality(observed) = item - 1
    <3> DEFINE k == item - 1
               a == [i \in 1..k |-> Ans(Drives, sequence, i)]
    <3>1. k \in Nat
      BY <1>1
    <3>2. \A i \in 1..k : a[i] = Ans(Drives, sequence, i) /\ a[i].item = i
      BY DEF Ans
    <3> HIDE DEF a, k
    <3>3. Cardinality({a[i] : i \in 1..k}) = k
      BY <3>1, <3>2, NumberedCount
    <3>4. Answered(Drives, sequence, k) = {a[i] : i \in 1..k}
      BY <3>2 DEF Answered
    <3> QED BY <2>2, <3>3, <3>4 DEF k
  <2>4. observed' = observed \cup {Contract!Answer(item)}
    BY <1>2, <1>9, <2>2, GatherAnswers
  <2>5. item = Contract!Cardinality(observed) + 1
    <3>1. Contract!Cardinality(observed) = Cardinality(observed)
      BY DEF Contract!Cardinality, Cardinality
    <3> QED BY <1>1, <2>3, <3>1
  <2>6. item \in DOMAIN plan
    BY <2>2
  <2> QED BY <1>4, <2>1, <2>4, <2>5, <2>6 DEF Contract!CNext, Contract!Solve
<1>10. ASSUME item > Len(Drives), pc = "imprint" PROVE observed = Contract!Answers
  <2>1. item - 1 = Len(Drives)
    BY <1>1, <1>10
  <2> QED BY <1>3, <1>10, <2>1 DEF SInv, AnswerInv, Done
<1>11. CASE EndSinglePass \/ EndAdaptivePass
  <2>1. UNCHANGED config /\ sequence' = sequence /\ observed' = observed /\ Status = "running"
        /\ item > Len(Drives) /\ pc = "imprint" /\ Status' \in {"idle", "running"}
    BY <1>11 DEF EndSinglePass, EndAdaptivePass, EndPass, Status
  <2>2. CASE Status' = "idle"
    BY <1>4, <1>10, <2>1, <2>2 DEF Contract!CNext, Contract!Finish
  <2>3. CASE Status' = "running"
    BY <1>4, <1>5, <2>1, <2>3
  <2> QED BY <2>1, <2>2, <2>3
<1>12. CASE Refine
  <2>1. UNCHANGED config /\ sequence' = sequence + 1 /\ observed' = {} /\ Status = "running"
        /\ Status' = "running"
    BY <1>12 DEF Refine, Status
  <2>2. observed = Contract!Answers
    <3>1. item = Len(Drives) + 1 /\ observed = Answered(Drives, sequence, item - 1)
      BY <1>12 DEF Refine, SInv, ProgressInv, AnswerInv, Done
    <3>2. item - 1 = Len(Drives)
      BY <1>1, <3>1
    <3> QED BY <1>3, <3>1, <3>2
  <2> QED BY <1>4, <2>1, <2>2 DEF Contract!CNext, Contract!Refine
<1>13. CASE UNCHANGED vars
  <2>1. UNCHANGED config /\ sequence' = sequence /\ observed' = observed /\ Status' = Status
    BY <1>13 DEF vars, Status
  <2> QED BY <1>4, <1>5, <2>1
<1> QED
  BY <1>6, <1>7, <1>8, <1>9, <1>11, <1>12, <1>13 DEF Next, Step

\* A static run implements RunContract for any number of terminals, scenarios,
\* refinements and runs: every solution that is read is made with a space, an
\* operator, factors, loads and areas of the mesh of the moment, and a run ends only
\* with the whole plan answered on its last mesh.
THEOREM RunsTheContractStatic == Spec => Contract!CSpec
<1>1. Init => Contract!CInit
  BY DEF Init, Contract!CInit, Status
<1>2. SInv /\ [Next]_vars => [Contract!CNext]_(Contract!cvars)
  BY StepKeepsContract
<1> QED BY <1>1, <1>2, StaticInvariance, PTL DEF Spec, Contract!CSpec
==============================================================================
