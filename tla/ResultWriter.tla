----------------------------- MODULE ResultWriter -----------------------------
(***************************************************************************)
(* Where a run's results go: ResultWriter with the HDF5 archive, the probe  *)
(* sampler, the Gmsh and ParaView serializers and the coupling writer over   *)
(* the archive.  The writer outlives mesh refinements; BeginMesh restarts    *)
(* what belongs to one mesh.                                                *)
(*                                                                         *)
(* Field data are represented by the refinement sequence of the mesh they    *)
(* live on and the scenario they are of.  The mesh is shared with the        *)
(* solver, which refines it.                                                *)
(***************************************************************************)
EXTENDS Integers, Sequences, FiniteSets, SequencesExt

CONSTANTS
  Names,        \* display names: scenario name and driven terminal
  Label,        \* [Names -> ...]: truncated to 96 characters and sanitized
  MaxScenarios, \* bound on the scenarios of one pass
  MaxMesh       \* bound on the refinements of a behaviour

ASSUME LabelAssumption == DOMAIN Label = Names
ASSUME WriterBounds == MaxScenarios \in Nat /\ MaxMesh \in Nat

Formats == <<"paraview", "gmsh", "probes", "hdf5">>

VARIABLES
  sequence,       \* mesh.GetSequence()
  output,         \* config.Output: the enabled formats
  wants_fields,   \* WantsFields(), a function of the configuration
  coupling,       \* config.AnalysisType = CouplingMatrix
  writer,         \* closed | open | pass | failed: result_writer and its last call
  next_scenario,
  hdf5,           \* hdf5_ holds the archive open
  probes,         \* {} or {mesh the probes were located on}
  gmsh_mesh,      \* sequence of the cached mesh block, -1 before the first
  archive,        \* {} or {[mesh, scenarios, coupling]}: the file on disk
  files           \* {[format, id, label, name, block, fields]}: the others

settings == <<output, wants_fields, coupling>>
disk == <<archive, files>>
wvars == <<sequence, settings, writer, next_scenario, hdf5, probes, gmsh_mesh, disk>>

-----------------------------------------------------------------------------
\* PhysicsSolver::Run makes a writer; the one it replaces closes its archive.
Construct ==
  /\ writer # "failed"
  /\ writer' = "open"
  /\ next_scenario' = 0
  /\ hdf5' = FALSE
  /\ probes' = {}
  /\ gmsh_mesh' = -1
  /\ UNCHANGED <<sequence, settings, disk>>

\* The archive is truncated and receives the mesh.
TruncateArchive ==
  IF "hdf5" \in output
  THEN archive' = {[mesh |-> sequence, scenarios |-> <<>>, coupling |-> FALSE]}
  ELSE UNCHANGED archive

\* Faulty: the numbers go on over the meshes of a run.
RestartNumbering_GoOn == UNCHANGED next_scenario

\* Scenario numbers count within a mesh.
RestartNumbering == next_scenario' = 0

BeginMesh ==
  /\ writer \in {"open", "pass"}
  /\ RestartNumbering
  /\ hdf5' = ("hdf5" \in output)
  /\ TruncateArchive
  /\ probes' = {sequence}
  /\ writer' = "pass"
  /\ UNCHANGED <<sequence, settings, gmsh_mesh, files>>

\* A probe point lies in no element: the archive is already truncated.
BeginMeshFails ==
  /\ writer \in {"open", "pass"}
  /\ "probes" \in output
  /\ RestartNumbering
  /\ hdf5' = ("hdf5" \in output)
  /\ TruncateArchive
  /\ writer' = "failed"
  /\ UNCHANGED <<sequence, settings, probes, gmsh_mesh, files>>

-----------------------------------------------------------------------------
\* The formats that are enabled, among the first count of their order.
Enabled(count) == {Formats[i] : i \in 1..count} \cap output

\* Faulty: the display name alone.
ArtifactName_LabelOnly(n) == [id |-> 0, label |-> Label[n]]

\* The file stem of a scenario: its number in the pass and its label.
ArtifactName(n) == [id |-> next_scenario, label |-> Label[n]]

\* Faulty: built once per writer.
GmshBlock_Once == IF gmsh_mesh # -1 THEN gmsh_mesh ELSE sequence

\* The Gmsh mesh block in use, rebuilt when the mesh has another sequence.
GmshBlock == IF gmsh_mesh = sequence THEN gmsh_mesh ELSE sequence

\* One file per format of W, replacing a file of the same path.  A Gmsh file
\* opens with the cached mesh block; a ParaView collection registers the mesh
\* anew; a probe table is sampled where the probes were located.
WriteFiles(n, W, fields) ==
  LET stem == ArtifactName(n)
      Block(f) == CASE f = "gmsh" -> GmshBlock
                    [] f = "probes" -> CHOOSE m \in probes : TRUE
                    [] OTHER -> sequence
      written == {[format |-> f, id |-> stem.id, label |-> stem.label, name |-> n,
                   block |-> Block(f), fields |-> fields] : f \in W \ {"hdf5"}}
      Overwritten(g) == \E f \in written : /\ f.format = g.format
                                           /\ f.id = stem.id /\ g.id = stem.id
                                           /\ f.label = g.label
  IN files' = {g \in files : ~Overwritten(g)} \cup written

\* Hdf5ResultsWriter::WriteScenario: a group named by the identifier.
Archived(n, fields) ==
  {[a EXCEPT !.scenarios = Append(@, [id |-> next_scenario, name |-> n,
                                      fields |-> fields, probes |-> probes])] :
      a \in archive}

\* The formats are written in their order; an exception leaves a prefix of
\* them.  The scenario number is taken first.
WriteFormats(n, W, fields) ==
  /\ next_scenario' = next_scenario + 1
  /\ WriteFiles(n, W, fields)
  /\ gmsh_mesh' = IF "gmsh" \in W THEN GmshBlock ELSE gmsh_mesh
  /\ archive' = IF "hdf5" \in W THEN Archived(n, fields) ELSE archive

WriteScenario(n, fields) ==
  /\ writer = "pass"
  /\ IF wants_fields
     THEN WriteFormats(n, Enabled(Len(Formats)), fields)
     ELSE UNCHANGED <<next_scenario, gmsh_mesh, disk>>
  /\ UNCHANGED <<sequence, settings, writer, hdf5, probes>>

WriteFails(n, fields) ==
  /\ writer = "pass"
  /\ wants_fields
  /\ \E i \in DOMAIN Formats : /\ Formats[i] \in output
                                /\ WriteFormats(n, Enabled(i - 1), fields)
  /\ writer' = "failed"
  /\ UNCHANGED <<sequence, settings, hdf5, probes>>

\* A coupling analysis gets a /coupling group in the open archive, which
\* createGroup refuses to make twice.
CouplingGroup ==
  archive' = IF coupling /\ hdf5 THEN {[a EXCEPT !.coupling = TRUE] : a \in archive}
             ELSE archive

\* The results are saved and the writer is released.
SaveAnalysis ==
  /\ writer \in {"open", "pass"}
  /\ CouplingGroup
  /\ writer' = "closed"
  /\ hdf5' = FALSE
  /\ next_scenario' = 0 /\ probes' = {} /\ gmsh_mesh' = -1
  /\ UNCHANGED <<sequence, settings, files>>

\* A matrix is refused, or the file, after the group was made.
SaveAnalysisFails ==
  /\ writer \in {"open", "pass"}
  /\ coupling /\ hdf5
  /\ CouplingGroup
  /\ writer' = "failed"
  /\ UNCHANGED <<sequence, settings, next_scenario, hdf5, probes, gmsh_mesh, files>>

-----------------------------------------------------------------------------
(* The writer alone, under any client that begins a mesh before it writes    *)
(* scenarios of it.                                                        *)

WInit ==
  /\ sequence = 0
  /\ output \in SUBSET ToSet(Formats)
  /\ coupling \in BOOLEAN
  /\ wants_fields \in {w \in BOOLEAN : w => output # {}}
  /\ coupling \/ (wants_fields = (output # {}))
  /\ writer = "closed" /\ next_scenario = 0 /\ hdf5 = FALSE
  /\ probes = {} /\ gmsh_mesh = -1 /\ archive = {} /\ files = {}

\* The solver refines the mesh between passes.
Refined ==
  /\ writer = "pass"
  /\ sequence < MaxMesh
  /\ sequence' = sequence + 1
  /\ UNCHANGED <<settings, writer, next_scenario, hdf5, probes, gmsh_mesh, disk>>

\* The client's part: BeginMesh came after the last refinement.
Begun == probes = {sequence} /\ next_scenario < MaxScenarios

WNext ==
  \/ writer = "closed" /\ Construct
  \/ BeginMesh
  \/ BeginMeshFails
  \/ \E n \in Names : Begun /\ WriteScenario(n, sequence)
  \/ \E n \in Names : Begun /\ WriteFails(n, sequence)
  \/ SaveAnalysis
  \/ SaveAnalysisFails
  \/ Refined

WSpec == WInit /\ [][WNext]_wvars

-----------------------------------------------------------------------------
(* Properties.                                                             *)

Files == [format : ToSet(Formats) \ {"hdf5"}, id : 0..MaxScenarios,
          label : {Label[n] : n \in Names}, name : Names,
          block : 0..MaxMesh, fields : 0..MaxMesh]

\* The type of every variable.
WTypeOK ==
  /\ sequence \in 0..MaxMesh
  /\ output \subseteq ToSet(Formats) /\ wants_fields \in BOOLEAN /\ coupling \in BOOLEAN
  /\ writer \in {"closed", "open", "pass", "failed"}
  /\ next_scenario \in 0..MaxScenarios /\ hdf5 \in BOOLEAN
  /\ probes \subseteq 0..MaxMesh /\ gmsh_mesh \in -1..MaxMesh
  /\ files \subseteq Files
  /\ \A a \in archive : /\ a.mesh \in 0..MaxMesh /\ a.coupling \in BOOLEAN
                        /\ Len(a.scenarios) <= MaxScenarios

\* coupling_hdf5.md: every archived field references the archived mesh, and the
\* scenario groups are numbered from zero in solve order without collision.  At
\* every moment, also when a pass failed half-way, the archive holds scenarios
\* of one mesh only, sampled where the probes lie in that mesh.
ArchiveIsOneMesh ==
  \A a \in archive : \A i \in DOMAIN a.scenarios :
    LET s == a.scenarios[i]
    IN s.id = i - 1 /\ s.fields = a.mesh /\ s.probes = {a.mesh}

\* Every file pairs field data with the mesh block, or the probe locations, of
\* the same mesh, although the block is cached over the passes of a run.
FilesMatchTheirMesh == \A f \in files : f.block = f.fields

\* An archived scenario has its own file in every other format: no later
\* scenario of the pass, however alike their sanitized names, replaced it.
ArtifactsAreKept ==
  \A a \in archive : \A i \in DOMAIN a.scenarios :
    \A t \in output \ {"hdf5"} :
      \E f \in files : /\ f.format = t /\ f.id = i - 1
                       /\ f.name = a.scenarios[i].name /\ f.fields = a.mesh

\* An archive a live writer holds open has no coupling group yet, whatever the
\* order of Run, SaveAnalysis and mesh passes: saving never meets its own group.
CouplingGroupIsNew ==
  writer \in {"open", "pass"} /\ hdf5 => \A a \in archive : ~a.coupling

\* The archive on disk is whole whenever the writer lets go of it.
ArchiveHolds == WTypeOK /\ ArchiveIsOneMesh /\ CouplingGroupIsNew
=============================================================================
