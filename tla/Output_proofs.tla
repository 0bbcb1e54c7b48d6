------------------------------ MODULE Output_proofs ----------------------------
(***************************************************************************)
(* Proofs about what a run leaves behind.  ResultWriter, for every choice of    *)
(* formats, every number of scenarios and refinements, and labels that may      *)
(* well collide: the archive is of one mesh at every moment, and what is        *)
(* archived has its files.  Program, for every command line and whatever the    *)
(* solvers do and throw: what is reported of a run is true of it.               *)
(***************************************************************************)
EXTENDS ResultWriter, Program, Counting_proofs

-----------------------------------------------------------------------------
(* The archive: its invariants.                                             *)

Meshes == 0..MaxMesh
ArchivedScenarios == [id : Nat, name : Names, fields : Meshes, probes : SUBSET Meshes]
Archives == [mesh : Meshes, scenarios : Seq(ArchivedScenarios), coupling : BOOLEAN]

\* The archive is open while a pass of the writer goes on, and holds the scenarios the
\* pass has numbered; no other format has an archive.
ArchiveFollows ==
  /\ "hdf5" \notin output => archive = {}
  /\ writer \in {"closed", "open"} => ~hdf5
  /\ writer = "pass" /\ "hdf5" \in output =>
       /\ hdf5
       /\ \A a \in archive : /\ probes = {a.mesh} /\ ~a.coupling
                             /\ Len(a.scenarios) = next_scenario

WInv ==
  /\ WTypeOK /\ archive \subseteq Archives
  /\ ArchiveIsOneMesh /\ ArchiveFollows
  /\ FilesMatchTheirMesh /\ ArtifactsAreKept

-----------------------------------------------------------------------------
(* One scenario in some of the formats.                                    *)

\* The names of the formats.
LEMMA FormatNames ==
  /\ ToSet(Formats) = {"paraview", "gmsh", "probes", "hdf5"}
  /\ Len(Formats) = 4 /\ DOMAIN Formats = 1..4
  /\ output \subseteq ToSet(Formats) => Enabled(4) = output
  /\ \A i \in 1..4 : Enabled(i - 1) \subseteq output /\ "hdf5" \notin Enabled(i - 1)
<1>1. Len(Formats) = 4 /\ DOMAIN Formats = 1..4 /\ 1..4 = {1, 2, 3, 4}
  BY DEF Formats
<1>2. Formats[1] = "paraview" /\ Formats[2] = "gmsh" /\ Formats[3] = "probes"
      /\ Formats[4] = "hdf5"
  BY DEF Formats
<1>3. {Formats[i] : i \in 1..4} = {"paraview", "gmsh", "probes", "hdf5"}
  BY <1>1, <1>2
<1>4. \A i \in 1..4 : \A j \in 1..(i - 1) : Formats[j] # "hdf5"
  BY <1>2
<1>5. ToSet(Formats) = {Formats[i] : i \in 1..4}
  BY <1>1 DEF ToSet
<1> QED BY <1>1, <1>3, <1>4, <1>5 DEF Enabled

\* The file of a scenario in one format.
NewFile(n, f) ==
  [format |-> f, id |-> next_scenario, label |-> Label[n], name |-> n,
   block |-> sequence, fields |-> sequence]

\* The files of a scenario pair block and fields of the mesh of the moment; they replace
\* no file of another scenario number.
LEMMA WrittenFiles ==
  ASSUME Begun, NEW n \in Names, NEW W, WriteFiles(n, W, sequence)
  PROVE  /\ files' \subseteq files \cup {NewFile(n, f) : f \in W \ {"hdf5"}}
         /\ {NewFile(n, f) : f \in W \ {"hdf5"}} \subseteq files'
         /\ \A g \in files : g.id # next_scenario => g \in files'
<1> DEFINE stem == ArtifactName(n)
           Block(f) == CASE f = "gmsh" -> GmshBlock
                         [] f = "probes" -> CHOOSE m \in probes : TRUE
                         [] OTHER -> sequence
           F(f) == [format |-> f, id |-> stem.id, label |-> stem.label, name |-> n,
                    block |-> Block(f), fields |-> sequence]
           written == {F(f) : f \in W \ {"hdf5"}}
           Overwritten(g) == \E f \in written : /\ f.format = g.format
                                                /\ f.id = stem.id /\ g.id = stem.id
                                                /\ f.label = g.label
<1>1. files' = {g \in files : ~Overwritten(g)} \cup written
  BY DEF WriteFiles
<1>2. stem.id = next_scenario /\ stem.label = Label[n]
  BY DEF ArtifactName
<1>3. \A f : Block(f) = sequence
  <2>1. (CHOOSE m \in probes : TRUE) = sequence
    BY DEF Begun
  <2>2. GmshBlock = sequence
    BY DEF GmshBlock
  <2> QED BY <2>1, <2>2
<1> HIDE DEF stem, Block
<1>4. \A f : F(f) = NewFile(n, f)
  BY <1>2, <1>3 DEF NewFile
<1>5. \A g : Overwritten(g) => g.id = next_scenario
  BY <1>2
<1> HIDE DEF F, Overwritten
<1>6. written = {NewFile(n, f) : f \in W \ {"hdf5"}}
  BY <1>4
<1> HIDE DEF written
<1> QED BY <1>1, <1>5, <1>6

\* What writing keeps of the files, in however many formats.
LEMMA FilesKept ==
  ASSUME WInv, Begun, NEW n \in Names, NEW W, W \subseteq output, WriteFormats(n, W, sequence)
  PROVE  /\ next_scenario' = next_scenario + 1 /\ next_scenario' \in 0..MaxScenarios
         /\ gmsh_mesh' \in -1..MaxMesh
         /\ files' \subseteq Files
         /\ FilesMatchTheirMesh'
         /\ \A f \in W \ {"hdf5"} : NewFile(n, f) \in files'
         /\ \A g \in files : g.id # next_scenario => g \in files'
<1>1. /\ next_scenario \in 0..MaxScenarios /\ next_scenario < MaxScenarios
      /\ sequence \in 0..MaxMesh /\ MaxScenarios \in Nat /\ MaxMesh \in Nat
      /\ files \subseteq Files /\ output \subseteq ToSet(Formats) /\ gmsh_mesh \in -1..MaxMesh
  BY WriterBounds DEF WInv, WTypeOK, Begun
<1>2. next_scenario' = next_scenario + 1 /\ next_scenario' \in 0..MaxScenarios
  BY <1>1 DEF WriteFormats
<1>3. gmsh_mesh' \in -1..MaxMesh
  BY <1>1 DEF WriteFormats, GmshBlock
<1>4. /\ files' \subseteq files \cup {NewFile(n, f) : f \in W \ {"hdf5"}}
      /\ {NewFile(n, f) : f \in W \ {"hdf5"}} \subseteq files'
      /\ \A g \in files : g.id # next_scenario => g \in files'
  BY WrittenFiles DEF WriteFormats
<1>5. \A f \in W \ {"hdf5"} : NewFile(n, f) \in Files
  <2> TAKE f \in W \ {"hdf5"}
  <2>1. f \in ToSet(Formats) \ {"hdf5"} /\ Label[n] \in {Label[m] : m \in Names}
    BY <1>1
  <2> QED BY <1>1, <2>1 DEF NewFile, Files
<1>6. \A f : NewFile(n, f).block = NewFile(n, f).fields
  BY DEF NewFile
<1>7. files' \subseteq Files /\ FilesMatchTheirMesh'
  <2>1. \A g \in files : g.block = g.fields
    BY DEF WInv, FilesMatchTheirMesh
  <2> QED BY <1>1, <1>4, <1>5, <1>6, <2>1 DEF FilesMatchTheirMesh
<1> QED BY <1>2, <1>3, <1>4, <1>7

-----------------------------------------------------------------------------
(* The archive.                                                            *)

\* One more archived scenario.
LEMMA ArchivedGrows ==
  ASSUME NEW a \in Archives, NEW s \in ArchivedScenarios
  PROVE  LET b == [a EXCEPT !.scenarios = Append(@, s)]
             k == Len(a.scenarios)
         IN /\ b \in Archives /\ b.mesh = a.mesh /\ b.coupling = a.coupling
            /\ k \in Nat /\ Len(b.scenarios) = k + 1 /\ DOMAIN a.scenarios = 1..k
            /\ DOMAIN b.scenarios = 1..(k + 1) /\ b.scenarios[k + 1] = s
            /\ \A i \in 1..k : b.scenarios[i] = a.scenarios[i]
<1> DEFINE x == Append(a.scenarios, s)
           b == [a EXCEPT !.scenarios = x]
           k == Len(a.scenarios)
           S == ArchivedScenarios
<1> HIDE DEF S
<1>1. a \in [mesh : Meshes, scenarios : Seq(S), coupling : BOOLEAN] /\ s \in S
  BY DEF Archives, S
<1>2. a.scenarios \in Seq(S)
  BY <1>1
<1>3. /\ x \in Seq(S) /\ Len(x) = k + 1 /\ x[k + 1] = s
      /\ \A i \in 1..k : x[i] = a.scenarios[i]
  BY <1>1, <1>2, AppendProperties
<1>4. k \in Nat /\ DOMAIN a.scenarios = 1..k /\ DOMAIN x = 1..(k + 1)
  BY <1>2, <1>3, LenProperties
<1> HIDE DEF x
<1>5. b \in [mesh : Meshes, scenarios : Seq(S), coupling : BOOLEAN]
      /\ b.mesh = a.mesh /\ b.coupling = a.coupling /\ b.scenarios = x
  BY <1>1, <1>3
<1>6. b \in Archives
  BY <1>5 DEF Archives, S
<1> HIDE DEF k
<1> QED BY <1>3, <1>4, <1>5, <1>6 DEF k, x

\* A scenario is written in every enabled format, the archive last: it is numbered, sampled
\* and stored on the archived mesh, and its files are there.
LEMMA WriteScenarioInv ==
  ASSUME WInv, Begun, NEW n \in Names, WriteScenario(n, sequence) PROVE WInv'
<1>1. /\ writer = "pass" /\ writer' = "pass" /\ hdf5' = hdf5 /\ probes' = probes
      /\ sequence' = sequence /\ output' = output /\ wants_fields' = wants_fields
      /\ coupling' = coupling
  BY DEF WriteScenario, settings
<1>2. CASE ~wants_fields
  <2>1. UNCHANGED wvars
    BY <1>1, <1>2 DEF WriteScenario, wvars
  <2> QED
    BY <2>1
    DEF wvars, settings, disk, WInv, WTypeOK, ArchiveIsOneMesh, ArchiveFollows,
        FilesMatchTheirMesh, ArtifactsAreKept
<1>3. CASE wants_fields
  <2> DEFINE s == [id |-> next_scenario, name |-> n, fields |-> sequence, probes |-> probes]
             grown(a) == [a EXCEPT !.scenarios = Append(@, s)]
             T == output \ {"hdf5"}
  <2>1. WriteFormats(n, output, sequence)
    BY <1>3, FormatNames DEF WriteScenario, WInv, WTypeOK
  <2>2. /\ next_scenario' = next_scenario + 1 /\ next_scenario' \in 0..MaxScenarios
        /\ gmsh_mesh' \in -1..MaxMesh /\ files' \subseteq Files /\ FilesMatchTheirMesh'
        /\ \A f \in T : NewFile(n, f) \in files'
        /\ \A g \in files : g.id # next_scenario => g \in files'
    BY <2>1, FilesKept
  <2>3. /\ sequence \in Meshes /\ probes = {sequence} /\ next_scenario \in Nat
        /\ archive \subseteq Archives
    BY DEF WInv, WTypeOK, Begun, Meshes
  <2>4. s \in ArchivedScenarios /\ s.id = next_scenario /\ s.name = n
        /\ s.fields = sequence /\ s.probes = {sequence}
    BY <2>3 DEF ArchivedScenarios
  <2>5. archive' \subseteq {grown(a) : a \in archive} /\ ("hdf5" \notin output => archive = {})
    BY <2>1 DEF WriteFormats, Archived, WInv, ArchiveFollows
  <2> HIDE DEF s
  <2>6. ASSUME NEW a \in archive
        PROVE  LET b == grown(a)
                   k == next_scenario
               IN /\ b \in Archives /\ b.mesh = a.mesh /\ ~b.coupling /\ a.mesh = sequence
                  /\ k \in Nat /\ Len(a.scenarios) = k /\ Len(b.scenarios) = k + 1
                  /\ DOMAIN a.scenarios = 1..k
                  /\ DOMAIN b.scenarios = 1..(k + 1) /\ b.scenarios[k + 1] = s
                  /\ \A i \in 1..k : b.scenarios[i] = a.scenarios[i]
    <3>1. "hdf5" \in output /\ probes = {a.mesh} /\ ~a.coupling /\ Len(a.scenarios) = next_scenario
      BY <1>1, <2>5 DEF WInv, ArchiveFollows
    <3>2. a \in Archives
      BY <2>3
    <3>3. a.mesh = sequence
      BY <2>3, <3>1
    <3> QED BY <2>3, <2>4, <3>1, <3>2, <3>3, ArchivedGrows
  <2>7. \A b \in archive' : \E a \in archive : b = grown(a)
    BY <2>5
  <2> HIDE DEF grown
  <2>8. archive' \subseteq Archives
    BY <2>6, <2>7
  <2>9. \A b \in archive' : /\ b.mesh = sequence /\ ~b.coupling
                            /\ Len(b.scenarios) = next_scenario'
    BY <2>2, <2>6, <2>7
  <2>10. WTypeOK'
    <3>1. \A b \in archive' : /\ b.mesh \in 0..MaxMesh /\ b.coupling \in BOOLEAN
                              /\ Len(b.scenarios) <= MaxScenarios
      <4>1. \A b \in Archives : b.coupling \in BOOLEAN
        BY DEF Archives
      <4> QED BY <2>2, <2>3, <2>8, <2>9, <4>1, WriterBounds DEF Meshes
    <3>2. WTypeOK
      BY DEF WInv
    <3> HIDE DEF T
    <3> QED BY <1>1, <2>2, <3>1, <3>2 DEF WTypeOK
  <2>11. ArchiveIsOneMesh'
    <3> SUFFICES ASSUME NEW b \in archive', NEW i \in DOMAIN b.scenarios
                 PROVE  /\ b.scenarios[i].id = i - 1 /\ b.scenarios[i].fields = b.mesh
                        /\ b.scenarios[i].probes = {b.mesh}
      BY DEF ArchiveIsOneMesh
    <3>1. PICK a \in archive : b = grown(a)
      BY <2>7
    <3>2. CASE i = next_scenario + 1
      BY <2>3, <2>4, <2>6, <3>1, <3>2
    <3>3. CASE i # next_scenario + 1
      <4>1. i \in DOMAIN a.scenarios /\ b.scenarios[i] = a.scenarios[i] /\ b.mesh = a.mesh
        BY <2>6, <3>1, <3>3
      <4>2. ArchiveIsOneMesh
        BY DEF WInv
      <4> QED BY <4>1, <4>2 DEF ArchiveIsOneMesh
    <3> QED BY <3>2, <3>3
  <2>12. ArchiveFollows'
    <3>1. "hdf5" \notin output => archive' = {}
      BY <2>5
    <3>2. "hdf5" \in output => hdf5
      BY <1>1 DEF WInv, ArchiveFollows
    <3> QED BY <1>1, <2>3, <2>9, <3>1, <3>2 DEF ArchiveFollows
  <2>13. ArtifactsAreKept'
    <3> SUFFICES ASSUME NEW b \in archive', NEW i \in DOMAIN b.scenarios, NEW t \in T
                 PROVE  \E f \in files' : /\ f.format = t /\ f.id = i - 1
                                          /\ f.name = b.scenarios[i].name /\ f.fields = b.mesh
      BY <1>1 DEF ArtifactsAreKept
    <3>1. PICK a \in archive : b = grown(a)
      BY <2>7
    <3>2. CASE i = next_scenario + 1
      <4>1. NewFile(n, t) \in files'
        BY <2>2
      <4>2. /\ NewFile(n, t).format = t /\ NewFile(n, t).id = next_scenario
            /\ NewFile(n, t).name = n /\ NewFile(n, t).fields = sequence
        BY DEF NewFile
      <4>3. b.scenarios[i].name = n /\ b.mesh = sequence /\ i - 1 = next_scenario
        <5>1. b.scenarios[i] = s /\ b.mesh = sequence
          BY <2>6, <3>1, <3>2
        <5>2. i - 1 = next_scenario
          BY <2>3, <3>2
        <5> QED BY <2>4, <5>1, <5>2
      <4> QED BY <4>1, <4>2, <4>3
    <3>3. CASE i # next_scenario + 1
      <4>1. /\ i \in DOMAIN a.scenarios /\ b.scenarios[i] = a.scenarios[i] /\ b.mesh = a.mesh
            /\ i - 1 # next_scenario
        <5>1. /\ next_scenario \in Nat /\ b.mesh = a.mesh /\ DOMAIN a.scenarios = 1..next_scenario
              /\ DOMAIN b.scenarios = 1..(next_scenario + 1)
              /\ \A j \in 1..next_scenario : b.scenarios[j] = a.scenarios[j]
          BY <2>6, <3>1
        <5>2. i \in 1..next_scenario /\ i - 1 # next_scenario
          BY <3>3, <5>1
        <5> QED BY <5>1, <5>2
      <4>2. PICK f \in files : /\ f.format = t /\ f.id = i - 1
                               /\ f.name = a.scenarios[i].name /\ f.fields = a.mesh
        BY <4>1 DEF WInv, ArtifactsAreKept
      <4>3. f \in files'
        BY <2>2, <4>1, <4>2
      <4> QED BY <4>1, <4>2, <4>3
    <3> QED BY <3>2, <3>3
  <2> QED BY <2>2, <2>8, <2>10, <2>11, <2>12, <2>13 DEF WInv
<1> QED BY <1>2, <1>3 DEF WInv, WTypeOK

\* A write that fails leaves the archive as it was, and none of the files it may have
\* written replaces one of an archived scenario.
LEMMA WriteFailsInv ==
  ASSUME WInv, Begun, NEW n \in Names, WriteFails(n, sequence) PROVE WInv'
<1>1. /\ writer = "pass" /\ writer' = "failed" /\ hdf5' = hdf5 /\ probes' = probes
      /\ sequence' = sequence /\ output' = output /\ wants_fields' = wants_fields
      /\ coupling' = coupling
  BY DEF WriteFails, settings
<1>2. PICK i \in DOMAIN Formats : WriteFormats(n, Enabled(i - 1), sequence)
  BY DEF WriteFails
<1>3. Enabled(i - 1) \subseteq output /\ "hdf5" \notin Enabled(i - 1)
  BY FormatNames
<1>4. /\ next_scenario' \in 0..MaxScenarios /\ gmsh_mesh' \in -1..MaxMesh
      /\ files' \subseteq Files /\ FilesMatchTheirMesh'
      /\ \A g \in files : g.id # next_scenario => g \in files'
  BY <1>2, <1>3, FilesKept
<1>5. archive' = archive
  BY <1>2, <1>3 DEF WriteFormats
<1>6. WTypeOK' /\ archive' \subseteq Archives
  BY <1>1, <1>4, <1>5 DEF WInv, WTypeOK
<1>7. ArchiveIsOneMesh' /\ ArchiveFollows'
  BY <1>1, <1>5 DEF WInv, ArchiveIsOneMesh, ArchiveFollows
<1>8. ArtifactsAreKept'
  <2> SUFFICES ASSUME NEW a \in archive, NEW k \in DOMAIN a.scenarios,
                      NEW t \in output \ {"hdf5"}
               PROVE  \E f \in files' : /\ f.format = t /\ f.id = k - 1
                                        /\ f.name = a.scenarios[k].name /\ f.fields = a.mesh
    BY <1>1, <1>5 DEF ArtifactsAreKept
  <2>1. /\ a \in Archives /\ Len(a.scenarios) = next_scenario
    BY <1>1 DEF WInv, ArchiveFollows
  <2>2. DOMAIN a.scenarios = 1..next_scenario /\ next_scenario \in Nat
    <3> DEFINE S == ArchivedScenarios
    <3> HIDE DEF S
    <3>1. a.scenarios \in Seq(S)
      BY <2>1 DEF Archives, S
    <3> QED BY <2>1, <3>1, LenProperties
  <2>3. k - 1 # next_scenario
    BY <2>2
  <2>4. PICK f \in files : /\ f.format = t /\ f.id = k - 1
                           /\ f.name = a.scenarios[k].name /\ f.fields = a.mesh
    BY DEF WInv, ArtifactsAreKept
  <2> QED BY <1>4, <2>3, <2>4
<1> QED BY <1>4, <1>6, <1>7, <1>8 DEF WInv

-----------------------------------------------------------------------------
(* The other operations.                                                   *)

\* A truncated archive holds no scenario of the mesh before.
LEMMA BeginInv ==
  ASSUME WInv, BeginMesh \/ BeginMeshFails PROVE WInv'
<1>1. /\ TruncateArchive /\ next_scenario' = 0 /\ hdf5' = ("hdf5" \in output)
      /\ sequence' = sequence /\ output' = output /\ wants_fields' = wants_fields
      /\ coupling' = coupling /\ gmsh_mesh' = gmsh_mesh /\ files' = files
      /\ (writer' = "pass" /\ probes' = {sequence}) \/ (writer' = "failed" /\ probes' = probes)
  BY DEF BeginMesh, BeginMeshFails, RestartNumbering, settings
<1> DEFINE fresh == [mesh |-> sequence, scenarios |-> <<>>, coupling |-> FALSE]
<1>2. sequence \in 0..MaxMesh /\ WTypeOK /\ MaxScenarios \in Nat
  BY WriterBounds DEF WInv, WTypeOK
<1>3. /\ fresh \in Archives /\ fresh.mesh = sequence /\ ~fresh.coupling
      /\ Len(fresh.scenarios) = 0 /\ DOMAIN fresh.scenarios = {}
  <2>1. <<>> \in Seq(ArchivedScenarios) /\ Len(<<>>) = 0 /\ DOMAIN <<>> = {}
    BY EmptySeq
  <2> QED BY <1>2, <2>1 DEF Archives, Meshes
<1> HIDE DEF fresh
<1>4. archive' = IF "hdf5" \in output THEN {fresh} ELSE {}
  BY <1>1 DEF TruncateArchive, fresh, WInv, ArchiveFollows
<1>5. archive' \subseteq Archives
  BY <1>3, <1>4
<1>6. \A a \in archive' : a = fresh
  BY <1>4
<1>7. WTypeOK'
  <2>1. hdf5' \in BOOLEAN
    BY <1>1
  <2>2. \A a \in archive' : /\ a.mesh \in 0..MaxMesh /\ a.coupling \in BOOLEAN
                            /\ Len(a.scenarios) <= MaxScenarios
    <3>1. \A a \in Archives : a.coupling \in BOOLEAN
      BY DEF Archives
    <3> QED BY <1>2, <1>3, <1>5, <1>6, <3>1
  <2>3. writer' \in {"closed", "open", "pass", "failed"} /\ probes' \subseteq 0..MaxMesh
    BY <1>1, <1>2 DEF WTypeOK
  <2>4. next_scenario' \in 0..MaxScenarios
    BY <1>1, <1>2
  <2> QED BY <1>1, <1>2, <2>1, <2>2, <2>3, <2>4 DEF WTypeOK
<1>8. ArchiveIsOneMesh' /\ ArtifactsAreKept'
  BY <1>3, <1>6 DEF ArchiveIsOneMesh, ArtifactsAreKept
<1>9. ArchiveFollows'
  BY <1>1, <1>3, <1>4, <1>6 DEF ArchiveFollows
<1>10. FilesMatchTheirMesh'
  BY <1>1 DEF WInv, FilesMatchTheirMesh
<1> QED BY <1>5, <1>7, <1>8, <1>9, <1>10 DEF WInv

\* A writer just constructed has begun no mesh, and no scenario.
LEMMA FreshWriter ==
  -1 \in -1..MaxMesh /\ 0 \in 0..MaxScenarios /\ {} \subseteq 0..MaxMesh
BY WriterBounds

\* The group of a coupling analysis is all that saving changes in the archive.
LEMMA SaveInv ==
  ASSUME WInv, SaveAnalysis \/ SaveAnalysisFails PROVE WInv'
<1>1. /\ CouplingGroup /\ writer' \in {"closed", "failed"} /\ files' = files
      /\ writer' = "closed" => hdf5' = FALSE
      /\ hdf5' \in {FALSE, hdf5} /\ next_scenario' \in {0, next_scenario}
      /\ probes' \in {{}, probes} /\ gmsh_mesh' \in {-1, gmsh_mesh}
      /\ sequence' = sequence /\ output' = output /\ wants_fields' = wants_fields
      /\ coupling' = coupling
  BY DEF SaveAnalysis, SaveAnalysisFails, settings
<1>2. ASSUME NEW a \in Archives
      PROVE  LET b == [a EXCEPT !.coupling = TRUE]
             IN b \in Archives /\ b.mesh = a.mesh /\ b.scenarios = a.scenarios
  <2> DEFINE S == Seq(ArchivedScenarios)
             yes == TRUE
             b == [a EXCEPT !.coupling = yes]
  <2>1. a \in [mesh : Meshes, scenarios : S, coupling : BOOLEAN] /\ yes \in BOOLEAN
    BY DEF Archives
  <2> HIDE DEF S, yes
  <2>2. /\ b \in [mesh : Meshes, scenarios : S, coupling : BOOLEAN]
        /\ b.mesh = a.mesh /\ b.scenarios = a.scenarios
    BY <2>1
  <2> QED BY <2>2 DEF S, yes, Archives
<1>3. \A b \in archive' : /\ b \in Archives
                          /\ \E a \in archive : b.mesh = a.mesh /\ b.scenarios = a.scenarios
  <2>1. archive \subseteq Archives
    BY DEF WInv
  <2> DEFINE grouped(a) == [a EXCEPT !.coupling = TRUE]
  <2>2. archive' = archive \/ archive' = {grouped(a) : a \in archive}
    BY <1>1 DEF CouplingGroup
  <2>3. \A a \in Archives : /\ grouped(a) \in Archives /\ grouped(a).mesh = a.mesh
                            /\ grouped(a).scenarios = a.scenarios
    BY <1>2, Zenon
  <2> HIDE DEF grouped
  <2> QED BY <2>1, <2>2, <2>3
<1>4. WTypeOK'
  <2>1. \A b \in archive' : /\ b.mesh \in 0..MaxMesh /\ b.coupling \in BOOLEAN
                            /\ Len(b.scenarios) <= MaxScenarios
    <3>1. \A b \in Archives : b.coupling \in BOOLEAN
      BY DEF Archives
    <3> QED BY <1>3, <3>1 DEF WInv, WTypeOK
  <2>2. WTypeOK /\ MaxScenarios \in Nat /\ MaxMesh \in Nat
    BY WriterBounds DEF WInv
  <2>3. hdf5' \in BOOLEAN
    <3>1. hdf5 \in BOOLEAN
      BY <2>2 DEF WTypeOK
    <3> QED BY <1>1, <3>1, Zenon
  <2>4. /\ probes' \subseteq 0..MaxMesh
        /\ writer' \in {"closed", "open", "pass", "failed"}
    <3>1. probes \subseteq 0..MaxMesh
      BY <2>2 DEF WTypeOK
    <3> QED BY <1>1, <3>1
  <2>5. gmsh_mesh' \in -1..MaxMesh /\ next_scenario' \in 0..MaxScenarios
    <3>1. gmsh_mesh \in -1..MaxMesh /\ next_scenario \in 0..MaxScenarios
      BY <2>2 DEF WTypeOK
    <3> QED BY <1>1, <2>2, <3>1, FreshWriter
  <2> QED BY <1>1, <2>1, <2>2, <2>3, <2>4, <2>5 DEF WTypeOK
<1>5. ArchiveIsOneMesh' /\ ArtifactsAreKept'
  BY <1>1, <1>3 DEF WInv, ArchiveIsOneMesh, ArtifactsAreKept
<1>6. ArchiveFollows'
  <2>1. "hdf5" \notin output => archive' = {}
    BY <1>3 DEF WInv, ArchiveFollows
  <2> QED BY <1>1, <2>1 DEF ArchiveFollows
<1>7. FilesMatchTheirMesh'
  BY <1>1 DEF WInv, FilesMatchTheirMesh
<1> QED BY <1>3, <1>4, <1>5, <1>6, <1>7 DEF WInv

LEMMA WInitInv == WInit => WInv
<1> SUFFICES ASSUME WInit PROVE WInv
  OBVIOUS
<1>1. archive = {} /\ files = {} /\ writer = "closed" /\ hdf5 = FALSE
  BY DEF WInit
<1>2. WTypeOK
  <2>1. /\ next_scenario \in 0..MaxScenarios /\ hdf5 \in BOOLEAN
        /\ probes \subseteq 0..MaxMesh /\ gmsh_mesh \in -1..MaxMesh
        /\ files \subseteq Files /\ archive = {}
        /\ writer \in {"closed", "open", "pass", "failed"}
    BY FreshWriter DEF WInit
  <2>2. /\ sequence \in 0..MaxMesh /\ output \subseteq ToSet(Formats)
        /\ coupling \in BOOLEAN /\ wants_fields \in BOOLEAN
    BY WriterBounds DEF WInit
  <2> QED BY <2>1, <2>2 DEF WTypeOK
<1> QED
  BY <1>1, <1>2
  DEF WInv, ArchiveIsOneMesh, ArchiveFollows, FilesMatchTheirMesh, ArtifactsAreKept

LEMMA WNextInv == WInv /\ [WNext]_wvars => WInv'
<1> SUFFICES ASSUME WInv, [WNext]_wvars PROVE WInv'
  OBVIOUS
<1>1. ASSUME Construct PROVE WInv'
  <2>1. WTypeOK'
    <3>1. /\ next_scenario' \in 0..MaxScenarios /\ hdf5' \in BOOLEAN
          /\ probes' \subseteq 0..MaxMesh /\ gmsh_mesh' \in -1..MaxMesh
          /\ writer' \in {"closed", "open", "pass", "failed"}
      BY <1>1, FreshWriter DEF Construct
    <3>2. UNCHANGED <<sequence, output, wants_fields, coupling, archive, files>>
      BY <1>1 DEF Construct, settings, disk
    <3>3. WTypeOK
      BY DEF WInv
    <3> QED BY <3>1, <3>2, <3>3 DEF WTypeOK
  <2>2. archive' = archive /\ files' = files /\ writer' = "open" /\ hdf5' = FALSE
        /\ output' = output
    BY <1>1 DEF Construct, settings, disk
  <2> QED
    BY <2>1, <2>2
    DEF WInv, ArchiveIsOneMesh, ArchiveFollows, FilesMatchTheirMesh, ArtifactsAreKept
<1>2. CASE Refined
  <2>1. WTypeOK'
    BY <1>2, WriterBounds DEF WInv, WTypeOK, Refined, settings, disk
  <2>2. UNCHANGED <<output, writer, next_scenario, hdf5, probes, archive, files>>
    BY <1>2 DEF Refined, settings, disk
  <2> QED
    BY <2>1, <2>2
    DEF WInv, ArchiveIsOneMesh, ArchiveFollows, FilesMatchTheirMesh, ArtifactsAreKept
<1>3. CASE UNCHANGED wvars
  BY <1>3
  DEF wvars, settings, disk, WInv, WTypeOK, ArchiveIsOneMesh, ArchiveFollows,
      FilesMatchTheirMesh, ArtifactsAreKept
<1>4. CASE \E n \in Names : Begun /\ WriteScenario(n, sequence)
  BY <1>4, WriteScenarioInv
<1>5. CASE \E n \in Names : Begun /\ WriteFails(n, sequence)
  BY <1>5, WriteFailsInv
<1> QED BY <1>1, <1>2, <1>3, <1>4, <1>5, BeginInv, SaveInv DEF WNext

\* Whatever its client does, short of writing on a mesh it has not begun, the writer
\* keeps the invariant.
THEOREM WriterInvariance == WSpec => []WInv
BY WInitInv, WNextInv, PTL DEF WSpec

-----------------------------------------------------------------------------
\* At every moment, also when a pass has failed half-way, the archive holds scenarios of
\* one mesh, numbered from zero in solve order and sampled on that mesh; and saving never
\* meets a coupling group of its own.
THEOREM ArchiveIsWhole == WSpec => []ArchiveHolds
<1>1. WInv => ArchiveHolds
  BY DEF WInv, ArchiveHolds, ArchiveFollows, CouplingGroupIsNew, WTypeOK
<1> QED BY <1>1, WriterInvariance, PTL

\* No file pairs field data with the mesh block, or the probe locations, of another mesh,
\* although the block is cached over the passes of a run.
THEOREM FilesMatch == WSpec => []FilesMatchTheirMesh
<1>1. WInv => FilesMatchTheirMesh
  BY DEF WInv
<1> QED BY <1>1, WriterInvariance, PTL

\* However alike the sanitized names, and wherever a write fails, an archived scenario
\* keeps its own file in every other format.
THEOREM ArtifactsKept == WSpec => []ArtifactsAreKept
<1>1. WInv => ArtifactsAreKept
  BY DEF WInv
<1> QED BY <1>1, WriterInvariance, PTL


-----------------------------------------------------------------------------
(* The status of a run: what the recursive definitions are, step by step.   *)

\* Reading the events, one at a time.
LEMMA OpenStep ==
  ASSUME NEW read
  PROVE  /\ OpenAfter(read, 0) = <<>>
         /\ \A n \in Nat :
              /\ \E T : OpenAfter(read, n) \in Seq(T)
              /\ OpenAfter(read, n + 1) = ReadEvent(OpenAfter(read, n), read[n + 1])
<1> DEFINE T == {read[k].name : k \in Nat} \cup {"?"}
           V == Seq(T)
           G == [n \in Nat |-> [s \in V |-> ReadEvent(s, read[n + 1])]]
           P(f) == [k \in Nat |-> IF k = 0 THEN <<>> ELSE ReadEvent(f[k - 1], read[k])]
           p == CHOOSE f : f = P(f)
<1>1. G \in [Nat -> [V -> V]] /\ <<>> \in V
  <2>1. ASSUME NEW n \in Nat, NEW s \in V PROVE ReadEvent(s, read[n + 1]) \in V
    <3>1. read[n + 1].name \in T /\ "?" \in T
      <4>1. n + 1 \in Nat
        OBVIOUS
      <4> QED
        BY <4>1
    <3> HIDE DEF T
    <3>2. Append(s, read[n + 1].name) \in V /\ <<"?">> \in V
      BY <3>1
    <3>3. s # <<>> => SubSeq(s, 1, Len(s) - 1) \in V
      BY SubSeqProperties
    <3> QED
      BY <2>1, <3>2, <3>3, Zenon DEF ReadEvent
  <2> HIDE DEF T
  <2>2. <<>> \in V
    OBVIOUS
  <2> QED
    BY <2>1, <2>2
<1> HIDE DEF V
<1>2. PICK f \in [Nat -> V] : RunsOn(f, <<>>, G)
  <2> HIDE DEF G
  <2> QED
    BY <1>1, Recursion
<1>3. /\ f[0] = <<>>
      /\ \A n \in Nat : f[n + 1] = ReadEvent(f[n], read[n + 1])
  <2>1. \A n \in Nat : G[n][f[n]] = ReadEvent(f[n], read[n + 1])
    BY <1>2
  <2> HIDE DEF G
  <2> QED
    BY <1>2, <2>1 DEF RunsOn
<1>4. f = P(f)
  <2>1. ASSUME NEW k \in Nat PROVE f[k] = IF k = 0 THEN <<>> ELSE ReadEvent(f[k - 1], read[k])
    <3>1. CASE k = 0
      BY <1>3, <3>1
    <3>2. CASE k # 0
      <4>1. k - 1 \in Nat /\ (k - 1) + 1 = k
        BY <3>2
      <4>2. f[(k - 1) + 1] = ReadEvent(f[k - 1], read[(k - 1) + 1])
        BY <1>3, <4>1
      <4> QED
        BY <3>2, <4>1, <4>2, Zenon
    <3> QED
      BY <3>1, <3>2
  <2> QED
    BY <1>2, <2>1
<1>5. p = P(p)
  BY <1>4, Zenon
<1>6. \A n : OpenAfter(read, n) = p[n]
  BY Zenon DEF OpenAfter
<1> HIDE DEF p
<1>7. p[0] = <<>>
  BY <1>5
<1>8. ASSUME NEW n \in Nat PROVE p[n + 1] = ReadEvent(p[n], read[n + 1])
  <2>1. n + 1 \in Nat /\ n + 1 # 0 /\ (n + 1) - 1 = n
    OBVIOUS
  <2>2. p[n + 1] = IF n + 1 = 0 THEN <<>> ELSE ReadEvent(p[(n + 1) - 1], read[n + 1])
    BY <1>5, <2>1
  <2> QED
    BY <2>1, <2>2, Zenon
<1>9. \A n \in Nat : p[n] \in V
  <2> DEFINE S == {n \in Nat : p[n] \in V}
  <2>1. 0 \in S
    BY <1>1, <1>7
  <2>2. ASSUME NEW n \in Nat, n \in S PROVE n + 1 \in S
    <3>1. G[n][p[n]] \in V /\ G[n][p[n]] = p[n + 1]
      BY <1>1, <1>8, <2>2
    <3> QED
      BY <3>1
  <2> HIDE DEF S
  <2>3. Nat \subseteq S
    BY <2>1, <2>2, Induction
  <2> QED
    BY <2>3 DEF S
<1> QED
  BY <1>6, <1>7, <1>8, <1>9, Zenon DEF V

\* What was read before does not depend on what comes after.
LEMMA OpenSame ==
  ASSUME NEW r, NEW s, NEW m \in Nat, \A k \in 1..m : r[k] = s[k]
  PROVE  \A n \in 0..m : OpenAfter(r, n) = OpenAfter(s, n)
<1> DEFINE S == {n \in Nat : n <= m => OpenAfter(r, n) = OpenAfter(s, n)}
<1>1. 0 \in S
  BY OpenStep
<1>2. ASSUME NEW n \in Nat, n \in S PROVE n + 1 \in S
  <2> SUFFICES ASSUME n + 1 <= m PROVE OpenAfter(r, n + 1) = OpenAfter(s, n + 1)
    OBVIOUS
  <2>1. OpenAfter(r, n) = OpenAfter(s, n) /\ r[n + 1] = s[n + 1]
    BY <1>2
  <2> QED
    BY <2>1, OpenStep
<1> HIDE DEF S
<1>3. Nat \subseteq S
  BY <1>1, <1>2, Induction
<1> QED
  BY <1>3 DEF S

\* Listing names, one at a time.
LEMMA NamesUpToStep ==
  ASSUME NEW name, NEW M
  PROVE  /\ NamesUpTo(name, M, 0) = <<>>
         /\ \A n \in Nat :
              NamesUpTo(name, M, n + 1) =
                IF n + 1 \in M THEN Append(NamesUpTo(name, M, n), name[n + 1])
                ELSE NamesUpTo(name, M, n)
<1> DEFINE T == {name[k] : k \in Nat}
           V == Seq(T)
           G == [n \in Nat |-> [s \in V |-> IF n + 1 \in M THEN Append(s, name[n + 1]) ELSE s]]
           P(f) == [k \in Nat |-> IF k = 0 THEN <<>>
                                  ELSE IF k \in M THEN Append(f[k - 1], name[k]) ELSE f[k - 1]]
           p == CHOOSE f : f = P(f)
<1>1. G \in [Nat -> [V -> V]] /\ <<>> \in V
  <2>1. ASSUME NEW n \in Nat, NEW s \in V
        PROVE  (IF n + 1 \in M THEN Append(s, name[n + 1]) ELSE s) \in V
    <3>1. name[n + 1] \in T
      <4>1. n + 1 \in Nat
        OBVIOUS
      <4> QED
        BY <4>1
    <3> HIDE DEF T
    <3> QED
      BY <3>1
  <2> HIDE DEF T
  <2>2. <<>> \in V
    OBVIOUS
  <2> QED
    BY <2>1, <2>2
<1> HIDE DEF V
<1>2. PICK f \in [Nat -> V] : RunsOn(f, <<>>, G)
  <2> HIDE DEF G
  <2> QED
    BY <1>1, Recursion
<1>3. /\ f[0] = <<>>
      /\ \A n \in Nat : f[n + 1] = IF n + 1 \in M THEN Append(f[n], name[n + 1]) ELSE f[n]
  <2>1. \A n \in Nat : G[n][f[n]] = IF n + 1 \in M THEN Append(f[n], name[n + 1]) ELSE f[n]
    BY <1>2
  <2> HIDE DEF G
  <2> QED
    BY <1>2, <2>1 DEF RunsOn
<1>4. f = P(f)
  <2>1. ASSUME NEW k \in Nat PROVE f[k] = P(f)[k]
    <3>1. CASE k = 0
      BY <1>3, <3>1
    <3>2. CASE k # 0
      <4>1. k - 1 \in Nat /\ (k - 1) + 1 = k
        BY <3>2
      <4> QED
        BY <1>3, <3>2, <4>1
    <3> QED
      BY <3>1, <3>2
  <2> QED
    BY <1>2, <2>1
<1>5. p = P(p)
  BY <1>4, Zenon
<1>6. \A n : NamesUpTo(name, M, n) = p[n]
  BY Zenon DEF NamesUpTo
<1> HIDE DEF p
<1>7. p[0] = <<>>
  BY <1>5
<1>8. ASSUME NEW n \in Nat
      PROVE  p[n + 1] = IF n + 1 \in M THEN Append(p[n], name[n + 1]) ELSE p[n]
  <2>1. n + 1 \in Nat /\ n + 1 # 0 /\ (n + 1) - 1 = n
    OBVIOUS
  <2>2. p[n + 1] = P(p)[n + 1]
    BY <1>5
  <2> QED
    BY <2>1, <2>2
<1> QED
  BY <1>6, <1>7, <1>8, Zenon

\* The same, to be used of any names, choice and number at once.
LEMMA NamesUpToOneMore ==
  \A name, M : \A n \in Nat :
    NamesUpTo(name, M, n + 1) =
      IF n + 1 \in M THEN Append(NamesUpTo(name, M, n), name[n + 1]) ELSE NamesUpTo(name, M, n)
BY NamesUpToStep

\* What is listed depends on the names and the choice so far.
LEMMA NamesUpToAlike ==
  \A r, s, M, L : \A m \in Nat :
    (\A k \in 1..m : r[k] = s[k] /\ (k \in M <=> k \in L))
      => NamesUpTo(r, M, m) = NamesUpTo(s, L, m)
<1> SUFFICES ASSUME NEW r, NEW s, NEW M, NEW L, NEW m \in Nat,
                    \A k \in 1..m : r[k] = s[k] /\ (k \in M <=> k \in L)
             PROVE  NamesUpTo(r, M, m) = NamesUpTo(s, L, m)
  BY Zenon
<1> DEFINE S == {n \in Nat : n <= m => NamesUpTo(r, M, n) = NamesUpTo(s, L, n)}
<1>1. 0 \in S
  BY NamesUpToStep
<1>2. ASSUME NEW n \in Nat, n \in S PROVE n + 1 \in S
  <2> SUFFICES ASSUME n + 1 <= m PROVE NamesUpTo(r, M, n + 1) = NamesUpTo(s, L, n + 1)
    OBVIOUS
  <2>1. /\ NamesUpTo(r, M, n) = NamesUpTo(s, L, n) /\ r[n + 1] = s[n + 1]
        /\ n + 1 \in M <=> n + 1 \in L
    BY <1>2
  <2>2. /\ NamesUpTo(r, M, n + 1) = IF n + 1 \in M THEN Append(NamesUpTo(r, M, n), r[n + 1])
                                    ELSE NamesUpTo(r, M, n)
        /\ NamesUpTo(s, L, n + 1) = IF n + 1 \in L THEN Append(NamesUpTo(s, L, n), s[n + 1])
                                    ELSE NamesUpTo(s, L, n)
    BY NamesUpToStep, Zenon
  <2> QED
    BY <2>1, <2>2
<1> HIDE DEF S
<1>3. Nat \subseteq S
  BY <1>1, <1>2, Induction
<1> QED
  BY <1>3 DEF S

\* Reading the command line, one argument at a time.
LEMMA IsReadStep ==
  ASSUME NEW list
  PROVE  /\ IsRead(list, 1)
         /\ \A n \in Nat \ {0} :
              IsRead(list, n + 1) <=>
                ~(IsRead(list, n) /\ list[n] \in {"--output-directory", "--verbosity"})
<1> DEFINE Takes(n) == list[n] \in {"--output-directory", "--verbosity"}
           G == [n \in Nat |-> [b \in BOOLEAN |-> IF n = 0 THEN TRUE ELSE ~(b /\ Takes(n))]]
           P(f) == [k \in Nat |-> IF k <= 1 THEN TRUE ELSE ~(f[k - 1] /\ Takes(k - 1))]
           p == CHOOSE f : f = P(f)
<1>1. G \in [Nat -> [BOOLEAN -> BOOLEAN]]
  OBVIOUS
<1>2. PICK f \in [Nat -> BOOLEAN] : RunsOn(f, TRUE, G)
  <2> HIDE DEF G
  <2> QED
    BY <1>1, Recursion
<1>3. f[0] = TRUE /\ \A n \in Nat : f[n + 1] = IF n = 0 THEN TRUE ELSE ~(f[n] /\ Takes(n))
  <2>1. \A n \in Nat : G[n][f[n]] = IF n = 0 THEN TRUE ELSE ~(f[n] /\ Takes(n))
    BY <1>2
  <2> HIDE DEF G, Takes
  <2> QED
    BY <1>2, <2>1 DEF RunsOn
<1> HIDE DEF Takes
<1>4. f = P(f)
  <2>1. ASSUME NEW k \in Nat PROVE f[k] = P(f)[k]
    <3>1. CASE k = 0
      <4>1. f[k] = TRUE /\ k <= 1
        BY <1>3, <3>1
      <4> QED
        BY <4>1
    <3>2. CASE k # 0
      <4>1. k - 1 \in Nat /\ (k - 1) + 1 = k /\ (k <= 1 <=> k - 1 = 0)
        BY <3>2
      <4>2. f[(k - 1) + 1] = IF k - 1 = 0 THEN TRUE ELSE ~(f[k - 1] /\ Takes(k - 1))
        BY <1>3, <4>1
      <4> QED
        BY <4>1, <4>2
    <3> QED
      BY <3>1, <3>2
  <2> QED
    BY <1>2, <2>1
<1>5. p = P(p)
  BY <1>4, Zenon
<1>6. \A n : IsRead(list, n) = p[n]
  BY Zenon DEF IsRead, Takes
<1> HIDE DEF p
<1>7. p[1]
  BY <1>5
<1>8. ASSUME NEW n \in Nat \ {0} PROVE p[n + 1] = ~(p[n] /\ Takes(n))
  <2>1. n + 1 \in Nat /\ ~(n + 1 <= 1) /\ (n + 1) - 1 = n
    OBVIOUS
  <2>2. p[n + 1] = P(p)[n + 1]
    BY <1>5
  <2> QED
    BY <2>1, <2>2
<1> QED
  BY <1>6, <1>7, <1>8, Zenon DEF Takes

-----------------------------------------------------------------------------
(* The status of a run: its invariants.                                    *)

\* The exception in flight is counted once, until a handler is left.
Counted == uncaught = IF pc = "unwinding" \/ exit = "terminated" THEN 1 ELSE 0

\* The scan in front fixes the flag and the format.
Scanned ==
  /\ pc = "start" => events = <<>>
  /\ pc # "start" => /\ machine <=> Prescanned
                     /\ format = IF Prescanned THEN "json" ELSE "text"

\* Which steps have begun, and what there can be to report before.
StagesBegun ==
  /\ pc \in {"start", "arguments"} => stage = 0 /\ events = <<>>
  /\ pc = "diagnostic" => stage = 1 /\ operations = <<>>
  /\ pc = "stage" => stage >= 1
  /\ stage = 0 => operations = <<>>

\* The loop reads an option next, and has kept the value of the last --verbosity.
LastVerbosity(i) ==
  /\ i \in VerbositiesGiven(args) /\ i + 1 < next
  /\ \A j \in VerbositiesGiven(args) : j < next => j <= i
  /\ args[i + 1] \in Values /\ cli_verbosity = Verbosity(args[i + 1])
Parsed ==
  pc \in {"start", "arguments"} =>
    /\ IsRead(args, next)
    /\ explicit => \E i \in 1 .. Len(args) : LastVerbosity(i)
    /\ ~explicit => cli_verbosity = 0 /\ \A j \in VerbositiesGiven(args) : j >= next

\* The operations alive: the stage's, and inside it the solver's.
StageOpen ==
  pc = "stage" /\ operations # <<>> =>
    /\ stage <= Len(Stages) /\ Current.operation # Unreported
    /\ operations[1].name = Current.operation
    /\ \A i \in DOMAIN operations : i > 1 => operations[i].name \in InnerNames

\* Nothing has failed until something is thrown.
NoFailure == pc # "unwinding" /\ exit \in {"none", "0"} => Failures = {}

\* What is thrown behind event cut ends the operations open there, innermost first.
CutShort(cut) ==
  LET open == OpenAfter(events, cut)
      failed == Len(events) - cut IN
  /\ failed <= Len(open)
  /\ \A i \in DOMAIN events : i \in Failures <=> i > cut
  /\ \A i \in 1..failed : /\ events[cut + i].kind = "failed"
                          /\ events[cut + i].name = open[Len(open) + 1 - i]
  /\ Len(operations) = Len(open) - failed
  /\ \A i \in DOMAIN operations : operations[i].name = open[i]
Unwinding == pc = "unwinding" => \E cut \in 0 .. Len(events) : CutShort(cut)

PInv ==
  /\ PTypeOK
  /\ Counted /\ Scanned /\ StagesBegun /\ Parsed
  /\ OneFormat /\ VerbosityAsAsked
  /\ OperationsNest /\ StageOpen /\ StagesAreReported
  /\ NoFailure /\ Unwinding /\ FailureIsNamed

-----------------------------------------------------------------------------
(* The status of a run: types.                                             *)

\* The steps have names, and an operation, events and the words their types.
LEMMA StagesFacts ==
  /\ Len(Stages) = 11 /\ DOMAIN Stages = 1..11
  BY DEF Stages, Step

LEMMA ArgsFacts ==
  ASSUME PTypeOK
  PROVE  /\ Len(args) \in Nat /\ DOMAIN args = 1 .. Len(args)
         /\ \A i \in 1 .. Len(args) : args[i] \in Words
<1>1. args \in Seq(Words)
  BY WordsAssumption DEF PTypeOK
<1> QED
  BY <1>1

\* What is written is an event, behind those before.
LEMMA EventType ==
  ASSUME PTypeOK, NEW kind \in Kinds, NEW name \in EventNames
  PROVE  Event(kind, name) \in Events /\ Append(events, Event(kind, name)) \in Seq(Events)
<1>1. Event(kind, name) \in Events
  BY DEF Event, Events, PTypeOK
<1> QED
  BY <1>1 DEF PTypeOK

\* The operation that ends is one, and those around it are left.
LEMMA EndingType ==
  ASSUME PTypeOK, operations # <<>>
  PROVE  /\ Len(operations) \in Nat \ {0} /\ Ending \in Operations
         /\ Outcome(Ending) \in {"completed", "failed"}
         /\ SubSeq(operations, 1, Len(operations) - 1) \in Seq(Operations)
         /\ Event(Outcome(Ending), Ending.name) \in Events
<1>1. operations \in Seq(Operations)
  BY DEF PTypeOK
<1>2. Len(operations) \in Nat \ {0}
  BY <1>1, EmptySeq
<1>3. Ending \in Operations
  BY <1>1, <1>2, ElementOfSeq DEF Ending
<1>4. SubSeq(operations, 1, Len(operations) - 1) \in Seq(Operations)
  BY <1>1, <1>2, SubSeqProperties
<1>5. Outcome(Ending) \in {"completed", "failed"}
  BY DEF Outcome
<1>6. Ending.name \in EventNames /\ Outcome(Ending) \in Kinds
  BY <1>3, <1>5 DEF Operations, Kinds
<1> QED
  BY <1>2, <1>3, <1>4, <1>5, <1>6, EventType


\* Where a step begins an operation, it is in a stage and nothing is in flight.
LEMMA BeginsOperation ==
  ASSUME PTypeOK, Counted, pc = "stage", NEW name \in EventNames
  PROVE  Operation(name) = Append(operations, [name |-> name, exception_count |-> 0])
         /\ Operation(name) \in Seq(Operations)
<1>1. uncaught = 0
  BY DEF PTypeOK, Counted
<1>2. [name |-> name, exception_count |-> 0] \in Operations
  BY DEF Operations
<1> QED
  BY <1>1, <1>2 DEF Operation, PTypeOK

LEMMA AppendType ==
  ASSUME NEW s \in Seq(Events), NEW e \in Events
  PROVE  Append(s, e) \in Seq(Events)
OBVIOUS

LEMMA VerbosityType ==
  ASSUME NEW value \in Values
  PROVE  Verbosity(value) \in 0..2
BY DEF Values, Verbosity

\* An exception in flight, and what its handler returns.
LEMMA ThrowType ==
  ASSUME NEW e \in Exceptions, Throw(e)
  PROVE  uncaught' = 1 /\ thrown' \in Exceptions /\ pc' = "unwinding"
BY DEF Throw

\* Initially the types hold.
LEMMA PTypesInit ==
  ASSUME PInit
  PROVE  PTypeOK
<1>1. args \in Seq(Words)
  BY WordsAssumption DEF PInit
<1>2. Len(args) \in Nat /\ 1 \in 1 .. Len(args) + 1 /\ 0 \in 0 .. Len(Stages) + 1
  BY <1>1, StagesFacts
<1>3. Len(Inner) \in Nat /\ 0 \in 0 .. Len(Inner) /\ 0 \in 0 .. MaxPrints
  BY InnerAssumption, BoundsAssumption
<1>4. operations \in Seq(Operations) /\ events \in Seq(Events)
  BY DEF PInit
<1>5. thrown \in Exceptions
  BY DEF PInit, StdException, Exceptions
<1>6. /\ args \in ArgLists /\ ranks \in Ranks /\ pc = "start"
      /\ next \in 1 .. Len(args) + 1 /\ stage \in 0 .. Len(Stages) + 1
      /\ machine \in BOOLEAN /\ explicit \in BOOLEAN /\ line \in BOOLEAN
  BY <1>2 DEF PInit
<1>7. /\ cli_verbosity \in 0..2 /\ verbosity \in 0..2 /\ format \in {"text", "json"}
      /\ uncaught \in {0, 1} /\ exit = "none"
      /\ nested \in 0 .. Len(Inner) /\ prints \in 0 .. MaxPrints
  BY <1>3 DEF PInit
<1> QED
  BY <1>4, <1>5, <1>6, <1>7 DEF PTypeOK

\* Every step keeps the types: before the first stage.
LEMMA PTypesArguments ==
  ASSUME PTypeOK, Prescan \/ Argument \/ ArgumentsDone \/ ConfigDiagnostic
  PROVE  PTypeOK'
<1>0. /\ args \in ArgLists /\ Len(args) \in Nat /\ next \in 1 .. Len(args) + 1
      /\ stage \in 0 .. Len(Stages) + 1 /\ 1 \in 0 .. Len(Stages) + 1
  BY ArgsFacts, StagesFacts DEF PTypeOK
<1>1. CASE Prescan
  <2>1. Prescanned \in BOOLEAN /\ StdException \in Exceptions
    BY DEF Prescanned, Flagged, StdException, Exceptions
  <2>2. CASE ranks > 1
    <3>1. Throw(StdException)
      BY <1>1, <2>2 DEF Prescan
    <3>2. uncaught' = 1 /\ thrown' \in Exceptions /\ pc' = "unwinding" /\ exit = "none"
      BY <1>1, <2>1, <3>1, ThrowType DEF Prescan, PTypeOK
    <3> QED
      BY <1>1, <2>1, <3>2 DEF Prescan, PTypeOK, bounds
  <2>3. CASE ~(ranks > 1)
    BY <1>1, <2>1, <2>3 DEF Prescan, PTypeOK, bounds
  <2> QED
    BY <2>2, <2>3
<1>2. CASE Argument
  <2>1. next + 1 \in 1 .. Len(args) + 1 /\ (HasValue => next + 2 \in 1 .. Len(args) + 1)
    BY <1>0, <1>2 DEF Argument, HasValue
  <2>2. exit = "none" /\ pc = "arguments"
    BY <1>2 DEF Argument, PTypeOK
  <2>3. UNCHANGED <<args, ranks, verbosity, line, stage, operations, bounds>>
    BY <1>2 DEF Argument
  <2>4. CASE Arg \in {"--help", "--version"} /\ exit' = "0" /\ pc' = "ended"
             /\ UNCHANGED <<next, options, format, uncaught, thrown>>
             /\ (events' = events \/ events' = Append(events, [kind |-> "version", name |-> Message,
                                                               format |-> "text"]))
    <3>1. [kind |-> "version", name |-> Message, format |-> "text"] \in Events
      BY DEF Events, Kinds, EventNames
    <3>2. events \in Seq(Events)
      BY DEF PTypeOK
    <3>3. events' \in Seq(Events)
      BY <2>4, <3>1, <3>2, AppendType, Zenon
    <3> QED
      BY <2>3, <2>4, <3>3 DEF PTypeOK, options, bounds
  <2>5. CASE next' = next + 2 /\ HasValue
             /\ UNCHANGED <<pc, options, format, uncaught, thrown, events, exit>>
    BY <2>1, <2>3, <2>5 DEF PTypeOK, options, bounds
  <2>6. CASE /\ HasValue /\ args[next + 1] \in Values
             /\ cli_verbosity' = Verbosity(args[next + 1])
             /\ explicit' = TRUE
             /\ next' = next + 2
             /\ UNCHANGED <<pc, machine, format, uncaught, thrown, events, exit>>
    <3>1. cli_verbosity' \in 0..2
      BY <2>6, VerbosityType
    <3> QED
      BY <2>1, <2>3, <2>6, <3>1 DEF PTypeOK, bounds
  <2>7. CASE /\ \E e \in {x \in Exceptions : x.std} : Throw(e)
             /\ UNCHANGED <<next, options, format, events, exit>>
    <3>1. uncaught' = 1 /\ thrown' \in Exceptions /\ pc' = "unwinding"
      BY <2>7, ThrowType
    <3> QED
      BY <2>2, <2>3, <2>7, <3>1 DEF PTypeOK, options, bounds
  <2>8. CASE /\ machine' = TRUE /\ next' = next + 1
             /\ UNCHANGED <<pc, explicit, cli_verbosity, format, uncaught, thrown, events, exit>>
    BY <2>1, <2>3, <2>8 DEF PTypeOK, bounds
  <2>9. CASE /\ next' = next + 1
             /\ UNCHANGED <<pc, options, format, uncaught, thrown, events, exit>>
    BY <2>1, <2>3, <2>9 DEF PTypeOK, options, bounds
  <2> QED
    BY <1>2, <2>4, <2>5, <2>6, <2>7, <2>8, <2>9, Zenon DEF Argument
<1>3. CASE ArgumentsDone
  <2>1. events' \in Seq(Events)
    <3>1. "status" \in Kinds /\ Message \in EventNames
      BY DEF Kinds, EventNames
    <3> QED
      BY <1>3, <3>1, EventType DEF ArgumentsDone, Write
  <2>2. Level \in 0..2
    BY DEF Level, PTypeOK
  <2> QED
    BY <1>0, <1>3, <2>1, <2>2 DEF ArgumentsDone, PTypeOK, options, bounds
<1>4. CASE ConfigDiagnostic
  <2>1. "diagnostic" \in Kinds /\ Message \in EventNames
    BY DEF Kinds, EventNames
  <2>2. CASE Diagnostic /\ pc' = "stage" /\ UNCHANGED <<uncaught, thrown>>
    <3>1. events' \in Seq(Events)
      BY <2>1, <2>2, EventType DEF Diagnostic, Write, PTypeOK
    <3> QED
      BY <1>4, <2>2, <3>1 DEF ConfigDiagnostic, PTypeOK, options, reporter, bounds
  <2>3. CASE (\E e \in {x \in Exceptions : x.std} : Throw(e)) /\ UNCHANGED events
    <3>1. uncaught' = 1 /\ thrown' \in Exceptions /\ pc' = "unwinding"
      BY <2>3, ThrowType
    <3> QED
      BY <1>4, <2>3, <3>1 DEF ConfigDiagnostic, PTypeOK, options, reporter, bounds
  <2> QED
    BY <1>4, <2>2, <2>3 DEF ConfigDiagnostic
<1> QED
  BY <1>1, <1>2, <1>3, <1>4

\* An operation that ends: what is written, and what is left.
LEMMA EndOperationType ==
  ASSUME PTypeOK, operations # <<>>, EndOperation
  PROVE  /\ events' \in Seq(Events) /\ operations' \in Seq(Operations)
         /\ events' = Append(events, Event(Outcome(Ending), Ending.name))
         /\ Event(Outcome(Ending), Ending.name) \in Events
<1>1. events \in Seq(Events)
  BY DEF PTypeOK
<1>2. Event(Outcome(Ending), Ending.name) \in Events
  BY EndingType
<1>3. operations' \in Seq(Operations)
  BY EndingType DEF EndOperation
<1>4. events' = Append(events, Event(Outcome(Ending), Ending.name))
  BY DEF EndOperation, Write
<1> QED
  BY <1>1, <1>2, <1>3, <1>4, AppendType, Zenon

\* Every step keeps the types: in the stages and behind them.
LEMMA PTypesStages ==
  ASSUME PTypeOK, Counted, StagesBegun,
         \/ StartStage \/ FinishStage \/ StartNested \/ FinishNested
         \/ SolverReports \/ SolverWarns \/ SolverPrints \/ Fail \/ Return \/ Unwind \/ Catch
  PROVE  PTypeOK'
<1>0. /\ stage \in 0 .. Len(Stages) + 1 /\ Len(Stages) = 11 /\ DOMAIN Stages = 1..11
      /\ events \in Seq(Events) /\ operations \in Seq(Operations)
      /\ nested \in 0 .. Len(Inner) /\ Len(Inner) \in Nat /\ DOMAIN Inner = 1 .. Len(Inner)
      /\ prints \in 0 .. MaxPrints /\ MaxPrints \in Nat
  BY StagesFacts, InnerAssumption, BoundsAssumption DEF PTypeOK
<1>1. /\ {"started", "status", "diagnostic", "solver", "error"} \subseteq Kinds
      /\ Message \in EventNames /\ PrintedWarning \in EventNames
      /\ \A f \in {"text", "json"} : [kind |-> "solver", name |-> Message, format |-> f] \in Events
      /\ \A f \in {"text", "json"} :
           [kind |-> "solver", name |-> PrintedWarning, format |-> f] \in Events
  BY DEF Kinds, EventNames, Events
<1>2. ASSUME Diagnostic PROVE events' \in Seq(Events)
  BY <1>0, <1>1, <1>2, EventType DEF Diagnostic, Write
<1>3. CASE StartStage
  <2>1. pc = "stage" /\ stage \in 1..11 \cup {0}
    BY <1>0, <1>3 DEF StartStage, Running
  <2>2. Current.operation \in EventNames
    <3>1. stage # 0
      BY <2>1 DEF StagesBegun
    <3> QED
      BY <1>0, <2>1, <3>1 DEF Current, EventNames, StageNames
  <2>3. events' \in Seq(Events) /\ operations' \in Seq(Operations)
    BY <1>1, <1>3, <2>1, <2>2, EventType, BeginsOperation DEF StartStage, Write
  <2> QED
    BY <1>3, <2>3 DEF StartStage, PTypeOK, options, reporter, bounds
<1>4. CASE FinishStage
  <2>1. events' \in Seq(Events) /\ operations' \in Seq(Operations)
    <3>1. CASE Current.operation = Unreported
      BY <1>0, <1>2, <1>4, <3>1 DEF FinishStage
    <3>2. CASE Current.operation # Unreported
      <4>1. operations # <<>> /\ EndOperation
        BY <1>4, <3>2 DEF FinishStage
      <4> QED
        BY <4>1, EndOperationType
    <3> QED
      BY <3>1, <3>2
  <2>2. stage + 1 \in 0 .. Len(Stages) + 1
    BY <1>0, <1>4 DEF FinishStage, Running
  <2> QED
    BY <1>4, <2>1, <2>2 DEF FinishStage, PTypeOK, options, reporter, bounds
<1>5. CASE StartNested
  <2>1. pc = "stage" /\ nested + 1 \in DOMAIN Inner /\ nested + 1 \in 0 .. Len(Inner)
    BY <1>0, <1>5 DEF StartNested, InStage, Running
  <2>2. Inner[nested + 1] \in EventNames
    BY <2>1 DEF EventNames, InnerNames
  <2>3. events' \in Seq(Events) /\ operations' \in Seq(Operations)
    BY <1>1, <1>5, <2>1, <2>2, EventType, BeginsOperation DEF StartNested, Write
  <2> QED
    BY <1>5, <2>1, <2>3 DEF StartNested, PTypeOK, options, reporter
<1>6. CASE FinishNested
  <2>1. operations # <<>> /\ EndOperation
    BY <1>6 DEF FinishNested, InStage
  <2>2. events' \in Seq(Events) /\ operations' \in Seq(Operations)
    BY <2>1, EndOperationType
  <2> QED
    BY <1>6, <2>2 DEF FinishNested, PTypeOK, options, reporter, bounds
<1>7. ASSUME Messages PROVE prints + 1 \in 0 .. MaxPrints
  BY <1>0, <1>7 DEF Messages
<1>8. CASE SolverReports
  <2>1. events' \in Seq(Events)
    <3>1. CASE Write("status", Message)
      BY <1>1, <3>1, EventType DEF Write
    <3>2. CASE Diagnostic
      BY <1>2, <3>2
    <3> QED
      BY <1>8, <3>1, <3>2 DEF SolverReports
  <2>2. prints' \in 0 .. MaxPrints
    BY <1>7, <1>8 DEF SolverReports
  <2> QED
    BY <1>8, <2>1, <2>2 DEF SolverReports, PTypeOK, options, reporter
<1>9. CASE SolverWarns
  <2>1. PICK f \in {"text", "json"} :
          events' = Append(events, [kind |-> "solver", name |-> PrintedWarning, format |-> f])
    BY <1>9 DEF SolverWarns
  <2>2. events' \in Seq(Events)
    BY <1>0, <1>1, <2>1, AppendType, Zenon
  <2>3. prints' \in 0 .. MaxPrints /\ line' \in BOOLEAN
    BY <1>7, <1>9 DEF SolverWarns
  <2> QED
    BY <1>9, <2>2, <2>3 DEF SolverWarns, PTypeOK, options
<1>10. CASE SolverPrints
  <2>1. /\ line' \in BOOLEAN
        /\ \/ events' = events \/ Write("solver", Message)
           \/ events' = Append(events, [kind |-> "solver", name |-> Message, format |-> "text"])
    BY <1>10 DEF SolverPrints, PTypeOK
  <2>2. events' \in Seq(Events)
    <3>1. CASE events' = events
      BY <1>0, <3>1
    <3>2. CASE Write("solver", Message)
      BY <1>1, <3>2, EventType DEF Write
    <3>3. CASE events' = Append(events, [kind |-> "solver", name |-> Message, format |-> "text"])
      BY <1>0, <1>1, <3>3, AppendType, Zenon
    <3> QED
      BY <2>1, <3>1, <3>2, <3>3
  <2>3. prints' \in 0 .. MaxPrints
    BY <1>7, <1>10 DEF SolverPrints
  <2> QED
    BY <1>10, <2>1, <2>2, <2>3 DEF SolverPrints, PTypeOK, options
<1>11. CASE Fail
  <2>1. uncaught' = 1 /\ thrown' \in Exceptions /\ pc' = "unwinding" /\ exit = "none"
    BY <1>11, ThrowType DEF Fail, Running, PTypeOK
  <2> QED
    BY <1>11, <2>1 DEF Fail, PTypeOK, options, reporter, bounds
<1>12. CASE Return
  BY <1>12 DEF Return, PTypeOK, options, reporter, bounds
<1>13. CASE Unwind
  <2>1. operations # <<>> /\ EndOperation
    BY <1>13 DEF Unwind
  <2>2. events' \in Seq(Events) /\ operations' \in Seq(Operations)
    BY <2>1, EndOperationType
  <2> QED
    BY <1>13, <2>2 DEF Unwind, PTypeOK, options, reporter, bounds
<1>14. CASE Catch
  <2>1. events' \in Seq(Events)
    BY <1>0, <1>1, <1>14, EventType DEF Catch, Write
  <2>2. exit' \in {"terminated", "1", "2"} /\ uncaught' \in {0, 1} /\ pc' = "ended"
    BY <1>14 DEF Catch, ExitCode
  <2> QED
    BY <1>14, <2>1, <2>2 DEF Catch, PTypeOK, options, reporter, bounds
<1> QED
  BY <1>3, <1>4, <1>5, <1>6, <1>8, <1>9, <1>10, <1>11, <1>12, <1>13, <1>14

\* A step of main, or none.
LEMMA PTypesNext ==
  ASSUME PTypeOK, Counted, StagesBegun, [PNext]_pvars
  PROVE  PTypeOK'
<1>1. CASE UNCHANGED pvars
  BY <1>1 DEF pvars, options, reporter, bounds, PTypeOK
<1> QED
  BY <1>1, PTypesArguments, PTypesStages, Zenon DEF PNext

-----------------------------------------------------------------------------
(* The status of a run: exceptions, the scan, and what has begun.           *)

\* What is in flight, the format and the step agree with the control, before the stages.
LEMMA PhasesArguments ==
  ASSUME PTypeOK, Counted, Scanned, StagesBegun,
         Prescan \/ Argument \/ ArgumentsDone \/ ConfigDiagnostic
  PROVE  Counted' /\ Scanned' /\ StagesBegun'
<1>1. CASE Prescan
  <2>1. /\ events' = <<>> /\ stage' = 0 /\ operations' = <<>> /\ pc' # "start" /\ pc' # "diagnostic"
        /\ pc' # "stage" /\ exit' = "none"
    BY <1>1 DEF Prescan, Throw, Scanned, StagesBegun, PTypeOK
  <2>2. Counted'
    BY <1>1, <2>1 DEF Prescan, Throw, Counted, PTypeOK
  <2>3. Prescanned' = Prescanned /\ machine' = Prescanned
        /\ format' = IF Prescanned THEN "json" ELSE "text"
    BY <1>1 DEF Prescan, Prescanned
  <2>4. Scanned'
    BY <2>1, <2>3 DEF Scanned
  <2> QED
    BY <2>1, <2>2, <2>4 DEF StagesBegun
<1>2. CASE Argument
  <2>1. /\ UNCHANGED <<args, operations, stage, format>> /\ pc = "arguments" /\ exit = "none"
        /\ stage = 0 /\ operations = <<>> /\ events = <<>> /\ uncaught = 0
    BY <1>2 DEF Argument, StagesBegun, Counted, PTypeOK
  <2>2. \/ /\ pc' = "ended" /\ exit' = "0" /\ uncaught' = uncaught
        \/ pc' = "unwinding" /\ uncaught' = 1
        \/ pc' = "arguments" /\ events' = events /\ exit' = exit /\ uncaught' = uncaught
    BY <1>2 DEF Argument, Throw
  <2>3. Counted'
    BY <2>1, <2>2 DEF Counted
  <2>4. StagesBegun'
    BY <2>1, <2>2 DEF StagesBegun
  <2>5. machine' = machine \/ (machine' = TRUE /\ Arg = "--machine-readable" /\ next <= Len(args))
    BY <1>2 DEF Argument, options
  <2>6. machine' <=> Prescanned
    <3>1. machine <=> Prescanned
      BY <2>1 DEF Scanned
    <3>2. Arg = "--machine-readable" /\ next <= Len(args) => Prescanned
      BY ArgsFacts DEF Arg, Prescanned, Flagged, PTypeOK
    <3> QED
      BY <2>5, <3>1, <3>2
  <2>7. Prescanned' = Prescanned
    BY <2>1 DEF Prescanned
  <2>8. Scanned'
    BY <2>1, <2>2, <2>6, <2>7 DEF Scanned
  <2> QED
    BY <2>3, <2>4, <2>8
<1>3. CASE ArgumentsDone \/ ConfigDiagnostic
  <2>1. /\ UNCHANGED <<args, operations, machine, format, exit>> /\ pc # "start" /\ exit = "none"
        /\ operations = <<>> /\ pc # "unwinding" /\ uncaught = 0
    BY <1>3 DEF ArgumentsDone, ConfigDiagnostic, options, reporter, StagesBegun, Counted, PTypeOK
  <2>2. /\ stage' = 1
        /\ \/ pc' \in {"diagnostic", "stage"} /\ uncaught' = uncaught
           \/ pc' = "unwinding" /\ uncaught' = 1
    BY <1>3 DEF ArgumentsDone, ConfigDiagnostic, Throw, StagesBegun
  <2>3. Counted'
    BY <2>1, <2>2 DEF Counted
  <2>4. StagesBegun'
    BY <2>1, <2>2 DEF StagesBegun
  <2>5. Prescanned' = Prescanned
    BY <2>1 DEF Prescanned
  <2>6. Scanned'
    BY <2>1, <2>2, <2>5 DEF Scanned
  <2> QED
    BY <2>3, <2>4, <2>6
<1> QED
  BY <1>1, <1>2, <1>3

\* The same in the stages and behind them.
LEMMA PhasesStages ==
  ASSUME PTypeOK, Counted, Scanned, StagesBegun,
         \/ StartStage \/ FinishStage \/ StartNested \/ FinishNested
         \/ SolverReports \/ SolverWarns \/ SolverPrints \/ Fail \/ Return \/ Unwind \/ Catch
  PROVE  Counted' /\ Scanned' /\ StagesBegun'
<1>1. UNCHANGED <<args, machine, format>>
  BY DEF StartStage, FinishStage, StartNested, FinishNested, SolverReports, SolverWarns,
         SolverPrints, Fail, Return, Unwind, Catch, options, reporter
<1>2. Prescanned' = Prescanned
  BY <1>1 DEF Prescanned
<1>3. pc # "start" /\ pc' \in {"stage", "unwinding", "ended"} /\ exit = "none"
  BY DEF StartStage, FinishStage, StartNested, FinishNested, SolverReports, SolverWarns,
         SolverPrints, Fail, Return, Unwind, Catch, Messages, InStage, Running, Throw, PTypeOK
<1>4. Scanned'
  BY <1>1, <1>2, <1>3 DEF Scanned
<1>5. StagesBegun'
  <2>1. CASE Unwind \/ Catch
    <3>1. stage' = stage /\ pc' # "stage" /\ (operations = <<>> => operations' = <<>>)
      BY <2>1 DEF Unwind, Catch
    <3>2. stage # 0 \/ operations' = <<>>
      BY <2>1, <3>1 DEF StagesBegun, Unwind, Catch
    <3> QED
      BY <1>3, <3>1, <3>2 DEF StagesBegun
  <2>2. CASE ~(Unwind \/ Catch)
    <3>1. pc = "stage" /\ (stage' = stage \/ stage' = stage + 1)
      BY <2>2 DEF StartStage, FinishStage, StartNested, FinishNested, SolverReports, SolverWarns,
           SolverPrints, Fail, Return, Messages, InStage, Running
    <3>2. stage \in Nat /\ stage >= 1
      BY <3>1, StagesFacts DEF StagesBegun, PTypeOK
    <3> QED
      BY <1>3, <3>1, <3>2 DEF StagesBegun
  <2> QED
    BY <2>1, <2>2
<1>6. Counted'
  <2>1. CASE Unwind
    <3>1. UNCHANGED <<pc, uncaught, exit>>
      BY <2>1 DEF Unwind
    <3> QED
      BY <3>1 DEF Counted
  <2>2. CASE Catch
    BY <2>2 DEF Catch, ExitCode, Counted
  <2>3. CASE Fail
    BY <2>3 DEF Fail, Throw, Counted
  <2>4. CASE Return
    BY <1>3, <2>4 DEF Return, Counted
  <2>5. CASE \/ StartStage \/ FinishStage \/ StartNested \/ FinishNested
             \/ SolverReports \/ SolverWarns \/ SolverPrints
    <3>1. UNCHANGED <<pc, uncaught, exit>>
      BY <2>5 DEF StartStage, FinishStage, StartNested, FinishNested, SolverReports, SolverWarns,
           SolverPrints
    <3> QED
      BY <3>1 DEF Counted
  <2> QED
    BY <2>1, <2>2, <2>3, <2>4, <2>5
<1> QED
  BY <1>4, <1>5, <1>6

-----------------------------------------------------------------------------
(* The status of a run: what every step tells.                              *)

\* What an event told in this step satisfies.
Told(e) ==
  /\ e \in Events /\ events' = Append(events, e)
  /\ e.kind = "version" \/ e.format = IF Prescanned THEN "json" ELSE "text"
  /\ e.kind = "solver" /\ e.name # PrintedWarning => verbosity >= 1
  /\ e.kind = "diagnostic" => verbosity = 2

Neutral == {"status", "diagnostic", "solver", "version"}
Silent == events' = events /\ operations' = operations
Says == operations' = operations /\ \E e : Told(e) /\ e.kind \in Neutral
Opens(name) ==
  /\ name \in EventNames /\ Told(Event("started", name))
  /\ operations' = Append(operations, [name |-> name, exception_count |-> 0])
Closes(kind) ==
  /\ operations # <<>> /\ Ending \in Operations /\ Told(Event(kind, Ending.name))
  /\ operations' = SubSeq(operations, 1, Len(operations) - 1)
Excuses == operations' = operations /\ \E e : Told(e) /\ e.kind = "error"

\* What a message is like that the reporter writes in the format that was asked for.
LEMMA MessageTold ==
  ASSUME PTypeOK, Scanned, pc # "start", NEW kind \in {"status", "error"}, Write(kind, Message)
  PROVE  \E e : Told(e) /\ e.kind = kind
<1>1. Event(kind, Message) \in Events
  BY EventType DEF Kinds, EventNames
<1>2. Event(kind, Message).kind = kind
      /\ Event(kind, Message).format = IF Prescanned THEN "json" ELSE "text"
  BY DEF Event, Scanned
<1>3. Told(Event(kind, Message))
  BY <1>1, <1>2 DEF Told, Write
<1> QED
  BY <1>2, <1>3

LEMMA DiagnosticTold ==
  ASSUME PTypeOK, Scanned, pc # "start", Diagnostic
  PROVE  events' = events \/ \E e : Told(e) /\ e.kind \in Neutral
<1> SUFFICES ASSUME DiagnosticsEnabled
             PROVE  \E e : Told(e) /\ e.kind \in Neutral
  BY DEF Diagnostic
<1>1. Event("diagnostic", Message) \in Events
  BY EventType DEF Kinds, EventNames
<1>2. Event("diagnostic", Message).kind = "diagnostic"
      /\ Event("diagnostic", Message).format = IF Prescanned THEN "json" ELSE "text"
  BY DEF Event, Scanned
<1>3. verbosity = 2 /\ events' = Append(events, Event("diagnostic", Message))
  BY DEF Diagnostic, DiagnosticsEnabled, Write, PTypeOK
<1>4. Told(Event("diagnostic", Message))
  BY <1>1, <1>2, <1>3 DEF Told
<1> QED
  BY <1>2, <1>4 DEF Neutral

\* What comes from a solver is in the format of the run, and there is none of its output
\* where that is not wanted.
LEMMA SolverTold ==
  ASSUME PTypeOK, NEW e \in Events, e.kind = "solver", events' = Append(events, e),
         e.format = IF Prescanned THEN "json" ELSE "text",
         e.name = PrintedWarning \/ SolverOutputEnabled
  PROVE  \E x : Told(x) /\ x.kind \in Neutral
<1>1. Told(e)
  BY DEF Told, SolverOutputEnabled
<1> QED
  BY <1>1 DEF Neutral

\* The event of an operation.
LEMMA OperationTold ==
  ASSUME PTypeOK, Scanned, pc # "start", NEW kind \in {"started", "completed", "failed"},
         NEW name \in EventNames, Write(kind, name)
  PROVE  Told(Event(kind, name))
<1>1. Event(kind, name) \in Events
  BY EventType DEF Kinds
<1>2. Event(kind, name).kind = kind
      /\ Event(kind, name).format = IF Prescanned THEN "json" ELSE "text"
  BY DEF Event, Scanned
<1> QED
  BY <1>1, <1>2 DEF Told, Write

\* ~Operation: failed when an exception has come in its lifetime, else completed.
LEMMA EndTold ==
  ASSUME PTypeOK, Scanned, pc # "start", operations # <<>>, EndOperation
  PROVE  Closes(IF uncaught = 1 THEN "failed" ELSE "completed")
<1>1. Ending \in Operations /\ Ending.name \in EventNames /\ Ending.exception_count = 0
  BY EndingType DEF Operations
<1>2. Outcome(Ending) = IF uncaught = 1 THEN "failed" ELSE "completed"
  BY <1>1 DEF Outcome, PTypeOK
<1>3. Told(Event(Outcome(Ending), Ending.name))
  BY <1>1, <1>2, OperationTold DEF EndOperation
<1> QED
  BY <1>1, <1>2, <1>3 DEF Closes, EndOperation

\* What each step tells, and what it does to the operations alive.
LEMMA ArgumentsTell ==
  ASSUME PTypeOK, Scanned, Prescan \/ Argument \/ ArgumentsDone \/ ConfigDiagnostic
  PROVE  Silent \/ Says
<1>1. CASE Prescan
  BY <1>1 DEF Prescan, Silent
<1>2. CASE Argument
  <2>1. operations' = operations
    BY <1>2 DEF Argument
  <2>2. \/ events' = events
        \/ events' = Append(events, [kind |-> "version", name |-> Message, format |-> "text"])
    BY <1>2 DEF Argument
  <2> DEFINE e == [kind |-> "version", name |-> Message, format |-> "text"]
  <2>3. e \in Events /\ e.kind = "version"
    BY DEF Events, Kinds, EventNames
  <2> HIDE DEF e
  <2>4. events' = Append(events, e) => Told(e) /\ e.kind \in Neutral
    BY <2>3 DEF Told, Neutral
  <2> QED
    BY <2>1, <2>2, <2>4 DEF Silent, Says, e
<1>3. CASE ArgumentsDone
  <2>1. operations' = operations /\ Write("status", Message) /\ pc # "start"
    BY <1>3 DEF ArgumentsDone
  <2>2. PICK e : Told(e) /\ e.kind = "status"
    BY <2>1, MessageTold
  <2> QED
    BY <2>1, <2>2 DEF Says, Neutral
<1>4. CASE ConfigDiagnostic
  <2>1. operations' = operations /\ pc # "start" /\ (Diagnostic \/ events' = events)
    BY <1>4 DEF ConfigDiagnostic
  <2> QED
    BY <2>1, DiagnosticTold DEF Says, Silent
<1> QED
  BY <1>1, <1>2, <1>3, <1>4

LEMMA SolversTell ==
  ASSUME PTypeOK, Scanned, SolverReports \/ SolverWarns \/ SolverPrints
  PROVE  Silent \/ Says
<1>1. pc # "start" /\ operations' = operations /\ events \in Seq(Events)
  BY DEF SolverReports, SolverWarns, SolverPrints, Messages, InStage, Running, PTypeOK
<1>2. CASE SolverReports
  <2>1. CASE Write("status", Message)
    <3>1. PICK e : Told(e) /\ e.kind = "status"
      BY <1>1, <2>1, MessageTold
    <3> QED
      BY <1>1, <3>1 DEF Says, Neutral
  <2>2. CASE Diagnostic
    BY <1>1, <2>2, DiagnosticTold DEF Says, Silent
  <2> QED
    BY <1>2, <2>1, <2>2 DEF SolverReports
<1>3. machine <=> Prescanned
  BY <1>1 DEF Scanned
<1>4. CASE SolverWarns
  <2> DEFINE e == [kind |-> "solver", name |-> PrintedWarning,
                   format |-> IF machine THEN "json" ELSE "text"]
  <2>1. e \in Events /\ e.kind = "solver" /\ e.name = PrintedWarning
        /\ e.format = IF Prescanned THEN "json" ELSE "text"
    BY <1>3 DEF Events, Kinds, EventNames
  <2>2. events' = Append(events, e)
    BY <1>4 DEF SolverWarns
  <2> HIDE DEF e
  <2> QED
    BY <1>1, <2>1, <2>2, SolverTold DEF Says
<1>5. CASE SolverPrints
  <2>1. SolverOutputEnabled
        /\ \/ events' = events
           \/ machine /\ Write("solver", Message)
           \/ ~machine /\ events' = Append(events, [kind |-> "solver", name |-> Message,
                                                    format |-> "text"])
    BY <1>5 DEF SolverPrints
  <2>2. CASE events' = events
    BY <1>1, <2>2 DEF Silent
  <2>3. CASE events' # events
    <3> DEFINE f == IF Prescanned THEN "json" ELSE "text"
               e == [kind |-> "solver", name |-> Message, format |-> f]
    <3>1. e \in Events /\ e.kind = "solver" /\ e.format = f
      BY DEF Events, Kinds, EventNames
    <3>2. events' = Append(events, e)
      <4>1. CASE machine
        <5>1. f = format /\ Write("solver", Message)
          BY <1>1, <1>3, <2>1, <2>3, <4>1 DEF Scanned
        <5> QED
          BY <5>1 DEF Write, Event
      <4>2. CASE ~machine
        <5>1. f = "text"
          BY <1>3, <4>2
        <5> QED
          BY <2>1, <2>3, <4>2, <5>1
      <4> QED
        BY <4>1, <4>2
    <3> HIDE DEF e
    <3> QED
      BY <1>1, <2>1, <3>1, <3>2, SolverTold DEF Says
  <2> QED
    BY <2>2, <2>3
<1> QED
  BY <1>2, <1>4, <1>5

LEMMA StagesTell ==
  ASSUME PTypeOK, Counted, Scanned, StagesBegun
  PROVE  /\ StartStage => Opens(Current.operation)
         /\ StartNested => Opens(Inner[nested + 1]) /\ Inner[nested + 1] \in InnerNames
         /\ FinishNested => Closes("completed")
         /\ FinishStage => \/ Current.operation = Unreported /\ (Silent \/ Says)
                           \/ Current.operation # Unreported /\ Len(operations) = 1
                              /\ Closes("completed")
         /\ Fail \/ Return => Silent
         /\ Unwind => Closes("failed")
         /\ Catch => Silent \/ Excuses
<1>0. /\ stage \in 0 .. Len(Stages) + 1 /\ Len(Stages) = 11 /\ DOMAIN Stages = 1..11
      /\ nested \in 0 .. Len(Inner) /\ Len(Inner) \in Nat /\ DOMAIN Inner = 1 .. Len(Inner)
  BY StagesFacts, InnerAssumption DEF PTypeOK
<1>1. StartStage => Opens(Current.operation)
  <2> SUFFICES ASSUME StartStage PROVE Opens(Current.operation)
    OBVIOUS
  <2>1. pc = "stage" /\ stage \in 1..11
    BY <1>0 DEF StartStage, Running, StagesBegun
  <2>2. Current.operation \in EventNames
    BY <1>0, <2>1 DEF Current, EventNames, StageNames
  <2>3. Told(Event("started", Current.operation))
    BY <2>1, <2>2, OperationTold DEF StartStage
  <2> QED
    BY <2>1, <2>2, <2>3, BeginsOperation DEF Opens, StartStage
<1>2. StartNested => Opens(Inner[nested + 1]) /\ Inner[nested + 1] \in InnerNames
  <2> SUFFICES ASSUME StartNested
               PROVE  Opens(Inner[nested + 1]) /\ Inner[nested + 1] \in InnerNames
    OBVIOUS
  <2>1. pc = "stage" /\ nested + 1 \in DOMAIN Inner
    BY <1>0 DEF StartNested, InStage, Running
  <2>2. Inner[nested + 1] \in InnerNames /\ Inner[nested + 1] \in EventNames
    BY <2>1 DEF EventNames, InnerNames
  <2>3. Told(Event("started", Inner[nested + 1]))
    BY <2>1, <2>2, OperationTold DEF StartNested
  <2> QED
    BY <2>1, <2>2, <2>3, BeginsOperation DEF Opens, StartNested
<1>3. FinishNested => Closes("completed")
  <2> SUFFICES ASSUME FinishNested PROVE Closes("completed")
    OBVIOUS
  <2>1. pc = "stage" /\ operations # <<>> /\ EndOperation /\ exit = "none"
    BY DEF FinishNested, InStage, Running, PTypeOK
  <2>2. uncaught = 0
    BY <2>1 DEF Counted
  <2> QED
    BY <2>1, <2>2, EndTold
<1>4. FinishStage => \/ Current.operation = Unreported /\ (Silent \/ Says)
                     \/ Current.operation # Unreported /\ Len(operations) = 1 /\ Closes("completed")
  <2> SUFFICES ASSUME FinishStage
               PROVE  \/ Current.operation = Unreported /\ (Silent \/ Says)
                      \/ Current.operation # Unreported /\ Len(operations) = 1
                         /\ Closes("completed")
    OBVIOUS
  <2>1. pc = "stage" /\ exit = "none" /\ uncaught = 0
    BY DEF FinishStage, Running, PTypeOK, Counted
  <2>2. CASE /\ Current.operation = Unreported /\ operations' = operations
             /\ Diagnostic \/ events' = events
    BY <2>1, <2>2, DiagnosticTold DEF Silent, Says
  <2>3. CASE Current.operation # Unreported /\ Len(operations) = 1 /\ EndOperation
    <3>1. operations # <<>>
      BY <2>3
    <3> QED
      BY <2>1, <2>3, <3>1, EndTold
  <2> QED
    BY <2>2, <2>3 DEF FinishStage
<1>5. Fail \/ Return => Silent
  BY DEF Fail, Return, Silent
<1>6. Unwind => Closes("failed")
  <2> SUFFICES ASSUME Unwind PROVE Closes("failed")
    OBVIOUS
  <2>1. pc = "unwinding" /\ operations # <<>> /\ EndOperation /\ uncaught = 1
    BY DEF Unwind, Counted
  <2> QED
    BY <2>1, EndTold
<1>7. Catch => Silent \/ Excuses
  <2> SUFFICES ASSUME Catch PROVE Silent \/ Excuses
    OBVIOUS
  <2>1. operations' = operations /\ pc # "start" /\ (events' = events \/ Write("error", Message))
    BY DEF Catch
  <2> QED
    BY <2>1, MessageTold DEF Silent, Excuses
<1> QED
  BY <1>1, <1>2, <1>3, <1>4, <1>5, <1>6, <1>7

\* A step tells nothing or one event, and the command line stays.
LEMMA Tells ==
  ASSUME PTypeOK, Counted, Scanned, StagesBegun, [PNext]_pvars
  PROVE  events' = events \/ \E e : Told(e)
<1>1. CASE UNCHANGED pvars
  BY <1>1 DEF pvars
<1>2. CASE Prescan \/ Argument \/ ArgumentsDone \/ ConfigDiagnostic
  BY <1>2, ArgumentsTell DEF Silent, Says
<1>3. CASE SolverReports \/ SolverWarns \/ SolverPrints
  BY <1>3, SolversTell DEF Silent, Says
<1>4. CASE \/ StartStage \/ FinishStage \/ StartNested \/ FinishNested \/ Fail \/ Return
           \/ Unwind \/ Catch
  BY <1>4, StagesTell DEF Silent, Says, Opens, Closes, Excuses
<1> QED
  BY <1>1, <1>2, <1>3, <1>4, Zenon DEF PNext

LEMMA ArgsKept ==
  ASSUME [PNext]_pvars
  PROVE  args' = args
BY DEF PNext, pvars, Prescan, Argument, ArgumentsDone, ConfigDiagnostic, StartStage, FinishStage,
       StartNested, FinishNested, SolverReports, SolverWarns, SolverPrints, Fail, Return, Unwind,
       Catch

\* The events behind one more.
LEMMA Appended ==
  ASSUME NEW T, NEW s \in Seq(T), NEW e
  PROVE  /\ Len(s) \in Nat /\ Len(Append(s, e)) = Len(s) + 1
         /\ DOMAIN s = 1 .. Len(s) /\ DOMAIN Append(s, e) = 1 .. Len(s) + 1
         /\ \A i \in 1 .. Len(s) : Append(s, e)[i] = s[i]
         /\ Append(s, e)[Len(s) + 1] = e
OBVIOUS

\* One format: every event told is in the one asked for.
LEMMA OneFormatNext ==
  ASSUME PTypeOK, Counted, Scanned, StagesBegun, OneFormat, [PNext]_pvars
  PROVE  OneFormat'
<1> DEFINE f == IF Prescanned THEN "json" ELSE "text"
<1>1. f' = f
  BY ArgsKept DEF Prescanned
<1>2. \A i \in DOMAIN events : events[i].kind # "version" => events[i].format = f
  BY DEF OneFormat
<1>3. \A e : Told(e) => e.kind = "version" \/ e.format = f
  BY DEF Told
<1> HIDE DEF f
<1>4. CASE events' = events
  <2>1. \A i \in DOMAIN events' : events'[i].kind # "version" => events'[i].format = f
    BY <1>2, <1>4
  <2> QED
    BY <1>1, <2>1 DEF OneFormat, f
<1>5. CASE \E e : Told(e)
  <2>1. PICK e : Told(e)
    BY <1>5
  <2>2. events \in Seq(Events) /\ events' = Append(events, e)
    BY <2>1 DEF PTypeOK, Told
  <2>3. \A i \in DOMAIN events' : events'[i].kind # "version" => events'[i].format = f
    BY <1>2, <1>3, <2>1, <2>2, Appended
  <2> QED
    BY <1>1, <2>3 DEF OneFormat, f
<1> QED
  BY <1>4, <1>5, Tells

-----------------------------------------------------------------------------
(* The status of a run: the command line and the verbosity.                 *)

\* The argument loop in terms of what it reads: the value of an option is passed over,
\* and every --verbosity is remembered.
LEMMA ParsedArgument ==
  ASSUME PTypeOK, StagesBegun, Parsed, Argument, pc' = "arguments"
  PROVE  Parsed'
<1> DEFINE opts == {"--output-directory", "--verbosity"}
<1>1. /\ pc = "arguments" /\ next \in 1 .. Len(args) /\ Len(args) \in Nat
      /\ args' = args /\ IsRead(args, next)
  BY ArgsFacts DEF Argument, Parsed, PTypeOK
<1>2. /\ IsRead(args, next + 1) <=> args[next] \notin opts
      /\ IsRead(args, next + 2) <=> ~(IsRead(args, next + 1) /\ args[next + 1] \in opts)
  <2>1. next \in Nat \ {0} /\ next + 1 \in Nat \ {0} /\ (next + 1) + 1 = next + 2
    BY <1>1
  <2>2. IsRead(args, next + 1) <=> ~(IsRead(args, next) /\ args[next] \in opts)
    BY <2>1, IsReadStep
  <2>3. IsRead(args, (next + 1) + 1) <=> ~(IsRead(args, next + 1) /\ args[next + 1] \in opts)
    BY <2>1, IsReadStep
  <2> QED
    BY <1>1, <2>1, <2>2, <2>3
<1>3. \A j \in VerbositiesGiven(args) :
        j \in 1 .. Len(args) /\ IsRead(args, j) /\ args[j] = "--verbosity"
  BY DEF VerbositiesGiven
<1>4. VerbositiesGiven(args)' = VerbositiesGiven(args)
  BY <1>1
<1>5. CASE HasValue /\ args[next] = "--verbosity" /\ args[next + 1] \in Values
           /\ cli_verbosity' = Verbosity(args[next + 1]) /\ explicit' = TRUE /\ next' = next + 2
  <2>1. next \in VerbositiesGiven(args) /\ ~IsRead(args, next + 1) /\ IsRead(args, next + 2)
    BY <1>1, <1>2, <1>5 DEF VerbositiesGiven
  <2>2. \A j \in VerbositiesGiven(args) : j < next + 2 => j <= next
    <3>1. \A j \in VerbositiesGiven(args) : j # next + 1
      BY <1>3, <2>1
    <3> QED
      BY <1>1, <1>3, <3>1
  <2>3. PICK k \in 1 .. Len(args) : k = next
    BY <1>1
  <2>4. LastVerbosity(k)'
    <3> SUFFICES /\ k \in VerbositiesGiven(args)' /\ k + 1 < next'
                 /\ \A j \in VerbositiesGiven(args)' : j < next' => j <= k
                 /\ args'[k + 1] \in Values /\ cli_verbosity' = Verbosity(args'[k + 1])
      BY DEF LastVerbosity
    <3> QED
      BY <1>1, <1>4, <1>5, <2>1, <2>2, <2>3
  <2>5. IsRead(args', next') /\ explicit' /\ k \in 1 .. Len(args')
    BY <1>1, <1>5, <2>1, <2>3
  <2> QED
    BY <2>4, <2>5, Zenon DEF Parsed
<1>6. CASE /\ UNCHANGED <<explicit, cli_verbosity>> /\ args[next] # "--verbosity"
           /\ \/ next' = next + 1 /\ args[next] \notin opts
              \/ next' = next + 2 /\ args[next] \in opts
  <2>1. IsRead(args, next')
    BY <1>2, <1>6
  <2>2. \A j \in VerbositiesGiven(args) : j < next' <=> j < next
    <3>1. next \notin VerbositiesGiven(args)
      BY <1>3, <1>6
    <3>2. next' = next + 2 => next + 1 \notin VerbositiesGiven(args)
      BY <1>1, <1>2, <1>3, <1>6
    <3> QED
      BY <1>1, <1>3, <1>6, <3>1, <3>2
  <2>3. ASSUME NEW i \in 1 .. Len(args), LastVerbosity(i) PROVE LastVerbosity(i)'
    <3> SUFFICES /\ i \in VerbositiesGiven(args)' /\ i + 1 < next'
                 /\ \A j \in VerbositiesGiven(args)' : j < next' => j <= i
                 /\ args'[i + 1] \in Values /\ cli_verbosity' = Verbosity(args'[i + 1])
      BY DEF LastVerbosity
    <3> QED
      BY <1>1, <1>4, <1>6, <2>2, <2>3 DEF LastVerbosity
  <2>4. explicit' => \E i \in 1 .. Len(args') : LastVerbosity(i)'
    BY <1>1, <1>6, <2>3 DEF Parsed
  <2>5. ~explicit' => cli_verbosity' = 0 /\ \A j \in VerbositiesGiven(args)' : j >= next'
    <3> SUFFICES ASSUME ~explicit
                 PROVE  cli_verbosity = 0 /\ \A j \in VerbositiesGiven(args) : j >= next'
      BY <1>4, <1>6
    <3>1. cli_verbosity = 0 /\ \A j \in VerbositiesGiven(args) : j >= next
      BY <1>1 DEF Parsed
    <3> QED
      BY <1>1, <1>3, <1>6, <2>2, <3>1
  <2> QED
    BY <1>1, <2>1, <2>4, <2>5 DEF Parsed
<1> QED
  <2>1. pc' # "ended" /\ pc' # "unwinding"
    OBVIOUS
  <2>2. Arg = args[next]
    BY DEF Arg
  <2> QED
    BY <1>5, <1>6, <2>1, <2>2 DEF Argument, Throw, options, Values

\* The loop's reading is kept by every other step.
LEMMA ParsedNext ==
  ASSUME PTypeOK, StagesBegun, Parsed, [PNext]_pvars
  PROVE  Parsed'
<1>1. CASE Argument
  <2>1. CASE pc' = "arguments"
    BY <1>1, <2>1, ParsedArgument
  <2>2. CASE pc' # "arguments"
    <3>1. pc' # "start"
      BY <1>1, <2>2 DEF Argument, Throw
    <3> QED
      BY <2>2, <3>1 DEF Parsed
  <2> QED
    BY <2>1, <2>2
<1>2. CASE Prescan \/ UNCHANGED pvars
  <2>1. /\ UNCHANGED <<args, next, explicit, cli_verbosity>>
        /\ pc' \in {"start", "arguments"} => pc \in {"start", "arguments"}
    BY <1>2 DEF Prescan, pvars, options
  <2> QED
    BY <2>1 DEF Parsed, LastVerbosity
<1>3. CASE \/ ArgumentsDone \/ ConfigDiagnostic
           \/ StartStage \/ FinishStage \/ StartNested \/ FinishNested
           \/ SolverReports \/ SolverWarns \/ SolverPrints \/ Fail \/ Return \/ Unwind \/ Catch
  <2>1. pc' # "start" /\ pc' # "arguments"
    BY <1>3 DEF ArgumentsDone, ConfigDiagnostic, StartStage, FinishStage, StartNested, FinishNested,
       SolverReports, SolverWarns, SolverPrints, Fail, Return, Unwind, Catch, Messages, InStage,
       Running, Throw
  <2> QED
    BY <2>1 DEF Parsed
<1> QED
  BY <1>1, <1>2, <1>3, Zenon DEF PNext

\* Behind the loop the level set is the one asked for.
LEMMA LevelIsAsked ==
  ASSUME PTypeOK, Scanned, Parsed, ArgumentsDone
  PROVE  Level = Asked
<1>1. /\ next = Len(args) + 1 /\ Len(args) \in Nat /\ pc = "arguments"
      /\ machine <=> Flagged(args)
  BY ArgsFacts DEF ArgumentsDone, Scanned, Prescanned, PTypeOK
<1>2. \A j \in VerbositiesGiven(args) : j \in 1 .. Len(args) /\ j < next
  BY <1>1 DEF VerbositiesGiven
<1>3. CASE explicit
  <2>1. PICK i \in 1 .. Len(args) : LastVerbosity(i)
    BY <1>1, <1>3 DEF Parsed
  <2>2. i \in VerbositiesGiven(args) /\ \A j \in VerbositiesGiven(args) : j <= i
    BY <1>2, <2>1 DEF LastVerbosity
  <2> DEFINE L(k) == k \in VerbositiesGiven(args) /\ \A j \in VerbositiesGiven(args) : j <= k
             last == CHOOSE k \in VerbositiesGiven(args) : \A j \in VerbositiesGiven(args) : j <= k
  <2>3. last \in VerbositiesGiven(args) /\ \A j \in VerbositiesGiven(args) : j <= last
    BY <2>2
  <2> HIDE DEF last
  <2>4. last = i
    BY <1>2, <2>2, <2>3
  <2>5. Asked = Verbosity(args[last + 1])
    BY <2>2 DEF Asked, AskedBy, last
  <2> QED
    BY <1>3, <2>1, <2>4, <2>5 DEF Level, LastVerbosity
<1>4. CASE ~explicit
  <2>1. cli_verbosity = 0 /\ \A j \in VerbositiesGiven(args) : j >= next
    BY <1>1, <1>4 DEF Parsed
  <2>2. VerbositiesGiven(args) = {}
    BY <1>1, <1>2, <2>1
  <2>3. Asked = IF Flagged(args) THEN 1 ELSE 0
    BY <2>2 DEF Asked, AskedBy
  <2> QED
    BY <1>1, <1>4, <2>1, <2>3 DEF Level
<1> QED
  BY <1>3, <1>4 DEF PTypeOK

\* Nothing is printed that the verbosity asked for excludes.
LEMMA VerbosityNext ==
  ASSUME PTypeOK, Counted, Scanned, StagesBegun, Parsed, VerbosityAsAsked, [PNext]_pvars
  PROVE  VerbosityAsAsked'
<1>1. Asked' = Asked
  BY ArgsKept DEF Asked
<1>2. CASE ArgumentsDone
  <2>1. verbosity' = Asked /\ events = <<>> /\ events' = Append(events, Event("status", Message))
    BY <1>2, LevelIsAsked DEF ArgumentsDone, StagesBegun, Write
  <2>2. \A i \in DOMAIN events' : events'[i] = Event("status", Message)
    BY <2>1
  <2>3. Event("status", Message).kind = "status"
    BY DEF Event
  <2> QED
    BY <1>1, <2>1, <2>2, <2>3 DEF VerbosityAsAsked
<1>3. CASE ~ArgumentsDone
  <2> SUFFICES ASSUME stage' > 0
               PROVE  /\ verbosity' = Asked
                      /\ \A i \in DOMAIN events' :
                           /\ events'[i].kind = "solver" /\ events'[i].name # PrintedWarning
                              => Asked >= 1
                           /\ events'[i].kind = "diagnostic" => Asked = 2
    BY <1>1 DEF VerbosityAsAsked
  <2>1. verbosity' = verbosity /\ (stage' = stage \/ pc = "stage")
    BY <1>3 DEF PNext, pvars, Prescan, Argument, ConfigDiagnostic, StartStage, FinishStage,
       StartNested, FinishNested, SolverReports, SolverWarns, SolverPrints, Fail, Return, Unwind,
       Catch, reporter, Running
  <2>2. stage > 0
    BY <2>1, StagesFacts DEF StagesBegun, PTypeOK
  <2>3. /\ verbosity = Asked
        /\ \A i \in DOMAIN events :
             /\ events[i].kind = "solver" /\ events[i].name # PrintedWarning => Asked >= 1
             /\ events[i].kind = "diagnostic" => Asked = 2
    BY <2>2 DEF VerbosityAsAsked
  <2> HIDE DEF Asked
  <2>4. CASE events' = events
    BY <2>1, <2>3, <2>4
  <2>5. CASE \E e : Told(e)
    <3>1. PICK e : Told(e)
      BY <2>5
    <3>2. events \in Seq(Events) /\ events' = Append(events, e)
      BY <3>1 DEF PTypeOK, Told
    <3>3. /\ e.kind = "solver" /\ e.name # PrintedWarning => Asked >= 1
          /\ e.kind = "diagnostic" => Asked = 2
      BY <2>3, <3>1 DEF Told
    <3> QED
      BY <2>1, <2>3, <3>2, <3>3, Appended
  <2> QED
    BY <2>4, <2>5, Tells
<1> QED
  BY <1>2, <1>3

-----------------------------------------------------------------------------
(* The status of a run: nesting and stages.                                 *)

\* Reading one more event.
LEMMA ReadOneMore ==
  ASSUME NEW s \in Seq(Events), NEW e
  PROVE  /\ \A n \in 0 .. Len(s) : OpenAfter(Append(s, e), n) = OpenAfter(s, n)
         /\ OpenAfter(Append(s, e), Len(s) + 1) = ReadEvent(OpenAfter(s, Len(s)), e)
<1> DEFINE t == Append(s, e)
<1>1. /\ Len(s) \in Nat /\ \A i \in 1 .. Len(s) : t[i] = s[i]
      /\ t[Len(s) + 1] = e
  BY Appended
<1> HIDE DEF t
<1>2. \A n \in 0 .. Len(s) : OpenAfter(t, n) = OpenAfter(s, n)
  BY <1>1, OpenSame
<1>3. OpenAfter(t, Len(s) + 1) = ReadEvent(OpenAfter(t, Len(s)), t[Len(s) + 1])
  BY <1>1, OpenStep
<1>4. OpenAfter(t, Len(s)) = OpenAfter(s, Len(s))
  BY <1>1, <1>2
<1> QED
  BY <1>1, <1>2, <1>3, <1>4 DEF t

\* The names of the operations alive, as the stack grows and shrinks.
NamesOf(ops) == [i \in DOMAIN ops |-> ops[i].name]

LEMMA NamesOfSeq ==
  ASSUME NEW ops \in Seq(Operations)
  PROVE  NamesOf(ops) \in Seq(EventNames) /\ Len(NamesOf(ops)) = Len(ops)
<1>1. \A i \in 1 .. Len(ops) : ops[i].name \in EventNames
  <2>1. \A i \in 1 .. Len(ops) : ops[i] \in Operations
    OBVIOUS
  <2> QED
    BY <2>1 DEF Operations
<1> QED
  BY <1>1 DEF NamesOf

LEMMA NamesOfAppended ==
  ASSUME NEW ops \in Seq(Operations), NEW o \in Operations
  PROVE  NamesOf(Append(ops, o)) = Append(NamesOf(ops), o.name)
<1>1. Append(ops, o) \in Seq(Operations) /\ o.name \in EventNames
  BY DEF Operations
<1>2. /\ NamesOf(ops) \in Seq(EventNames) /\ Len(NamesOf(ops)) = Len(ops)
      /\ NamesOf(Append(ops, o)) \in Seq(EventNames)
      /\ Len(NamesOf(Append(ops, o))) = Len(Append(ops, o))
  BY <1>1, NamesOfSeq
<1>3. /\ Append(NamesOf(ops), o.name) \in Seq(EventNames)
      /\ Len(Append(NamesOf(ops), o.name)) = Len(NamesOf(Append(ops, o)))
  BY <1>1, <1>2
<1>4. ASSUME NEW i \in 1 .. Len(ops) + 1
      PROVE  NamesOf(Append(ops, o))[i] = Append(NamesOf(ops), o.name)[i]
  <2>1. i \in DOMAIN Append(ops, o) /\ NamesOf(Append(ops, o))[i] = Append(ops, o)[i].name
    BY <1>4 DEF NamesOf
  <2>2. CASE i <= Len(ops)
    <3>1. Append(ops, o)[i] = ops[i] /\ i \in DOMAIN ops
      BY <2>2
    <3>2. Append(NamesOf(ops), o.name)[i] = NamesOf(ops)[i]
      BY <1>2, <2>2
    <3> QED
      BY <2>1, <3>1, <3>2 DEF NamesOf
  <2>3. CASE i = Len(ops) + 1
    <3>1. Append(ops, o)[i] = o
      BY <2>3
    <3>2. Append(NamesOf(ops), o.name)[i] = o.name
      BY <1>2, <2>3
    <3> QED
      BY <2>1, <3>1, <3>2
  <2>4. Len(ops) \in Nat
    OBVIOUS
  <2>5. i <= Len(ops) \/ i = Len(ops) + 1
    BY <2>4
  <2> QED
    BY <2>2, <2>3, <2>5
<1> HIDE DEF NamesOf
<1>5. Len(NamesOf(Append(ops, o))) = Len(ops) + 1
  BY <1>2
<1> QED
  BY <1>2, <1>3, <1>4, <1>5, SeqEqual

LEMMA NamesOfRest ==
  ASSUME NEW ops \in Seq(Operations), ops # <<>>
  PROVE  /\ Len(ops) \in Nat \ {0} /\ NamesOf(ops) # <<>>
         /\ NamesOf(ops)[Len(NamesOf(ops))] = ops[Len(ops)].name
         /\ NamesOf(SubSeq(ops, 1, Len(ops) - 1))
              = SubSeq(NamesOf(ops), 1, Len(NamesOf(ops)) - 1)
<1> DEFINE rest == SubSeq(ops, 1, Len(ops) - 1)
<1>1. Len(ops) \in Nat \ {0}
  BY EmptySeq
<1>2. NamesOf(ops) \in Seq(EventNames) /\ Len(NamesOf(ops)) = Len(ops)
  BY NamesOfSeq
<1>3. NamesOf(ops) # <<>>
  BY <1>1, <1>2
<1>4. NamesOf(ops)[Len(NamesOf(ops))] = ops[Len(ops)].name
  BY <1>1, <1>2 DEF NamesOf
<1>5. /\ rest \in Seq(Operations) /\ Len(rest) = Len(ops) - 1
      /\ \A i \in 1 .. Len(ops) - 1 : rest[i] = ops[i]
  BY <1>1, SubSeqProperties
<1> HIDE DEF rest
<1>6. NamesOf(rest) \in Seq(EventNames) /\ Len(NamesOf(rest)) = Len(ops) - 1
  BY <1>5, NamesOfSeq
<1> DEFINE shorter == SubSeq(NamesOf(ops), 1, Len(NamesOf(ops)) - 1)
<1>7. /\ shorter \in Seq(EventNames) /\ Len(shorter) = Len(ops) - 1
      /\ \A i \in 1 .. Len(ops) - 1 : shorter[i] = NamesOf(ops)[i]
  BY <1>1, <1>2, SubSeqProperties
<1> HIDE DEF shorter
<1>8. \A i \in 1 .. Len(ops) - 1 : NamesOf(rest)[i] = shorter[i]
  <2> SUFFICES ASSUME NEW i \in 1 .. Len(ops) - 1 PROVE NamesOf(rest)[i] = shorter[i]
    OBVIOUS
  <2>1. i \in DOMAIN rest /\ i \in DOMAIN ops
    BY <1>1, <1>5
  <2>2. NamesOf(rest)[i] = rest[i].name /\ NamesOf(ops)[i] = ops[i].name
    BY <2>1 DEF NamesOf
  <2> QED
    BY <1>5, <1>7, <2>2
<1>9. NamesOf(rest) = shorter
  BY <1>6, <1>7, <1>8, SeqEqual
<1> QED
  BY <1>1, <1>3, <1>4, <1>9 DEF rest, shorter

\* A step leaves what a reader believes to be open and what is alive in agreement.
LEMMA NestEffect ==
  ASSUME PTypeOK, OpenAfter(events, Len(events)) = NamesOf(operations),
         \/ Silent \/ Says \/ (\E name : Opens(name))
         \/ (\E kind \in {"completed", "failed"} : Closes(kind)) \/ Excuses
  PROVE  OpenAfter(events', Len(events')) = NamesOf(operations')
<1>1. events \in Seq(Events) /\ operations \in Seq(Operations)
  BY DEF PTypeOK
<1>2. ASSUME NEW e, events' = Append(events, e)
      PROVE  OpenAfter(events', Len(events')) = ReadEvent(NamesOf(operations), e)
  <2>1. Len(events') = Len(events) + 1
    BY <1>1, <1>2, Appended
  <2> QED
    BY <1>1, <1>2, <2>1, ReadOneMore
<1>3. CASE Silent
  BY <1>3 DEF Silent
<1>4. CASE Says \/ Excuses
  <2>1. PICK e : Told(e) /\ e.kind \in Neutral \cup {"error"} /\ operations' = operations
    BY <1>4 DEF Says, Excuses
  <2>2. ReadEvent(NamesOf(operations), e) = NamesOf(operations)
    BY <2>1, Zenon DEF ReadEvent, Neutral
  <2> QED
    BY <1>2, <2>1, <2>2 DEF Told
<1>5. CASE \E name : Opens(name)
  <2>1. PICK name : Opens(name)
    BY <1>5
  <2> DEFINE o == [name |-> name, exception_count |-> 0]
  <2>2. o \in Operations /\ o.name = name /\ operations' = Append(operations, o)
    BY <2>1 DEF Opens, Operations
  <2>3. events' = Append(events, Event("started", name))
    BY <2>1 DEF Opens, Told
  <2>4. ReadEvent(NamesOf(operations), Event("started", name)) = Append(NamesOf(operations), name)
    BY DEF ReadEvent, Event
  <2> HIDE DEF o
  <2>5. NamesOf(operations') = Append(NamesOf(operations), name)
    BY <1>1, <2>2, NamesOfAppended
  <2> QED
    BY <1>2, <2>3, <2>4, <2>5
<1>6. CASE \E kind \in {"completed", "failed"} : Closes(kind)
  <2>1. PICK kind \in {"completed", "failed"} : Closes(kind)
    BY <1>6
  <2> DEFINE open == NamesOf(operations)
             e == Event(kind, Ending.name)
  <2>2. /\ operations # <<>> /\ events' = Append(events, e)
        /\ operations' = SubSeq(operations, 1, Len(operations) - 1)
    BY <2>1 DEF Closes, Told
  <2>3. e.kind \in {"completed", "failed"} /\ e.name = Ending.name
    BY DEF Event
  <2>4. /\ open # <<>> /\ open[Len(open)] = Ending.name
        /\ NamesOf(operations') = SubSeq(open, 1, Len(open) - 1)
    BY <1>1, <2>2, NamesOfRest DEF Ending
  <2>5. OpenAfter(events', Len(events')) = ReadEvent(open, e)
    BY <1>2, <2>2
  <2> HIDE DEF open, e
  <2>6. ReadEvent(open, e) = SubSeq(open, 1, Len(open) - 1)
    BY <2>3, <2>4 DEF ReadEvent
  <2> QED
    BY <2>4, <2>5, <2>6
<1> QED
  BY <1>3, <1>4, <1>5, <1>6

\* The effects of all steps.
LEMMA EffectsNext ==
  ASSUME PTypeOK, Counted, Scanned, StagesBegun, [PNext]_pvars
  PROVE  \/ Silent \/ Says \/ (\E name : Opens(name))
         \/ (\E kind \in {"completed", "failed"} : Closes(kind)) \/ Excuses
<1>1. CASE UNCHANGED pvars
  BY <1>1 DEF pvars, Silent
<1>2. CASE Prescan \/ Argument \/ ArgumentsDone \/ ConfigDiagnostic
  BY <1>2, ArgumentsTell
<1>3. CASE SolverReports \/ SolverWarns \/ SolverPrints
  BY <1>3, SolversTell
<1>4. CASE \/ StartStage \/ FinishStage \/ StartNested \/ FinishNested \/ Fail \/ Return
           \/ Unwind \/ Catch
  BY <1>4, StagesTell
<1> QED
  BY <1>1, <1>2, <1>3, <1>4, Zenon DEF PNext

\* Nothing is alive once the program has ended.
LEMMA NestNext ==
  ASSUME PTypeOK, Counted, Scanned, StagesBegun, OperationsNest, StageOpen, [PNext]_pvars
  PROVE  OperationsNest'
<1>1. OpenAfter(events, Len(events)) = NamesOf(operations)
  BY DEF OperationsNest, NamesOf
<1>2. OpenAfter(events', Len(events')) = NamesOf(operations')
  BY <1>1, EffectsNext, NestEffect
<1>3. ASSUME pc' = "ended" PROVE operations' = <<>>
  <2>1. CASE UNCHANGED pvars
    BY <1>3, <2>1 DEF pvars, OperationsNest
  <2>2. CASE Argument
    BY <2>2 DEF Argument, StagesBegun
  <2>3. CASE Return
    <3>1. ~(stage <= Len(Stages)) /\ pc = "stage" /\ operations' = operations
      BY <2>3, StagesFacts DEF Return, PTypeOK
    <3> QED
      BY <3>1 DEF StageOpen
  <2>4. CASE Catch
    BY <2>4 DEF Catch
  <2>5. CASE \/ Prescan \/ ArgumentsDone \/ ConfigDiagnostic
             \/ StartStage \/ FinishStage \/ StartNested \/ FinishNested
             \/ SolverReports \/ SolverWarns \/ SolverPrints \/ Fail \/ Unwind
    BY <1>3, <2>5 DEF Prescan, ArgumentsDone, ConfigDiagnostic, StartStage, FinishStage,
       StartNested, FinishNested, SolverReports, SolverWarns, SolverPrints, Fail, Unwind, Messages,
       InStage, Running, Throw
  <2> QED
    BY <2>1, <2>2, <2>3, <2>4, <2>5, Zenon DEF PNext
<1> QED
  BY <1>2, <1>3 DEF OperationsNest, NamesOf

\* What is alive in a stage is the stage's operation and, inside it, the solver's.
LEMMA StageOpenNext ==
  ASSUME PTypeOK, Counted, Scanned, StagesBegun, StageOpen, [PNext]_pvars
  PROVE  StageOpen'
<1> SUFFICES ASSUME pc' = "stage", operations' # <<>>
             PROVE  /\ stage' <= Len(Stages) /\ Current.operation' # Unreported
                    /\ operations'[1].name = Current.operation'
                    /\ \A i \in DOMAIN operations' : i > 1 => operations'[i].name \in InnerNames
  BY DEF StageOpen
<1>1. operations \in Seq(Operations) /\ stage \in Nat
  BY StagesFacts DEF PTypeOK
<1>2. CASE \/ UNCHANGED pvars \/ SolverReports \/ SolverWarns \/ SolverPrints
  <2>1. UNCHANGED <<pc, operations, stage>>
    BY <1>2 DEF pvars, SolverReports, SolverWarns, SolverPrints
  <2>2. pc = "stage" /\ operations # <<>>
    BY <2>1
  <2> QED
    BY <2>1, <2>2 DEF StageOpen, Current
<1>3. CASE StartStage
  <2> DEFINE o == [name |-> Current.operation, exception_count |-> 0]
  <2>1. /\ operations = <<>> /\ stage' = stage /\ stage <= Len(Stages)
        /\ Current.operation # Unreported /\ operations' = Append(operations, o)
    BY <1>3, StagesTell DEF StartStage, Running, Opens
  <2>2. o.name = Current.operation
    OBVIOUS
  <2> HIDE DEF o
  <2>3. operations' = <<o>> /\ DOMAIN operations' = 1..1 /\ operations'[1] = o
    BY <2>1
  <2> QED
    BY <2>1, <2>2, <2>3 DEF Current
<1>4. CASE StartNested
  <2> DEFINE o == [name |-> Inner[nested + 1], exception_count |-> 0]
  <2>1. /\ operations # <<>> /\ stage' = stage /\ pc = "stage"
        /\ operations' = Append(operations, o) /\ Inner[nested + 1] \in InnerNames
    BY <1>4, StagesTell DEF StartNested, InStage, Running, Opens
  <2>2. o.name = Inner[nested + 1]
    OBVIOUS
  <2> HIDE DEF o
  <2>3. Len(operations) \in Nat \ {0}
    BY <1>1, <2>1, EmptySeq
  <2>4. /\ DOMAIN operations' = 1 .. Len(operations) + 1
        /\ \A i \in 1 .. Len(operations) : operations'[i] = operations[i]
        /\ operations'[Len(operations) + 1] = o
    BY <1>1, <2>1, Appended
  <2> QED
    BY <1>1, <2>1, <2>2, <2>3, <2>4 DEF StageOpen, Current
<1>5. CASE FinishNested
  <2>1. /\ operations # <<>> /\ Len(operations) > 1 /\ stage' = stage /\ pc = "stage"
        /\ operations' = SubSeq(operations, 1, Len(operations) - 1)
    BY <1>5 DEF FinishNested, InStage, Running, EndOperation
  <2>2. /\ Len(operations) \in Nat /\ DOMAIN operations' = 1 .. Len(operations) - 1
        /\ \A i \in 1 .. Len(operations) - 1 : operations'[i] = operations[i]
    BY <1>1, <2>1, SubSeqProperties
  <2> QED
    BY <1>1, <2>1, <2>2 DEF StageOpen, Current
<1>6. CASE FinishStage
  <2>1. pc = "stage"
    BY <1>6 DEF FinishStage, Running
  <2>2. CASE Current.operation = Unreported /\ operations' = operations
    BY <2>1, <2>2 DEF StageOpen
  <2>3. CASE Len(operations) = 1 /\ EndOperation
    <3>1. operations' = SubSeq(operations, 1, 0)
      BY <2>3 DEF EndOperation
    <3>2. operations' = <<>>
      BY <1>1, <3>1
    <3> QED
      BY <3>2
  <2> QED
    BY <1>6, <2>2, <2>3 DEF FinishStage
<1>7. CASE ConfigDiagnostic
  BY <1>7 DEF ConfigDiagnostic, StagesBegun
<1>8. CASE \/ Prescan \/ Argument \/ ArgumentsDone \/ Fail \/ Return \/ Unwind \/ Catch
  BY <1>8 DEF Prescan, Argument, ArgumentsDone, Fail, Return, Unwind, Catch, Throw
<1> QED
  BY <1>2, <1>3, <1>4, <1>5, <1>6, <1>7, <1>8, Zenon DEF PNext

\* The completed stages that a reader sees in the events s.
StageCompleted(e) == e.kind = "completed" /\ \E s \in Reported : Stages[s].operation = e.name
Done(s) ==
  NamesUpTo([i \in DOMAIN s |-> s[i].name], {i \in DOMAIN s : StageCompleted(s[i])}, Len(s))
StageLabels == [s \in DOMAIN Stages |-> Stages[s].operation]

LEMMA DoneOneMore ==
  ASSUME NEW s \in Seq(Events), NEW e
  PROVE  Done(Append(s, e)) = IF StageCompleted(e) THEN Append(Done(s), e.name) ELSE Done(s)
<1> DEFINE t == Append(s, e)
           names(x) == [i \in DOMAIN x |-> x[i].name]
           done(x) == {i \in DOMAIN x : StageCompleted(x[i])}
           n == Len(s)
<1>1. /\ n \in Nat /\ Len(t) = n + 1 /\ DOMAIN s = 1..n /\ DOMAIN t = 1 .. n + 1
      /\ \A i \in 1..n : t[i] = s[i]
      /\ t[n + 1] = e
  BY Appended
<1> HIDE DEF t, n
<1>2. /\ \A i \in 1..n : names(t)[i] = names(s)[i] /\ (i \in done(t) <=> i \in done(s))
      /\ names(t)[n + 1] = e.name /\ (n + 1 \in done(t) <=> StageCompleted(e))
  <2>1. \A i \in 1..n : i \in DOMAIN s /\ i \in DOMAIN t
    BY <1>1
  <2>2. n + 1 \in DOMAIN t
    BY <1>1
  <2> QED
    BY <1>1, <2>1, <2>2
<1>3. /\ Done(t) = NamesUpTo(names(t), done(t), n + 1)
      /\ Done(s) = NamesUpTo(names(s), done(s), n)
  BY <1>1 DEF Done, n
<1> HIDE DEF names, done
<1>4. NamesUpTo(names(t), done(t), n) = NamesUpTo(names(s), done(s), n)
  <2>1. PICK r, q, M, L : r = names(t) /\ q = names(s) /\ M = done(t) /\ L = done(s)
    BY Zenon
  <2>2. n \in Nat /\ \A k \in 1..n : r[k] = q[k] /\ (k \in M <=> k \in L)
    BY <1>1, <1>2, <2>1
  <2>3. NamesUpTo(r, M, n) = NamesUpTo(q, L, n)
    BY <2>2, NamesUpToAlike
  <2> QED
    BY <2>1, <2>3, Zenon
<1>5. NamesUpTo(names(t), done(t), n + 1)
        = IF n + 1 \in done(t) THEN Append(NamesUpTo(names(t), done(t), n), names(t)[n + 1])
          ELSE NamesUpTo(names(t), done(t), n)
  <2>1. n \in Nat
    BY <1>1
  <2> QED
    BY <2>1, NamesUpToOneMore, Zenon
<1> QED
  BY <1>2, <1>3, <1>4, <1>5 DEF t

\* What a step adds to the stages seen to complete.
LEMMA DoneEffect ==
  ASSUME PTypeOK
  PROVE  /\ Silent \/ Says \/ (\E name : Opens(name)) \/ Closes("failed") \/ Excuses
              => Done(events') = Done(events)
         /\ Closes("completed") =>
              Done(events') = IF Ending.name \in {Stages[s].operation : s \in Reported}
                              THEN Append(Done(events), Ending.name) ELSE Done(events)
<1>1. events \in Seq(Events)
  BY DEF PTypeOK
<1>2. ASSUME NEW e, Told(e), e.kind # "completed" PROVE Done(events') = Done(events)
  BY <1>1, <1>2, DoneOneMore DEF Told, StageCompleted
<1>4. Says \/ Excuses => Done(events') = Done(events)
  BY <1>2 DEF Says, Excuses, Neutral
<1>5. \A kind \in {"started", "failed"} : \A name :
        Told(Event(kind, name)) => Done(events') = Done(events)
  <2>1. \A kind, name : Event(kind, name).kind = kind
    BY DEF Event
  <2> QED
    BY <1>2, <2>1
<1>6. (\E name : Opens(name)) \/ Closes("failed") => Done(events') = Done(events)
  BY <1>5 DEF Opens, Closes
<1>7. ASSUME Closes("completed")
      PROVE  Done(events') = IF Ending.name \in {Stages[s].operation : s \in Reported}
                             THEN Append(Done(events), Ending.name) ELSE Done(events)
  <2> DEFINE e == Event("completed", Ending.name)
  <2>1. events' = Append(events, e)
    BY <1>7 DEF Closes, Told
  <2>2. e.kind = "completed" /\ e.name = Ending.name
    BY DEF Event
  <2> HIDE DEF e
  <2>3. StageCompleted(e) <=> Ending.name \in {Stages[s].operation : s \in Reported}
    BY <2>2 DEF StageCompleted
  <2> QED
    BY <1>1, <2>1, <2>2, <2>3, DoneOneMore
<1> QED
  <2>1. Silent => Done(events') = Done(events)
    BY DEF Silent
  <2> QED
    BY <1>4, <1>6, <1>7, <2>1

\* The stages reported completed are those left behind.
LEMMA StagesReportedNext ==
  ASSUME PTypeOK, Counted, Scanned, StagesBegun, StageOpen, StagesAreReported, [PNext]_pvars
  PROVE  StagesAreReported'
<1> DEFINE left(n) == NamesUpTo(StageLabels, Reported, n)
<1>0. /\ stage \in 0..12 /\ Len(Stages) = 11 /\ DOMAIN Stages = 1..11
      /\ operations \in Seq(Operations)
  BY StagesFacts DEF PTypeOK
<1>1. Done(events) = left(LeftBehind)
  BY DEF StagesAreReported, Done, CompletedStages, StageCompleted, StageLabels
<1>2. Done(events') = left(LeftBehind')
  <2>1. CASE FinishStage
    <3>1. pc = "stage" /\ stage' = stage + 1 /\ stage \in 1..11
      BY <1>0, <2>1 DEF FinishStage, Running, StagesBegun
    <3>2. /\ LeftBehind = stage - 1 /\ LeftBehind' = stage
          /\ (stage - 1) + 1 = stage /\ stage - 1 \in Nat
      BY <1>0, <3>1 DEF LeftBehind
    <3>3. left(stage) = IF stage \in Reported THEN Append(left(stage - 1), StageLabels[stage])
                        ELSE left(stage - 1)
      <4>1. left((stage - 1) + 1) = IF (stage - 1) + 1 \in Reported
                                    THEN Append(left(stage - 1), StageLabels[(stage - 1) + 1])
                                    ELSE left(stage - 1)
        BY <3>2, NamesUpToOneMore, Zenon
      <4> QED
        BY <3>2, <4>1, Zenon
    <3>4. StageLabels[stage] = Current.operation
          /\ (stage \in Reported <=> Current.operation # Unreported)
      BY <1>0, <3>1 DEF StageLabels, Current, Reported
    <3> HIDE DEF left
    <3>5. CASE Current.operation = Unreported /\ (Silent \/ Says)
      <4>1. Done(events') = Done(events)
        BY <3>5, DoneEffect
      <4> QED
        BY <1>1, <3>2, <3>3, <3>4, <3>5, <4>1
    <3>6. CASE Current.operation # Unreported /\ Len(operations) = 1 /\ Closes("completed")
      <4>1. Ending = operations[1] /\ operations # <<>>
        BY <3>6 DEF Ending, Closes
      <4>2. Ending.name = Current.operation
        BY <3>1, <4>1 DEF StageOpen
      <4>3. Ending.name \in {Stages[s].operation : s \in Reported}
        BY <3>4, <3>6, <4>2 DEF Current
      <4>4. Done(events') = Append(Done(events), Ending.name)
        BY <3>6, <4>3, DoneEffect
      <4> QED
        BY <1>1, <3>2, <3>3, <3>4, <3>6, <4>2, <4>4
    <3> QED
      BY <2>1, <3>5, <3>6, StagesTell
  <2>2. CASE ArgumentsDone
    <3>1. stage = 0 /\ stage' = 1
      BY <2>2 DEF ArgumentsDone, StagesBegun
    <3>2. LeftBehind = 0 /\ LeftBehind' = 0
      BY <3>1 DEF LeftBehind
    <3> QED
      BY <1>1, <2>2, <3>2, ArgumentsTell, DoneEffect
  <2>3. CASE FinishNested
    <3>1. /\ Len(operations) > 1 /\ operations # <<>> /\ pc = "stage" /\ stage' = stage
          /\ Closes("completed")
      BY <2>3, StagesTell DEF FinishNested, InStage, Running
    <3>2. Len(operations) \in DOMAIN operations
      BY <1>0, <3>1
    <3>3. Ending.name \in InnerNames
      BY <3>1, <3>2 DEF Ending, StageOpen
    <3>4. Ending.name \notin {Stages[s].operation : s \in Reported}
      <4>1. PICK i \in DOMAIN Inner : Ending.name = Inner[i]
        BY <3>3 DEF InnerNames
      <4> QED
        BY <4>1, InnerAssumption DEF Reported
    <3>5. LeftBehind' = LeftBehind
      BY <3>1 DEF LeftBehind
    <3> QED
      BY <1>1, <3>1, <3>4, <3>5, DoneEffect
  <2>4. CASE \/ UNCHANGED pvars \/ Prescan \/ Argument \/ ConfigDiagnostic \/ StartStage
             \/ StartNested \/ SolverReports \/ SolverWarns \/ SolverPrints \/ Fail \/ Return
             \/ Unwind \/ Catch
    <3>1. stage' = stage
      BY <2>4 DEF pvars, Prescan, Argument, ConfigDiagnostic, StartStage, StartNested,
         SolverReports, SolverWarns, SolverPrints, Fail, Return, Unwind, Catch
    <3>2. LeftBehind' = LeftBehind
      BY <3>1 DEF LeftBehind
    <3>3. Silent \/ Says \/ (\E name : Opens(name)) \/ Closes("failed") \/ Excuses
      <4>1. UNCHANGED pvars => Silent
        BY DEF pvars, Silent
      <4> QED
        BY <2>4, <4>1, ArgumentsTell, SolversTell, StagesTell
    <3> QED
      BY <1>1, <3>2, <3>3, DoneEffect
  <2> QED
    BY <2>1, <2>2, <2>3, <2>4, Zenon DEF PNext
<1>3. ASSUME pc' = "ended", exit' = "0", stage' > 0 PROVE stage' > Len(Stages)
  <2>1. CASE UNCHANGED pvars
    BY <1>3, <2>1 DEF pvars, StagesAreReported
  <2>2. CASE Argument
    BY <1>3, <2>2 DEF Argument, StagesBegun
  <2>3. CASE Return
    BY <2>3 DEF Return
  <2>4. CASE Catch
    BY <1>3, <2>4 DEF Catch, ExitCode
  <2>5. CASE \/ Prescan \/ ArgumentsDone \/ ConfigDiagnostic
             \/ StartStage \/ FinishStage \/ StartNested \/ FinishNested
             \/ SolverReports \/ SolverWarns \/ SolverPrints \/ Fail \/ Unwind
    BY <1>3, <2>5 DEF Prescan, ArgumentsDone, ConfigDiagnostic, StartStage, FinishStage,
       StartNested, FinishNested, SolverReports, SolverWarns, SolverPrints, Fail, Unwind, Messages,
       InStage, Running, Throw
  <2> QED
    BY <2>1, <2>2, <2>3, <2>4, <2>5, Zenon DEF PNext
<1>4. NamesUpTo([i \in DOMAIN events' |-> events'[i].name], CompletedStages', Len(events'))
        = NamesUpTo(StageLabels, Reported, LeftBehind')
  BY <1>2 DEF Done, CompletedStages, StageCompleted
<1> QED
  BY <1>3, <1>4 DEF StagesAreReported, StageLabels

-----------------------------------------------------------------------------
(* The status of a run: failures.                                           *)

\* One more event: which of them are failures.
LEMMA FailuresOneMore ==
  ASSUME events \in Seq(Events), NEW e, events' = Append(events, e)
  PROVE  /\ Len(events) \in Nat /\ Len(events') = Len(events) + 1
         /\ DOMAIN events = 1 .. Len(events) /\ DOMAIN events' = 1 .. Len(events) + 1
         /\ \A i \in 1 .. Len(events) : /\ events'[i] = events[i]
                                        /\ i \in Failures' <=> i \in Failures
         /\ events'[Len(events) + 1] = e
         /\ Len(events) + 1 \in Failures' <=> e.kind \in {"failed", "error"}
<1>1. /\ Len(events) \in Nat /\ Len(events') = Len(events) + 1
      /\ DOMAIN events = 1 .. Len(events) /\ DOMAIN events' = 1 .. Len(events) + 1
      /\ \A i \in 1 .. Len(events) : events'[i] = events[i]
      /\ events'[Len(events) + 1] = e
  BY Appended
<1>2. \A i \in 1 .. Len(events) : i \in DOMAIN events /\ i \in DOMAIN events'
  BY <1>1
<1>3. \A i \in 1 .. Len(events) : i \in Failures' <=> i \in Failures
  BY <1>1, <1>2 DEF Failures
<1>4. Len(events) + 1 \in DOMAIN events'
  BY <1>1
<1>5. Len(events) + 1 \in Failures' <=> e.kind \in {"failed", "error"}
  BY <1>1, <1>4 DEF Failures
<1> QED
  BY <1>1, <1>3, <1>5

\* What is thrown, is thrown silently.
LEMMA ThrowsSilently ==
  ASSUME PTypeOK, pc # "unwinding", [PNext]_pvars, pc' = "unwinding"
  PROVE  Silent /\ exit = "none"
<1>1. CASE Prescan \/ Argument \/ ConfigDiagnostic \/ Fail
  <2>1. exit = "none"
    BY <1>1 DEF Prescan, Argument, ConfigDiagnostic, Fail, Running, PTypeOK
  <2> QED
    BY <1>1, <2>1 DEF Prescan, Argument, ConfigDiagnostic, Fail, Running, Silent
<1>2. CASE \/ UNCHANGED pvars \/ ArgumentsDone \/ StartStage \/ FinishStage \/ StartNested
           \/ FinishNested \/ SolverReports \/ SolverWarns \/ SolverPrints \/ Return \/ Unwind
           \/ Catch
  BY <1>2 DEF pvars, ArgumentsDone, StartStage, FinishStage, StartNested, FinishNested,
     SolverReports, SolverWarns, SolverPrints, Return, Unwind, Catch
<1> QED
  BY <1>1, <1>2, Zenon DEF PNext

\* Until something is thrown, no step tells of a failure.
LEMMA NoFailureNext ==
  ASSUME PTypeOK, Counted, Scanned, StagesBegun, NoFailure, [PNext]_pvars
  PROVE  NoFailure'
<1> SUFFICES ASSUME pc' # "unwinding", exit' \in {"none", "0"} PROVE Failures' = {}
  BY DEF NoFailure
<1>1. CASE UNCHANGED pvars
  BY <1>1 DEF pvars, NoFailure, Failures
<1>2. ~Unwind /\ ~Catch
  BY DEF Unwind, Catch, ExitCode
<1>3. ASSUME ~UNCHANGED pvars
      PROVE  /\ pc # "unwinding" /\ exit = "none"
             /\ Silent \/ Says \/ (\E name : Opens(name)) \/ Closes("completed")
  <2>1. CASE Prescan \/ Argument \/ ArgumentsDone \/ ConfigDiagnostic
    <3>1. pc # "unwinding" /\ exit = "none"
      BY <2>1 DEF Prescan, Argument, ArgumentsDone, ConfigDiagnostic, PTypeOK
    <3> QED
      BY <2>1, <3>1, ArgumentsTell
  <2>2. CASE SolverReports \/ SolverWarns \/ SolverPrints
    <3>1. pc # "unwinding" /\ exit = "none"
      BY <2>2 DEF SolverReports, SolverWarns, SolverPrints, Messages, InStage, Running, PTypeOK
    <3> QED
      BY <2>2, <3>1, SolversTell
  <2>3. CASE StartStage \/ FinishStage \/ StartNested \/ FinishNested \/ Fail \/ Return
    <3>1. pc # "unwinding" /\ exit = "none"
      BY <2>3 DEF StartStage, FinishStage, StartNested, FinishNested, Fail, Return, InStage,
         Running, PTypeOK
    <3>2. Silent \/ Says \/ (\E name : Opens(name)) \/ Closes("completed")
      BY <2>3, StagesTell
    <3> QED
      BY <3>1, <3>2
  <2> QED
    BY <1>2, <1>3, <2>1, <2>2, <2>3, Zenon DEF PNext
<1>4. CASE ~UNCHANGED pvars
  <2>1. Failures = {}
    BY <1>3, <1>4 DEF NoFailure
  <2>2. CASE Silent
    BY <2>1, <2>2 DEF Silent, Failures
  <2>3. ASSUME NEW e, Told(e), e.kind \notin {"failed", "error"} PROVE Failures' = {}
    <3>1. \A i \in DOMAIN events' : i \notin Failures'
      BY <2>1, <2>3, FailuresOneMore DEF Told, PTypeOK
    <3> QED
      BY <3>1 DEF Failures
  <2>4. CASE Says
    BY <2>3, <2>4 DEF Says, Neutral
  <2>5. CASE (\E name : Opens(name)) \/ Closes("completed")
    <3>1. \A kind, name : Event(kind, name).kind = kind
      BY DEF Event
    <3>2. \A kind \in {"started", "completed"} : \A name :
            Told(Event(kind, name)) => Failures' = {}
      BY <2>3, <3>1
    <3> QED
      BY <2>5, <3>2 DEF Opens, Closes
  <2> QED
    BY <1>3, <1>4, <2>2, <2>4, <2>5
<1> QED
  BY <1>1, <1>4

\* Where something is thrown, all that is open is still to be ended.
LEMMA CutThrown ==
  ASSUME PTypeOK, OperationsNest, Failures = {}, Silent
  PROVE  \E cut \in 0 .. Len(events') : CutShort(cut)'
<1>1. PICK k : k = Len(events)
  OBVIOUS
<1>2. /\ k \in Nat /\ DOMAIN events = 1..k /\ operations \in Seq(Operations)
      /\ events' = events /\ operations' = operations /\ Len(events') = k
  BY <1>1 DEF PTypeOK, Silent
<1>3. /\ OpenAfter(events', k) = NamesOf(operations) /\ Len(NamesOf(operations)) = Len(operations)
      /\ Len(operations) \in Nat
  BY <1>1, <1>2, NamesOfSeq DEF OperationsNest, NamesOf
<1>4. \A i \in DOMAIN operations : operations[i].name = NamesOf(operations)[i]
  BY DEF NamesOf
<1>5. \A i \in DOMAIN events' : i \in Failures' <=> i > k
  BY <1>2 DEF Failures
<1>6. CutShort(k)'
  BY <1>2, <1>3, <1>4, <1>5 DEF CutShort
<1> QED
  BY <1>2, <1>6

\* Each operation that unwinding ends is the innermost one still open.
LEMMA CutUnwound ==
  ASSUME PTypeOK, NEW cut \in 0 .. Len(events), CutShort(cut), Closes("failed")
  PROVE  cut \in 0 .. Len(events') /\ CutShort(cut)'
<1> DEFINE e == Event("failed", Ending.name)
           open == OpenAfter(events, cut)
           n == Len(events)
           m == Len(operations)
<1>1. /\ events' = Append(events, e) /\ e.kind = "failed" /\ e.name = operations[m].name
      /\ operations # <<>> /\ operations' = SubSeq(operations, 1, m - 1)
      /\ events \in Seq(Events) /\ operations \in Seq(Operations)
  BY DEF Closes, Told, Event, Ending, PTypeOK
<1> HIDE DEF e
<1>2. /\ n \in Nat /\ Len(events') = n + 1 /\ DOMAIN events = 1..n /\ DOMAIN events' = 1 .. n + 1
      /\ \A i \in 1..n : events'[i] = events[i] /\ (i \in Failures' <=> i \in Failures)
      /\ events'[n + 1] = e /\ n + 1 \in Failures'
  BY <1>1, FailuresOneMore
<1>3. /\ m \in Nat \ {0} /\ DOMAIN operations = 1..m
      /\ Len(operations') = m - 1 /\ DOMAIN operations' = 1 .. m - 1
      /\ \A i \in 1 .. m - 1 : operations'[i] = operations[i]
  <2>1. m \in Nat \ {0} /\ DOMAIN operations = 1..m
    BY <1>1, EmptySeq
  <2> QED
    BY <1>1, <2>1, SubSeqProperties
<1>4. OpenAfter(events', cut) = open
  BY <1>1, ReadOneMore
<1>5. /\ Len(open) \in Nat
      /\ n - cut <= Len(open)
      /\ \A i \in 1..n : i \in Failures <=> i > cut
      /\ \A i \in 1 .. n - cut : /\ events[cut + i].kind = "failed"
                                 /\ events[cut + i].name = open[Len(open) + 1 - i]
      /\ m = Len(open) - (n - cut)
      /\ \A i \in 1..m : operations[i].name = open[i]
  <2>1. cut \in Nat
    BY <1>2
  <2>2. \E T : open \in Seq(T)
    BY <2>1, OpenStep
  <2>3. Len(open) \in Nat
    BY <2>2
  <2> HIDE DEF open
  <2> QED
    BY <1>2, <1>3, <2>3 DEF CutShort, open
<1> HIDE DEF open, n, m
<1>6. cut \in Nat /\ cut <= n
  BY <1>2 DEF n
<1>7. (n + 1) - cut <= Len(open) /\ m - 1 = Len(open) - ((n + 1) - cut)
  BY <1>2, <1>3, <1>5, <1>6
<1>8. \A i \in 1 .. n + 1 : i \in Failures' <=> i > cut
  BY <1>2, <1>5, <1>6
<1>9. ASSUME NEW i \in 1 .. (n + 1) - cut
      PROVE  events'[cut + i].kind = "failed" /\ events'[cut + i].name = open[Len(open) + 1 - i]
  <2>1. CASE i <= n - cut
    <3>1. cut + i \in 1..n /\ i \in 1 .. n - cut
      BY <1>2, <1>6, <2>1
    <3> QED
      BY <1>2, <1>5, <3>1
  <2>2. CASE i = (n + 1) - cut
    <3>1. cut + i = n + 1 /\ Len(open) + 1 - i = m /\ m \in 1..m
      BY <1>2, <1>3, <1>5, <1>6, <2>2
    <3> QED
      BY <1>1, <1>2, <1>5, <3>1
  <2> QED
    BY <1>2, <1>6, <2>1, <2>2
<1>10. \A i \in 1 .. m - 1 : operations'[i].name = open[i]
  BY <1>3, <1>5
<1> QED
  BY <1>2, <1>3, <1>4, <1>6, <1>7, <1>8, <1>9, <1>10 DEF CutShort

\* While an exception unwinds, all that is reported is the end of what was open.
LEMMA UnwindingNext ==
  ASSUME PTypeOK, Counted, Scanned, StagesBegun, OperationsNest, NoFailure, Unwinding, [PNext]_pvars
  PROVE  Unwinding'
<1> SUFFICES ASSUME pc' = "unwinding" PROVE \E cut \in 0 .. Len(events') : CutShort(cut)'
  BY DEF Unwinding
<1>1. CASE pc # "unwinding"
  <2>1. Silent /\ exit = "none"
    BY <1>1, ThrowsSilently
  <2>2. Failures = {}
    BY <1>1, <2>1 DEF NoFailure
  <2> QED
    BY <2>1, <2>2, CutThrown
<1>2. CASE pc = "unwinding"
  <2>1. PICK cut \in 0 .. Len(events) : CutShort(cut)
    BY <1>2 DEF Unwinding
  <2>2. CASE UNCHANGED pvars
    <3>1. events' = events /\ operations' = operations
      BY <2>2 DEF pvars
    <3>2. Failures' = Failures
      BY <3>1 DEF Failures
    <3>3. CutShort(cut)'
      BY <2>1, <3>1, <3>2 DEF CutShort
    <3> QED
      BY <3>1, <3>3
  <2>3. CASE Unwind
    <3>1. Closes("failed")
      BY <2>3, StagesTell
    <3> QED
      BY <2>1, <3>1, CutUnwound
  <2>4. CASE Catch
    BY <2>4 DEF Catch
  <2>5. ~(\/ Prescan \/ Argument \/ ArgumentsDone \/ ConfigDiagnostic
          \/ StartStage \/ FinishStage \/ StartNested \/ FinishNested
          \/ SolverReports \/ SolverWarns \/ SolverPrints \/ Fail \/ Return)
    BY <1>2 DEF Prescan, Argument, ArgumentsDone, ConfigDiagnostic, StartStage, FinishStage,
       StartNested, FinishNested, SolverReports, SolverWarns, SolverPrints, Fail, Return, Messages,
       InStage, Running
  <2> QED
    BY <2>2, <2>3, <2>4, <2>5, Zenon DEF PNext
<1> QED
  BY <1>1, <1>2

\* A run that is over is a success without a failure, or a failure that names what it cut
\* short.
FailuresLast ==
  \A i \in DOMAIN events : events[i].kind = "failed" =>
    \A j \in i .. Len(events) : j \in Failures
EndsAs(cut) ==
  LET open == OpenAfter(events, cut)
      failed == Len(open) IN
  /\ \A i \in Failures : i > cut
  /\ \A i \in 1..failed : /\ cut + i <= Len(events)
                          /\ events[cut + i].kind = "failed"
                          /\ events[cut + i].name = open[failed + 1 - i]
  /\ exit = "0" => cut = Len(events)
  /\ exit = "terminated" => cut + failed = Len(events)
  /\ exit \in {"1", "2"} => /\ cut + failed + 1 = Len(events)
                            /\ events[Len(events)].kind = "error"

LEMMA FailureParts ==
  FailureIsNamed <=> /\ FailuresLast
                     /\ pc = "ended" => \E cut \in 0 .. Len(events) : EndsAs(cut)
BY Zenon DEF FailureIsNamed, FailuresLast, EndsAs

\* Where all that is behind event cut is a failure and nothing before, failures are last.
LEMMA LastBehind ==
  ASSUME events' \in Seq(Events), NEW cut \in Nat,
         \A i \in DOMAIN events' : i \in Failures' <=> i > cut
  PROVE  FailuresLast'
<1>1. Len(events') \in Nat /\ DOMAIN events' = 1 .. Len(events')
  OBVIOUS
<1>2. ASSUME NEW i \in DOMAIN events', events'[i].kind = "failed", NEW j \in i .. Len(events')
      PROVE  j \in Failures'
  <2>1. i \in Failures' /\ i \in Nat /\ i > cut
    BY <1>1, <1>2 DEF Failures
  <2>2. j \in DOMAIN events' /\ j > cut
    BY <1>1, <2>1
  <2> QED
    BY <2>2
<1> QED
  BY <1>2 DEF FailuresLast

\* The handlers report an error behind what was unwound, or nothing where they throw.
LEMMA CaughtIsNamed ==
  ASSUME PTypeOK, PTypeOK', Counted, Scanned, StagesBegun, Unwinding, Catch
  PROVE  FailuresLast' /\ \E cut \in 0 .. Len(events') : EndsAs(cut)'
<1>1. PICK cut \in 0 .. Len(events) : CutShort(cut)
  BY DEF Unwinding, Catch
<1> DEFINE open == OpenAfter(events, cut)
           n == Len(events)
<1>2. /\ n \in Nat /\ DOMAIN events = 1..n /\ cut \in Nat /\ cut <= n
      /\ Len(operations) = 0 /\ events \in Seq(Events) /\ events' \in Seq(Events)
  BY DEF PTypeOK, Catch
<1>3. /\ Len(open) \in Nat
      /\ n = cut + Len(open)
      /\ \A i \in 1..n : i \in Failures <=> i > cut
      /\ \A i \in 1 .. Len(open) : /\ events[cut + i].kind = "failed"
                                   /\ events[cut + i].name = open[Len(open) + 1 - i]
  <2>1. \E T : open \in Seq(T)
    BY <1>2, OpenStep
  <2>2. Len(open) \in Nat
    BY <2>1
  <2> HIDE DEF open
  <2>3. Len(operations) = Len(open) - (n - cut)
    BY <1>1 DEF CutShort, open
  <2> HIDE DEF n
  <2>4. n = cut + Len(open) /\ n - cut = Len(open)
    <3>1. \A a, b, c \in Nat : 0 = b - (a - c) => a = c + b /\ a - c = b
      OBVIOUS
    <3>2. n \in Nat /\ cut \in Nat /\ 0 = Len(open) - (n - cut)
      BY <1>2, <2>3
    <3> QED
      BY <2>2, <3>1, <3>2, Zenon
  <2> QED
    BY <1>1, <1>2, <2>2, <2>4 DEF CutShort, open, n
<1>4. CASE events' = events /\ exit' = "terminated"
  <2>1. Failures' = Failures
    BY <1>4 DEF Failures
  <2>2. OpenAfter(events', cut) = open /\ Len(events') = n
    BY <1>4
  <2> HIDE DEF open, n
  <2>3. \A i \in Failures' : i > cut
    BY <1>2, <1>3, <2>1 DEF Failures
  <2>4. FailuresLast'
    BY <1>2, <1>3, <1>4, <2>1, LastBehind
  <2>5. EndsAs(cut)'
    BY <1>2, <1>3, <1>4, <2>2, <2>3 DEF EndsAs
  <2> QED
    BY <1>2, <2>2, <2>4, <2>5
<1>5. CASE exit' \in {"1", "2"} /\ \E e : Told(e) /\ e.kind = "error"
  <2>1. PICK e : events' = Append(events, e) /\ e.kind = "error"
    BY <1>5 DEF Told
  <2>2. /\ Len(events') = n + 1 /\ DOMAIN events' = 1 .. n + 1
        /\ \A i \in 1..n : events'[i] = events[i] /\ (i \in Failures' <=> i \in Failures)
        /\ events'[n + 1] = e /\ n + 1 \in Failures'
    BY <1>2, <2>1, FailuresOneMore
  <2>3. OpenAfter(events', cut) = open
    BY <1>2, <2>1, ReadOneMore
  <2> HIDE DEF open, n
  <2>4. \A i \in DOMAIN events' : i \in Failures' <=> i > cut
    BY <1>2, <1>3, <2>2
  <2>5. \A i \in Failures' : i > cut
    BY <2>4 DEF Failures
  <2>6. \A i \in 1 .. Len(open) : /\ cut + i <= n + 1
                                  /\ events'[cut + i].kind = "failed"
                                  /\ events'[cut + i].name = open[Len(open) + 1 - i]
    <3>1. \A i \in 1 .. Len(open) : cut + i \in 1..n /\ cut + i <= n + 1
      BY <1>2, <1>3
    <3> QED
      BY <1>3, <2>2, <3>1
  <2>7. FailuresLast'
    BY <1>2, <2>4, LastBehind
  <2>8. EndsAs(cut)'
    BY <1>2, <1>3, <1>5, <2>1, <2>2, <2>3, <2>5, <2>6 DEF EndsAs
  <2>9. cut \in 0 .. Len(events')
    BY <1>2, <2>2
  <2> QED
    BY <2>7, <2>8, <2>9
<1> QED
  <2>1. \/ events' = events /\ exit' = "terminated"
        \/ exit' \in {"1", "2"} /\ Write("error", Message)
    BY DEF Catch, ExitCode
  <2>2. pc # "start"
    BY DEF Catch
  <2> QED
    BY <1>4, <1>5, <2>1, <2>2, MessageTold

\* Every step keeps a failure named.
LEMMA FailureNamedNext ==
  ASSUME PTypeOK, PTypeOK', Counted, Scanned, StagesBegun, OperationsNest', NoFailure', Unwinding,
         Unwinding', FailureIsNamed, [PNext]_pvars
  PROVE  FailureIsNamed'
<1> SUFFICES /\ FailuresLast'
             /\ pc' = "ended" => \E cut \in 0 .. Len(events') : EndsAs(cut)'
  BY Zenon DEF FailureIsNamed, FailuresLast, EndsAs
<1>1. CASE UNCHANGED pvars
  <2>1. events' = events /\ pc' = pc /\ exit' = exit
    BY <1>1 DEF pvars
  <2>2. Failures' = Failures
    BY <2>1 DEF Failures
  <2> QED
    BY <2>1, <2>2, Zenon DEF FailureIsNamed, FailuresLast, EndsAs
<1>2. CASE Catch
  BY <1>2, CaughtIsNamed
<1>3. events' \in Seq(Events) /\ Len(events') \in Nat /\ DOMAIN events' = 1 .. Len(events')
  BY DEF PTypeOK
<1>4. CASE pc' = "unwinding"
  <2>1. PICK cut \in 0 .. Len(events') : CutShort(cut)'
    BY <1>4 DEF Unwinding
  <2>2. cut \in Nat /\ \A i \in DOMAIN events' : i \in Failures' <=> i > cut
    BY <1>3, <2>1 DEF CutShort
  <2>3. FailuresLast'
    BY <1>3, <2>2, LastBehind
  <2> QED
    BY <1>4, <2>3
<1>5. CASE pc' # "unwinding" /\ exit' \in {"none", "0"}
  <2>1. Failures' = {}
    BY <1>5 DEF NoFailure
  <2>2. FailuresLast'
    BY <1>3, <2>1 DEF FailuresLast, Failures
  <2>3. ASSUME pc' = "ended" PROVE \E cut \in 0 .. Len(events') : EndsAs(cut)'
    <3>1. PICK k : k = Len(events')
      OBVIOUS
    <3>2. OpenAfter(events', k) = <<>>
      <4>1. operations' = <<>>
        BY <2>3 DEF OperationsNest
      <4> QED
        BY <3>1, <4>1 DEF OperationsNest
    <3>3. exit' = "0"
      BY <1>5, <2>3 DEF PTypeOK
    <3>4. EndsAs(k)'
      BY <1>3, <2>1, <3>1, <3>2, <3>3 DEF EndsAs
    <3> QED
      BY <1>3, <3>1, <3>4
  <2> QED
    BY <2>2, <2>3
<1>6. CASE \/ Prescan \/ Argument \/ ArgumentsDone \/ ConfigDiagnostic
           \/ StartStage \/ FinishStage \/ StartNested \/ FinishNested
           \/ SolverReports \/ SolverWarns \/ SolverPrints \/ Fail \/ Return \/ Unwind
  <2>1. exit' \in {"none", "0"}
    <3>1. pc # "ended"
      BY <1>6 DEF Prescan, Argument, ArgumentsDone, ConfigDiagnostic, StartStage, FinishStage,
         StartNested, FinishNested, SolverReports, SolverWarns, SolverPrints, Fail, Return, Unwind,
         Messages, InStage, Running
    <3>2. exit = "none"
      BY <3>1 DEF PTypeOK
    <3> QED
      BY <1>6, <3>2 DEF Prescan, Argument, ArgumentsDone, ConfigDiagnostic, StartStage,
         FinishStage, StartNested, FinishNested, SolverReports, SolverWarns, SolverPrints, Fail,
         Return, Unwind
  <2> QED
    BY <1>4, <1>5, <2>1
<1> QED
  BY <1>1, <1>2, <1>6, Zenon DEF PNext

-----------------------------------------------------------------------------
(* The status of a run: the theorems.                                       *)

LEMMA PInvInit ==
  ASSUME PInit
  PROVE  PInv
<1>1. PTypeOK
  BY PTypesInit
<1>2. /\ pc = "start" /\ stage = 0 /\ operations = <<>> /\ events = <<>> /\ exit = "none"
      /\ uncaught = 0 /\ explicit = FALSE /\ cli_verbosity = 0 /\ next = 1
  BY DEF PInit
<1>3. Counted /\ Scanned /\ StagesBegun /\ StageOpen /\ Unwinding
  BY <1>2 DEF Counted, Scanned, StagesBegun, StageOpen, Unwinding
<1>4. Parsed
  <2>1. Len(args) \in Nat
    BY <1>1, ArgsFacts DEF PTypeOK
  <2>2. \A j \in VerbositiesGiven(args) : j >= 1
    BY <2>1 DEF VerbositiesGiven
  <2> QED
    BY <1>2, <2>2, IsReadStep DEF Parsed
<1>5. DOMAIN events = {} /\ Len(events) = 0 /\ DOMAIN operations = {}
  BY <1>2
<1>6. OneFormat /\ VerbosityAsAsked
  BY <1>2, <1>5 DEF OneFormat, VerbosityAsAsked
<1>7. OperationsNest
  <2>1. OpenAfter(events, 0) = <<>>
    BY OpenStep
  <2>2. NamesOf(operations) = <<>>
    <3>1. NamesOf(operations) \in Seq(EventNames) /\ Len(NamesOf(operations)) = 0
      BY <1>1, <1>2, NamesOfSeq DEF PTypeOK
    <3> QED
      BY <3>1, EmptySeq
  <2> QED
    BY <1>2, <1>5, <2>1, <2>2 DEF OperationsNest, NamesOf
<1>8. StagesAreReported
  <2>1. /\ NamesUpTo([i \in DOMAIN events |-> events[i].name], CompletedStages, 0) = <<>>
        /\ NamesUpTo([s \in DOMAIN Stages |-> Stages[s].operation], Reported, 0) = <<>>
    BY NamesUpToStep
  <2>2. LeftBehind = 0
    BY <1>2 DEF LeftBehind
  <2>3. Len(events) = 0 /\ pc # "ended"
    BY <1>2, <1>5
  <2> QED
    BY <2>1, <2>2, <2>3, Zenon DEF StagesAreReported
<1>9. Failures = {}
  BY <1>5 DEF Failures
<1>10. NoFailure
  BY <1>9 DEF NoFailure
<1>11. FailureIsNamed
  BY <1>2, <1>5 DEF FailureIsNamed
<1> QED
  BY <1>1, <1>3, <1>4, <1>6, <1>7, <1>8, <1>10, <1>11 DEF PInv

LEMMA PInvNext ==
  ASSUME PInv, [PNext]_pvars
  PROVE  PInv'
<1>0. /\ PTypeOK /\ Counted /\ Scanned /\ StagesBegun /\ Parsed
      /\ OneFormat /\ VerbosityAsAsked
      /\ OperationsNest /\ StageOpen /\ StagesAreReported
      /\ NoFailure /\ Unwinding /\ FailureIsNamed
  BY DEF PInv
<1>1. PTypeOK'
  BY <1>0, PTypesNext
<1>2. Counted' /\ Scanned' /\ StagesBegun'
  <2>1. CASE UNCHANGED pvars
    <3>1. UNCHANGED <<args, pc, machine, format, stage, operations, uncaught, events, exit>>
      BY <2>1 DEF pvars, options, reporter
    <3> QED
      BY <1>0, <3>1 DEF Counted, Scanned, StagesBegun, Prescanned
  <2>2. CASE Prescan \/ Argument \/ ArgumentsDone \/ ConfigDiagnostic
    BY <1>0, <2>2, PhasesArguments
  <2>3. CASE \/ StartStage \/ FinishStage \/ StartNested \/ FinishNested
             \/ SolverReports \/ SolverWarns \/ SolverPrints \/ Fail \/ Return \/ Unwind \/ Catch
    BY <1>0, <2>3, PhasesStages
  <2> QED
    BY <2>1, <2>2, <2>3, Zenon DEF PNext
<1>3. Parsed'
  BY <1>0, <1>1, ParsedNext
<1>4. OneFormat'
  BY <1>0, OneFormatNext
<1>5. VerbosityAsAsked'
  BY <1>0, VerbosityNext
<1>6. OperationsNest'
  BY <1>0, NestNext
<1>7. StageOpen'
  BY <1>0, StageOpenNext
<1>8. StagesAreReported'
  BY <1>0, StagesReportedNext
<1>9. NoFailure'
  BY <1>0, NoFailureNext
<1>10. Unwinding'
  BY <1>0, UnwindingNext
<1>11. FailureIsNamed'
  BY <1>0, <1>1, <1>6, <1>9, <1>10, FailureNamedNext
<1> QED
  BY <1>1, <1>2, <1>3, <1>4, <1>5, <1>6, <1>7, <1>8, <1>9, <1>10, <1>11 DEF PInv

\* The invariant of a run of main, for every command line, any operations the solvers open
\* inside the stages and any bounds on their nesting and printing.
THEOREM ProgramInvariance == PSpec => []PInv
<1>1. PInit => PInv
  BY PInvInit
<1>2. PInv /\ [PNext]_pvars => PInv'
  BY PInvNext
<1> QED
  BY <1>1, <1>2, PTL DEF PSpec

\* What main and its StatusReporter report of a run is true of it (status_reporter.hpp,
\* main.cpp): operations nest and each is ended once, the stages called completed are those
\* left behind, a failure is named after all it cut short and by nothing else, and format
\* and verbosity are those the command line asks for.
THEOREM StatusHolds == PSpec => []StatusIsTrue
<1>1. PInv => StatusIsTrue
  BY DEF PInv, StatusIsTrue
<1> QED
  BY <1>1, ProgramInvariance, PTL
==============================================================================
