-------------------------------- MODULE MCOutput --------------------------------
(* TLC instance of the four parts of the output that share no state: the status a run  *)
(* reports, where its results go, the interpolation schemes, and the Gmsh files.  A     *)
(* behaviour is of one of them, the others stay in a fixed initial state.             *)
EXTENDS Program, ResultWriter, GmshScheme, MCGmshWriter

-----------------------------------------------------------------------------
(* Program: a command line of every kind, with the options in either order, given
   twice, or taken as the value of another, and up to two operations inside the stages,
   in turn or nested. *)

Stopping == {"--help", "--version", "--other", "--output-directory", "--verbosity"}
Reaching == {<<>>,
             <<"--output-directory", "--machine-readable", "config.json">>,
             <<"--output-directory", "--output-directory", "--verbosity", "1">>,
             <<"--machine-readable", "--verbosity", "0">>,
             <<"--verbosity", "2", "--machine-readable">>,
             <<"--verbosity", "2", "config.json", "--verbosity", "0">>}
ArgListsDef ==
  Reaching \cup {<<a>> : a \in Stopping} \cup {<<"--machine-readable", a>> : a \in Stopping}
  \cup {<<"--verbosity", "--other">>}
InnerDef == <<"scenario", "linear system solve">>

-----------------------------------------------------------------------------
(* ResultWriter: two scenario names with one label, as names that differ in
   punctuation or beyond the 96th character have. *)

CONSTANTS n1, n2, l1
LabelDef == [n \in {n1, n2} |-> l1]

-----------------------------------------------------------------------------
(* GmshScheme: all geometries and orders of the layout, and the schemes of the orders
   below. *)

SchemeRequestsDef == (Shapes \cup {"prism"}) \X (0 .. 11)
SolveOrderDef == [triangle |-> 7, tetrahedron |-> 4, square |-> 5, cube |-> 3]
ModulusDef == 101

-----------------------------------------------------------------------------
VARIABLE subject   \* "status", "results", "scheme" or "gmsh"

\* The others than the subject start from one input.
OutputInit ==
  /\ subject \in {"status", "results", "scheme", "gmsh"}
  /\ subject = "status" \/ (args = <<>> /\ ranks = 1)
  /\ PInit
  /\ subject = "gmsh" \/ asked = CHOOSE r \in Requests : TRUE
  /\ WriterInit
  /\ subject = "scheme" \/ request = <<"prism", 0>>
  /\ SchemeInit
  /\ subject = "results" \/ (output = {} /\ coupling = TRUE /\ wants_fields = FALSE)
  /\ WInit

OutputNext ==
  \/ subject = "status" /\ PNext /\ UNCHANGED <<subject, wvars, schemeVars, writerVars>>
  \/ subject = "results" /\ WNext /\ UNCHANGED <<subject, pvars, schemeVars, writerVars>>
  \/ subject = "scheme" /\ SchemeNext /\ UNCHANGED <<subject, pvars, wvars, writerVars>>
  \/ subject = "gmsh" /\ WriterNext /\ UNCHANGED <<subject, pvars, wvars, schemeVars>>

OutputSpec == OutputInit /\ [][OutputNext]_<<subject, pvars, wvars, schemeVars, writerVars>>
===============================================================================
