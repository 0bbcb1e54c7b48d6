------------------------------ MODULE MCAlgorithms ------------------------------
(* TLC instance of four algorithms that share no state: the restarts of FGMRES, the   *)
(* marking of elements, the packed direct solve and the search for pieces of the mesh   *)
(* without a reference potential.  A behaviour runs one of them, the others stay in a    *)
(* fixed initial state.                                                            *)
EXTENDS FgmresRestart, DorflerMarking, PackedSystem, MCReferencePotential

-----------------------------------------------------------------------------
(* DorflerMarking: up to four elements; fractions below, at and above the bounds,
   and such that a threshold is met exactly. *)

ErrorVectorsDef == UNION {[1..size -> 0..3] : size \in 0..4}
FractionsDef ==
  {[num |-> top, den |-> 10] : top \in {-1, 0, 1, 5, 10, 15}} \cup {[num |-> 9, den |-> 13]}

-----------------------------------------------------------------------------
(* PackedSystem: three degrees of freedom over the field of three elements, up to
   three ports in blocks of two, with and without a gauge. *)

Point(a, b, c) == [i \in 0 .. 2 |-> CASE i = 0 -> a [] i = 1 -> b [] i = 2 -> c]

\* The gradient, and vectors that it is orthogonal to.
Gradient == Point(0, 1, 1)
u0 == Point(1, 0, 0)
u1 == Point(0, 1, 2)
u2 == Point(1, 1, 2)

\* A symmetric matrix that annihilates the gradient.
Form(a, b, c) ==
  Matrix(3, 3, LAMBDA i, j : (a * u0[i] * u0[j] + b * u1[i] * u1[j] + c * u2[i] * u2[j]) % 3)

\* A matrix that is regular without a gauge.
Regular(a) ==
  Matrix(3, 3, LAMBDA i, j : (Form(a, 1, 0)[i][j] + IF i = 2 /\ j = 2 THEN 1 ELSE 0) % 3)

Ports == {<<>>, <<u0>>, <<u2, u1>>, <<u1, u2, u0>>}
Conducts(ports) == [k \in DOMAIN ports |-> 1 + (k % 2)]

Problem(solver, K, M, ports, gauge, gradients, ess) ==
  [solver |-> solver, n |-> 3, K |-> K, M |-> M, ports |-> ports,
   conductances |-> Conducts(ports), gauge |-> gauge, gradients |-> gradients, ess |-> ess]

Gauges == {<<Point(0, 1, 0)>>, <<Point(1, 1, 0)>>}
Edges == {{}, {0}}

Complexes ==
  {Problem("Complex", Form(a, b, 0), Form(0, c, 1), ports, gauge, <<Gradient>>, ess) :
     a \in {1, 2}, b \in {0, 1}, c \in {0, 2}, ports \in Ports, gauge \in Gauges, ess \in Edges}
Ungauged ==
  {Problem("Complex", Regular(a), Form(1, 0, c), ports, <<>>, <<>>, ess) :
     a \in {1, 2}, c \in {0, 1}, ports \in Ports, ess \in Edges \cup {{1, 2}}}
Reals ==
  {Problem("Gauged", Form(a, b, 1), Form(0, 0, 0), <<>>, gauge, <<Gradient>>, ess) :
     a \in {0, 1, 2}, b \in {0, 1}, gauge \in Gauges, ess \in Edges}

\* A field without degrees of freedom.
NoProblem ==
  [solver |-> "Gauged", n |-> 0, K |-> <<>>, M |-> <<>>, ports |-> <<>>, conductances |-> <<>>,
   gauge |-> <<>>, gradients |-> <<>>, ess |-> {}]

ProblemsDef ==
  {s \in UNION {Complexes, Ungauged, Reals, {NoProblem}} : s.ess \subseteq Dofs(s)}

-----------------------------------------------------------------------------
CONSTANT Subjects   \* of "restart", "marking", "packed" and "reference"

VARIABLE subject

\* The others than the subject start from one input.
AlgorithmsInit ==
  /\ subject \in Subjects
  /\ subject = "packed" \/ (problem = NoProblem /\ omega = [active |-> 1, scale |-> 1, corner |-> 1])
  /\ PackedInit
  /\ subject = "restart" \/ (loaded = TRUE /\ true_residual = 0)
  /\ FInit
  /\ subject = "marking" \/ (errors = <<>> /\ fraction = [num |-> 1, den |-> 10])
  /\ DInit
  /\ subject = "reference" \/ (faces = <<>> /\ boundary = <<>>)
  /\ RInit

AlgorithmsNext ==
  \/ subject = "restart" /\ FNext /\ UNCHANGED <<subject, dvars, packedVars, rvars>>
  \/ subject = "marking" /\ DNext /\ UNCHANGED <<subject, fvars, packedVars, rvars>>
  \/ subject = "packed" /\ PackedNext /\ UNCHANGED <<subject, fvars, dvars, rvars>>
  \/ subject = "reference" /\ RNext /\ UNCHANGED <<subject, fvars, dvars, packedVars>>

AlgorithmsSpec == AlgorithmsInit /\ [][AlgorithmsNext]_<<subject, fvars, dvars, packedVars, rvars>>
===============================================================================
