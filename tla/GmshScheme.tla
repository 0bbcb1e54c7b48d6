----------------------------- MODULE GmshScheme -----------------------------
(***************************************************************************)
(* The shape functions shipped with every Gmsh file (gmsh_results_writer):  *)
(* phi_i = sum_j C[i][j] u^E[j][1] v^E[j][2] w^E[j][3], E from              *)
(* MonomialExponents, C from the inverse of the Vandermonde matrix on        *)
(* simplices and from products of 1D polynomials on quads and hexahedra.    *)
(* Doubles become residues modulo the prime Modulus, where the elimination   *)
(* is exact: what rounding does to it is not modelled.                      *)
(***************************************************************************)
EXTENDS GmshLayout

CONSTANTS SchemeRequests, \* <<geometry, order>> pairs asked of the layout
          SolveOrder,     \* shape -> highest order whose scheme is built here
          Modulus

ASSUME SchemeAssumption ==
  /\ Modulus > 20
  /\ \A d \in 2 .. Modulus - 1 : Modulus % d # 0
  /\ SolveOrder \in [Shapes -> 0 .. 10]

VARIABLES request, phase, points, exponents, augmented, col, coeffs
schemeVars == <<request, phase, points, exponents, augmented, col, coeffs>>

shape == request[1]
order == request[2]

Residue == 0 .. Modulus - 1
Inverse1 == [x \in 1 .. Modulus - 1 |-> CHOOSE y \in 1 .. Modulus - 1 : (x * y) % Modulus = 1]
Over(x, y) == (x * Inverse1[y % Modulus]) % Modulus

Powers == [x \in Residue |->
  LET pow[k \in 0 .. 10] == IF k = 0 THEN 1 ELSE (pow[k - 1] * x) % Modulus
  IN  pow]

\* The reference coordinates of a lattice point, and a monomial's value there.
RefPt(x) == [c \in Axes |-> Over(x[c], order)]
Monomial(e, u) ==
  (((Powers[u[1]][e[1]] * Powers[u[2]][e[2]]) % Modulus) * Powers[u[3]][e[3]]) % Modulus

\* Total degree on simplices, each exponent up to p on quads and hexahedra.
MonomialExponents(g, p) ==
  CASE g = "triangle" ->
         FlattenSeq([d1 \in 1 .. p + 1 |-> [i1 \in 1 .. d1 |-> <<d1 - i1, i1 - 1, 0>>]])
    [] g = "tetrahedron" ->
         FlattenSeq([d1 \in 1 .. p + 1 |->
           FlattenSeq([c1 \in 1 .. d1 |->
             [b1 \in 1 .. d1 - c1 + 1 |-> <<d1 - b1 - c1 + 1, b1 - 1, c1 - 1>>]])])
    [] g = "square" ->
         FlattenSeq([a1 \in 1 .. p + 1 |-> [b1 \in 1 .. p + 1 |-> <<a1 - 1, b1 - 1, 0>>]])
    [] OTHER ->
         FlattenSeq([a1 \in 1 .. p + 1 |->
           FlattenSeq([b1 \in 1 .. p + 1 |->
             [c1 \in 1 .. p + 1 |-> <<a1 - 1, b1 - 1, c1 - 1>>]])])

(***************************************************************************)
(* LagrangeMonomials1D: the coefficients, by ascending power, of            *)
(* prod_{b # at} (u - b / p) / (at / p - b / p).                            *)
(***************************************************************************)
TimesRoot(poly, t) ==
  [k \in 1 .. Len(poly) + 1 |->
     ((IF k > 1 THEN poly[k - 1] ELSE 0) + (Modulus - t) * (IF k <= Len(poly) THEN poly[k] ELSE 0))
       % Modulus]

LagrangeMonomials1D(p, at) ==
  LET others == SelectSeq([b \in 1 .. p + 1 |-> b - 1], LAMBDA b : b # at)
      poly == FoldLeft(LAMBDA acc, b : TimesRoot(acc, Over(b, p)), <<1>>, others)
      denom == FoldLeft(LAMBDA acc, b : (acc * Over(at + Modulus - b, p)) % Modulus, 1, others)
  IN  [k \in 1 .. p + 1 |-> Over(poly[k], denom)]

BuildTensor ==
  \E c1 \in {[at \in 0 .. order |-> LagrangeMonomials1D(order, at)]} :
    coeffs' = [i \in DOMAIN points |->
      [j \in DOMAIN exponents' |->
        FoldLeft(LAMBDA acc, d : (acc * c1[points[i][d]][exponents'[j][d] + 1]) % Modulus, 1,
                 [d \in 1 .. Dimension[shape] |-> d])]]

(***************************************************************************)
(* GetHoLayout and BuildInterpScheme.                                      *)
(***************************************************************************)
GetHoLayout ==
  /\ phase = "start"
  /\ IF Supported(shape, order)
     THEN phase' = "layout" /\ points' = Layout(shape, order)
     ELSE phase' = "failed" /\ UNCHANGED points
  /\ UNCHANGED <<request, exponents, augmented, col, coeffs>>

\* [V | I], V[k][j] = monomial j at node k.
Vandermonde ==
  \E u \in {[k \in DOMAIN points |-> RefPt(points[k])]} :
    augmented' = [k \in DOMAIN points |-> [j \in 1 .. 2 * Len(points) |->
      IF j <= Len(points) THEN Monomial(exponents'[j], u[k])
      ELSE IF j = Len(points) + k THEN 1 ELSE 0]]

Begin ==
  /\ phase = "layout" /\ order <= SolveOrder[shape]
  /\ exponents' = MonomialExponents(shape, order)
  /\ \/ /\ shape \notin Simplex
        /\ BuildTensor
        /\ phase' = "done"
        /\ UNCHANGED <<augmented, col>>
     \/ /\ shape \in Simplex
        /\ IF Len(exponents') = Len(points)
           THEN Vandermonde /\ col' = 1 /\ phase' = "eliminate"
           ELSE phase' = "failed" /\ UNCHANGED <<augmented, col>>
        /\ UNCHANGED coeffs
  /\ UNCHANGED <<request, points>>

\* A residue has no size: the pivot is the first row that has one.
Pivots == {r \in col .. Len(points) : augmented[r][col] # 0}

Eliminate ==
  /\ phase = "eliminate" /\ col <= Len(points)
  /\ IF Pivots = {}
     THEN phase' = "failed" /\ UNCHANGED <<augmented, col>>
     ELSE /\ \E piv \in {CHOOSE r \in Pivots : \A q \in Pivots : r <= q} :
             \E row \in {[j \in DOMAIN augmented[piv] |->
                            Over(augmented[piv][j], augmented[piv][col])]} :
               augmented' = [r \in DOMAIN augmented |->
                 IF r = col THEN row
                 ELSE LET old == IF r = piv THEN augmented[col] ELSE augmented[r]
                      IN  [j \in DOMAIN old |->
                             (old[j] + (Modulus - old[col]) * row[j]) % Modulus]]
          /\ col' = col + 1
          /\ UNCHANGED phase
  /\ UNCHANGED <<request, points, exponents, coeffs>>

\* Faulty: C is the inverse and not its transpose.
ExtractRow_Untransposed(i) == [j \in DOMAIN points |-> augmented[i][Len(points) + j]]
\* C = (V^-1)^T.
ExtractRow(i) == [j \in DOMAIN points |-> augmented[j][Len(points) + i]]

Extract ==
  /\ phase = "eliminate" /\ col > Len(points)
  /\ coeffs' = [i \in DOMAIN points |-> ExtractRow(i)]
  /\ phase' = "done"
  /\ UNCHANGED <<request, points, exponents, augmented, col>>

SchemeInit ==
  /\ request \in SchemeRequests /\ phase = "start"
  /\ points = <<>> /\ exponents = <<>> /\ augmented = <<>> /\ col = 0 /\ coeffs = <<>>

SchemeNext == GetHoLayout \/ Begin \/ Eliminate \/ Extract

SchemeSpec == SchemeInit /\ [][SchemeNext]_schemeVars

(***************************************************************************)
(* Properties.                                                             *)
(***************************************************************************)
\* Every matrix has the sizes the file states: n nodes by as many monomials,
\* and entries that are numbers.
SchemeTypeOK ==
  /\ phase \in {"start", "layout", "eliminate", "done", "failed"}
  /\ col \in 0 .. Len(points) + 1
  /\ phase = "eliminate" => augmented \in Seq(Seq(Residue)) /\ Len(augmented) = Len(points)
  /\ phase = "done" => /\ Len(coeffs) = Len(points) /\ Len(exponents) = Len(points)
                    /\ \A i \in DOMAIN coeffs : Len(coeffs[i]) = Len(exponents)

\* A layout's nodes are the lattice of its order, each point once, in Gmsh's
\* order of corners, edges, faces and cell: the recursion into faces and the
\* interior neither drops nor repeats a point.
LayoutIsLattice ==
  phase = "layout" => /\ IsLattice(shape, order, points)
                   /\ IsHierarchical(shape, order, points)

\* Shape function i is one at node i and zero at the others, so what a reader
\* reconstructs at a node is the value listed for it.
LagrangeProperty ==
  phase = "done" =>
    \E value \in {[k \in DOMAIN points |->
                    LET u == RefPt(points[k])
                    IN  [j \in DOMAIN exponents |-> Monomial(exponents[j], u)]]} :
      \A i, k \in DOMAIN points :
        FoldLeft(LAMBDA acc, j : (acc + coeffs[i][j] * value[k][j]) % Modulus, 0,
                 [j \in DOMAIN exponents |-> j]) = IF i = k THEN 1 ELSE 0

\* The monomials match the lattice: the Vandermonde system is square and
\* non-singular for every layout there is, and only a geometry or an order
\* without a layout fails.
Unisolvent == phase = "failed" => ~Supported(shape, order)

\* The scheme a file carries reproduces the values listed at the nodes, for every
\* geometry and order with a layout.
SchemeIsLagrange == SchemeTypeOK /\ LayoutIsLattice /\ LagrangeProperty /\ Unisolvent
=============================================================================
