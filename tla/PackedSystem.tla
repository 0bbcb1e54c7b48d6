------------------------------ MODULE PackedSystem ------------------------------
(***************************************************************************)
(* The direct solvers of the gauged and bordered systems: how                 *)
(* MqsMassivePortOperator packs and applies its complex system, and how         *)
(* ComplexDirectSolver and GaugedDirectSolver take it apart, factor it and put   *)
(* a solution together again.                                              *)
(*                                                                         *)
(* Real numbers are a finite field without a root of -1, complex numbers its     *)
(* extension by i.  The algorithms use nothing of the numbers but their field    *)
(* operations, so exact equality stands for equality up to round-off.  The        *)
(* number a + i b is represented by a + Prime b.  A GaugedDirectSolver's real    *)
(* matrix is packed without an imaginary part.                              *)
(***************************************************************************)
EXTENDS Integers, Sequences, FiniteSets

CONSTANTS
  Prime,        \* of the field of the real numbers; 3 modulo 4
  kBlock,       \* ports eliminated at a time
  Problems,     \* the systems: see the assumptions
  Frequencies   \* values of omega, nonzero in the field

Residues == 0 .. Prime - 1
Numbers == 0 .. Prime * Prime - 1
Dofs(s) == 0 .. s.n - 1
Column(s) == [Dofs(s) -> Residues]

\* The sum of the values of f, a function on 0 .. d - 1.
Sum(d, f) ==
  LET s[k \in 0 .. d] == IF k = 0 THEN 0 ELSE s[k - 1] + f[k - 1] IN s[d]

Dot(s, q, v) == Sum(s.n, [i \in Dofs(s) |-> q[i] * v[i]]) % Prime

ASSUME NumberAssumption ==
  /\ kBlock \in Nat \ {0} /\ Prime \in Nat \ {0, 1}
  /\ \A a \in Residues, b \in Residues \ {0} :
       \E c \in Residues : \A d \in Residues : (d * b) % Prime = a <=> d = c
  /\ \A a, b \in Residues : (a * a + b * b) % Prime = 0 => a = 0 /\ b = 0
  /\ Frequencies \subseteq Residues \ {0}

ASSUME ProblemAssumption ==
  \A s \in Problems :
    /\ s.solver \in {"Complex", "Gauged"}
    /\ s.n \in Nat /\ s.ess \subseteq Dofs(s)
    /\ \A i, j \in Dofs(s) : s.K[i][j] \in Residues /\ s.M[i][j] \in Residues
    /\ s.ports \in Seq(Column(s)) /\ s.conductances \in Seq(Residues \ {0})
    /\ Len(s.ports) = Len(s.conductances)
    /\ s.gauge \in Seq(Column(s)) /\ s.gradients \in Seq(Column(s))
    \* A real system has neither conductors nor ports.
    /\ s.solver = "Gauged" =>
         s.ports = <<>> /\ \A i, j \in Dofs(s) : s.M[i][j] = 0

\* GaugeSpace: the gradients behind the gauge's columns live in nonconducting
\* regions and vanish on the essential boundary, and K annihilates gradients.
ASSUME GradientAssumption ==
  \A s \in Problems : \A k \in DOMAIN s.gradients :
    /\ \A i \in s.ess : s.gradients[k][i] = 0
    /\ \A i \in Dofs(s) : \A A \in {s.K, s.M} :
         Sum(s.n, [j \in Dofs(s) |-> A[i][j] * s.gradients[k][j]]) % Prime = 0
    /\ \A r \in DOMAIN s.ports : Dot(s, s.gradients[k], s.ports[r]) = 0

VARIABLES
  problem,  \* the matrices, which do not change with the frequency
  omega,    \* [active, scale, corner]: active_omega and the two operators' own
  packed,   \* {} or the eliminated packed matrix
  factors,  \* {} or what Factor keeps of it
  load,     \* {} or the packed right-hand side
  x,        \* {} or the packed solution
  stage

packedVars == <<problem, omega, packed, factors, load, x, stage>>

n == problem.n
p == Len(problem.ports)
m == Len(problem.gauge)
HalfSize == n + p
FullSize == 2 * (n + p)

-----------------------------------------------------------------------------
(* Complex arithmetic and the LU factorization, external.                   *)

Re(z) == z % Prime
Im(z) == z \div Prime
Complex(a, b) == (a % Prime) + Prime * (b % Prime)
Minus(z, w) == Complex(Re(z) - Re(w), Im(z) - Im(w))
Times(z, w) == Complex(Re(z) * Re(w) - Im(z) * Im(w), Re(z) * Im(w) + Im(z) * Re(w))
Quotient(z, w) == CHOOSE q \in Numbers : Times(q, w) = z

\* A complex sum over 0 .. d - 1.
Total(d, f(_)) ==
  Complex(Sum(d, [k \in 0 .. d - 1 |-> Re(f(k))]), Sum(d, [k \in 0 .. d - 1 |-> Im(f(k))]))

\* A vector and a matrix, every entry computed once.
Vector(d, f(_)) == CHOOSE v \in {[k \in 0 .. d - 1 |-> f(k)]} : v \in [0 .. d - 1 -> Numbers]
Matrix(d, e, f(_, _)) ==
  LET row(i) == Vector(e, LAMBDA j : f(i, j))
  IN CHOOSE A \in {[i \in 0 .. d - 1 |-> row(i)]} : A \in [0 .. d - 1 -> [0 .. e - 1 -> Numbers]]

\* The determinant of the d x d matrix A.
Det(A, d) ==
  LET det[S \in SUBSET (0 .. d - 1)] ==
        LET i == d - Cardinality(S)
            sign(c) == IF Cardinality({e \in S : e < c}) % 2 = 0 THEN 1 ELSE Prime - 1
        IN IF S = {} THEN 1
           ELSE Total(d, LAMBDA c : IF c \in S /\ A[i][c] # 0
                                    THEN Times(Times(sign(c), A[i][c]), det[S \ {c}]) ELSE 0)
  IN det[0 .. d - 1]

\* The factors of a regular matrix are represented by its inverse.
LuFactor(A, d) ==
  LET det == Det(A, d)
      minor(i, j) ==
        Matrix(d - 1, d - 1, LAMBDA r, c : A[IF r < i THEN r ELSE r + 1][IF c < j THEN c ELSE c + 1])
      cofactor(i, j) ==
        Times(IF (i + j) % 2 = 0 THEN 1 ELSE Prime - 1, Det(minor(i, j), d - 1))
  IN Matrix(d, d, LAMBDA i, j : Quotient(cofactor(j, i), det))

LuSolve(lu, d, b) == Vector(d, LAMBDA i : Total(d, LAMBDA j : Times(lu[i][j], b[j])))

-----------------------------------------------------------------------------
(* MqsMassivePortOperator.                                                 *)

C(i, k) == problem.ports[k + 1][i]
G(k) == problem.conductances[k + 1]

\* R = [K, -C; -C^T, 0]
RealHalf(i, j) ==
  CASE i < n /\ j < n -> problem.K[i][j]
    [] i < n /\ j >= n -> -C(i, j - n)
    [] i >= n /\ j < n -> -C(j, i - n)
    [] OTHER -> 0

\* I = [omega M_sigma, 0; 0, -G_dc / omega]
ImagHalf(i, j) ==
  CASE i < n /\ j < n -> omega.active * problem.M[i][j]
    [] i >= n /\ i = j -> -Quotient(G(i - n), omega.active)
    [] OTHER -> 0

\* [R, -I; I, R]
AssemblePackedMatrix ==
  LET entry(r, c) ==
        LET i == r % HalfSize
            j == c % HalfSize
        IN (CASE (r < HalfSize) = (c < HalfSize) -> RealHalf(i, j)
              [] r < HalfSize /\ c >= HalfSize -> -ImagHalf(i, j)
              [] r >= HalfSize /\ c < HalfSize -> ImagHalf(i, j)) % Prime
  IN Matrix(FullSize, FullSize, entry)

\* The two BorderedBlockOperators on a vector of one half.
RealMult(v, i) ==
  IF i < n
  THEN Sum(n, [j \in 0 .. n - 1 |-> problem.K[i][j] * v[j]])
         - Sum(p, [k \in 0 .. p - 1 |-> C(i, k) * v[n + k]])
  ELSE -Sum(n, [j \in 0 .. n - 1 |-> C(j, i - n) * v[j]])
ImagMult(v, i) ==
  IF i < n THEN omega.scale * Sum(n, [j \in 0 .. n - 1 |-> problem.M[i][j] * v[j]])
  ELSE -Quotient((G(i - n) * v[i]) % Prime, omega.corner)

\* What the matrix-free ComplexOperator makes of v.
Applied(v) ==
  LET re == [i \in 0 .. HalfSize - 1 |-> v[i]]
      im == [i \in 0 .. HalfSize - 1 |-> v[HalfSize + i]]
  IN [r \in 0 .. FullSize - 1 |->
        (IF r < HalfSize THEN RealMult(re, r) - ImagMult(im, r)
         ELSE ImagMult(re, r - HalfSize) + RealMult(im, r - HalfSize)) % Prime]

\* Faulty: the corner keeps the frequency it was made with.
SetOmega_CornerKept(w) == omega' = [omega EXCEPT !.active = w, !.scale = w]

SetOmega(w) == omega' = [active |-> w, scale |-> w, corner |-> w]

\* The real and the imaginary copy of each essential degree of freedom.
ComplexEssentialTDofs == problem.ess \cup {d + HalfSize : d \in problem.ess}

\* EliminateRowCol: the diagonal is kept by BilinearForm, one in the packed matrix.
Eliminated(A) ==
  LET entry(r, c) ==
        IF {r, c} \cap ComplexEssentialTDofs = {} THEN A[r][c]
        ELSE IF r # c THEN 0
        ELSE IF problem.solver = "Complex" THEN 1 ELSE A[r][c]
  IN Matrix(FullSize, FullSize, entry)

-----------------------------------------------------------------------------
(* GaugeConstraintRows and BorderWithConstraint.                            *)

\* The constraint's non-essential rows.
Interior(i, k) == IF i \in problem.ess THEN 0 ELSE problem.gauge[k + 1][i]

\* A_i = b_i / d_i
EssentialValue(b, diagonal, i) == Quotient(b[i], diagonal[i])

\* -C_ess^T A_ess
RightHandSide(b, diagonal, k) ==
  Minus(0, Total(n, LAMBDA i : IF i \in problem.ess /\ problem.gauge[k + 1][i] # 0
                               THEN Times(problem.gauge[k + 1][i], EssentialValue(b, diagonal, i))
                               ELSE 0))

\* [F B; B^T 0]
BorderWithConstraint(F) ==
  LET entry(i, j) == CASE i < n /\ j < n -> F[i][j]
                       [] i < n /\ j >= n -> Interior(i, j - n)
                       [] i >= n /\ j < n -> Interior(j, i - n)
                       [] OTHER -> 0
  IN Matrix(n + m, n + m, entry)

-----------------------------------------------------------------------------
(* ComplexDirectSolver; GaugedDirectSolver is its case without ports.          *)

\* The left block column: its top half is the real, its bottom half the imaginary part.
Entry(A, i, j) == Complex(A[i][j], A[HalfSize + i][j])

Split(A) ==
  [F |-> Matrix(n, n, LAMBDA i, j : Entry(A, i, j)),
   diagonal |-> Vector(n, LAMBDA i : Entry(A, i, i)),
   border_column |-> Matrix(p, n, LAMBDA k, i : Entry(A, i, n + k)),
   border_row |-> Matrix(p, n, LAMBDA k, j : Entry(A, n + k, j)),
   corner |-> Matrix(p, p, LAMBDA r, k : Entry(A, n + r, n + k))]

\* Faulty: a column of the block is as long as the field, without the multipliers.
Slot_Field(c, i) == c * n + i

\* Where entry i of the block's column c is stored.
Slot(c, i) == c * (n + m) + i

Least(a, b) == IF a < b THEN a ELSE b

\* rhs of a block: entry i of the border column of port k0 + c.
BlockEntry(split, k0, width, s) ==
  LET at == {a \in (0 .. width - 1) \X (0 .. n - 1) : Slot(a[1], a[2]) = s}
  IN IF at = {} THEN 0
     ELSE LET a == CHOOSE a \in at : \A e \in at : e[1] <= a[1]   \* the last one written
          IN split.border_column[k0 + a[1]][a[2]]

\* F^-1 Bc for the ports k0 .. k0 + width - 1, one column after the other.
SolveBlock(lu, split, k0) ==
  LET size == n + m
      width == Least(kBlock, p - k0)
      rhs(c) == Vector(size, LAMBDA i : BlockEntry(split, k0, width, c * size + i))
      w == CHOOSE w \in {[c \in 0 .. width - 1 |-> LuSolve(lu, size, rhs(c))]} :
             w \in [0 .. width - 1 -> [0 .. size - 1 -> Numbers]]
  IN Vector(width * size, LAMBDA s : w[s \div size][s % size])

\* S = D - Br F^-1 Bc, a block of ports at a time.
FormSchurComplement(lu, split) ==
  LET starts == {k \in 0 .. p - 1 : k % kBlock = 0}
      blocks == CHOOSE W \in {[k0 \in starts |-> SolveBlock(lu, split, k0)]} :
                  \A k0 \in starts : W[k0] \in [0 .. Least(kBlock, p - k0) * (n + m) - 1 -> Numbers]
      entry(r, k) ==
        Minus(split.corner[r][k],
              Total(n, LAMBDA i : Times(split.border_row[r][i],
                                        blocks[k - (k % kBlock)][Slot(k % kBlock, i)])))
  IN Matrix(p, p, entry)

\* The matrix is assembled, eliminated, split and factored; a singular field block or
\* Schur complement is an error.
Factor ==
  /\ stage = "ready"
  /\ packed' = {Eliminated(AssemblePackedMatrix)}
  /\ \E A \in packed' : \E split \in {Split(A)} : \E field \in {BorderWithConstraint(split.F)} :
       IF Det(field, n + m) = 0
       THEN stage' = "failed" /\ factors' = {}
       ELSE \E lu \in {LuFactor(field, n + m)} : \E schur \in {FormSchurComplement(lu, split)} :
              IF Det(schur, p) = 0
              THEN stage' = "failed" /\ factors' = {}
              ELSE /\ stage' = "factored"
                   /\ factors' = {[split |-> split, field |-> lu, schur |-> LuFactor(schur, p)]}
  /\ UNCHANGED <<problem, omega, load, x>>

\* b_A - Bc V
Driven(f, bField, V) ==
  Vector(n + m, LAMBDA i :
    IF i < n THEN Minus(bField[i], Total(p, LAMBDA k : Times(f.split.border_column[k][i], V[k])))
    ELSE bField[i])

\* S V = b_V - Br F^-1 b_A, then A = F^-1 (b_A - Bc V).
Solution(f, b) ==
  LET bA == Vector(n, LAMBDA i : Complex(b[i], b[HalfSize + i]))
      bField == Vector(n + m, LAMBDA i :
                  IF i < n THEN bA[i] ELSE RightHandSide(bA, f.split.diagonal, i - n))
      y == LuSolve(f.field, n + m, bField)
      bV == Vector(p, LAMBDA r :
              Minus(Complex(b[n + r], b[HalfSize + n + r]),
                    Total(n, LAMBDA i : Times(f.split.border_row[r][i], y[i]))))
      V == LuSolve(f.schur, p, bV)
      A == IF p = 0 THEN y ELSE LuSolve(f.field, n + m, Driven(f, bField, V))
      at(i) == IF i < n THEN A[i] ELSE V[i - n]
  IN Vector(FullSize, LAMBDA r : IF r < HalfSize THEN Re(at(r)) ELSE Im(at(r - HalfSize)))

\* Right-hand sides: an entry of one, or two neighbours of one and minus one.  Mult is
\* linear, so these decide the rest.
Loads ==
  LET last == (IF problem.solver = "Gauged" THEN HalfSize ELSE FullSize) - 1
      one(k, l) == Vector(FullSize, LAMBDA r : CASE r = k -> 1 [] r = l -> Prime - 1 [] OTHER -> 0)
  IN {one(k, l) : k \in 0 .. last, l \in {FullSize}} \cup {one(k, k + 1) : k \in 0 .. last - 1}

MultPacked ==
  /\ stage = "factored"
  /\ load' \in {{b} : b \in Loads}
  /\ x' = {Solution(f, b) : f \in factors, b \in load'}
  /\ stage' = "solved"
  /\ UNCHANGED <<problem, omega, packed, factors>>

\* The frequency moves, and the matrix is factored again.
Refactor ==
  /\ stage \in {"factored", "solved"}
  /\ problem.solver = "Complex"
  /\ \E w \in Frequencies \ {omega.active} : SetOmega(w)
  /\ load' = {} /\ x' = {}
  /\ stage' = "ready"
  /\ UNCHANGED <<problem, packed, factors>>

PackedInit ==
  /\ problem \in Problems
  /\ omega \in {[active |-> w, scale |-> w, corner |-> w] : w \in Frequencies}
  /\ packed = {} /\ factors = {} /\ load = {} /\ x = {}
  /\ stage = "ready"

PackedNext == Factor \/ MultPacked \/ Refactor

PackedSpec == PackedInit /\ [][PackedNext]_packedVars
-----------------------------------------------------------------------------
(* Properties.                                                             *)

\* The type of the variables: a matrix is over the field, and eliminating the
\* essential degrees of freedom leaves it the packed form of a complex matrix, which
\* is what Split takes it for.
PTypeOK ==
  /\ omega \in [active : Frequencies, scale : Frequencies, corner : Frequencies]
  /\ \A v \in load \cup x : v \in [0 .. FullSize - 1 -> Residues]
  /\ \A A \in packed, i, j \in 0 .. HalfSize - 1 :
       /\ A[i][j] \in Residues
       /\ A[HalfSize + i][HalfSize + j] = A[i][j]
       /\ (A[HalfSize + i][j] + A[i][HalfSize + j]) % Prime = 0

\* mqs_massive_port_operator.hpp:162 "Assemble the packed real matrix that
\* ComplexOperator applies matrix-free": the direct and the iterative path solve one
\* system, at every frequency the operator is moved to.
OperatorIsAssembled ==
  stage = "ready" /\ problem.solver = "Complex" =>
    \A A \in {AssemblePackedMatrix}, k \in 0 .. FullSize - 1 :
      Applied([r \in 0 .. FullSize - 1 |-> IF r = k THEN 1 ELSE 0])
        = [r \in 0 .. FullSize - 1 |-> A[r][k]]

\* The copies of the degrees of freedom that are no essential ones, of both halves.
FreeRows ==
  {r \in 0 .. FullSize - 1 : r % HalfSize \notin problem.ess}

\* Row r of the system over the free unknowns, applied to v.
FreeRow(A, v, r) ==
  Sum(FullSize, [c \in 0 .. FullSize - 1 |-> IF c \in FreeRows THEN A[r][c] * v[c] ELSE 0]) % Prime

\* The gauge's part of row r for the multipliers mu, one number for each.
Multiplied(mu, r) ==
  IF r % HalfSize >= n THEN 0
  ELSE Sum(m, [k \in 0 .. m - 1 |-> problem.gauge[k + 1][r % HalfSize]
                                       * IF r < HalfSize THEN Re(mu[k]) ELSE Im(mu[k])])

\* The solution keeps the essential values, and solves every other row of the assembled
\* system, the ports' included, up to one multiplier per gauge column; without a gauge it
\* solves them exactly.
SystemSolved ==
  stage = "solved" =>
    \A A \in {AssemblePackedMatrix}, b \in load, v \in x :
      /\ \A d \in problem.ess : \A r \in {d, d + HalfSize} :
           (v[r] * IF problem.solver = "Complex" THEN 1 ELSE A[r][r]) % Prime = b[r]
      /\ \E mu \in [0 .. m - 1 -> Numbers] : \A r \in FreeRows :
           (FreeRow(A, v, r) + Multiplied(mu, r)) % Prime = b[r]

\* The solution satisfies the gauge over all its degrees of freedom, the essential ones
\* with the values they have, in its real and in its imaginary part.
GaugeHolds ==
  stage = "solved" =>
    \A v \in x, k \in 0 .. m - 1, half \in {0, HalfSize} :
      Sum(n, [i \in 0 .. n - 1 |-> problem.gauge[k + 1][i] * v[half + i]]) % Prime = 0

\* complex_direct_solver.hpp:52-54 "a Lagrange multiplier that comes out zero. Every
\* load is balanced (projected), so the field equations themselves are unchanged": for
\* a load orthogonal to the gradients, every row is solved exactly.
BalancedIsExact ==
  stage = "solved" =>
    \A A \in {AssemblePackedMatrix}, b \in load, v \in x :
      (\A k \in DOMAIN problem.gradients, half \in {0, HalfSize} :
         Sum(n, [i \in 0 .. n - 1 |-> problem.gradients[k][i] * b[half + i]]) % Prime = 0)
        => \A r \in FreeRows : FreeRow(A, v, r) = b[r]

\* What the direct solvers put together from their blocks solves the system that was
\* assembled, in the gauge that was asked for.
SolutionIsExact == PTypeOK /\ SystemSolved /\ GaugeHolds /\ BalancedIsExact
===============================================================================
