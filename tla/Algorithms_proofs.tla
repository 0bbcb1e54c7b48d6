---------------------------- MODULE Algorithms_proofs ----------------------------
(***************************************************************************)
(* Proofs about algorithms that the solvers share, for all of their inputs:   *)
(* the restarts of FGMRES, the search for pieces of the mesh without a         *)
(* reference potential, the marking of elements for refinement, the packed     *)
(* system of the direct solvers.                                            *)
(***************************************************************************)
EXTENDS FgmresRestart, ReferencePotential, DorflerMarking, PackedSystem, Counting_proofs

-----------------------------------------------------------------------------
(* FgmresRestart: what the restart loop accepts and refuses, for every iteration *)
(* budget, target and stall limit.                                         *)

\* Once a cycle has run, the residual the verdict reads is the true one; a stall
\* compares it with that of an earlier cycle.
Measured ==
  /\ cycles = 0 => residual = Infinity /\ ~stalled
  /\ cycles > 0 /\ loaded => residual = true_residual /\ residual \in Residuals
  /\ stalled => previous \in Residuals /\ 2 * residual > previous /\ cycles > 1

\* A solution is accepted by Report, with a load, or has no load to answer.
Judged ==
  /\ loaded /\ outcome = "accepted" => Converged
  /\ ~loaded => cycles = 0 /\ outcome # "judging" /\ outcome # "failed"
  /\ ~loaded /\ outcome = "accepted" => true_residual = 0
  /\ outcome = "failed" => residual > Target

FInv == FTypeOK /\ Measured /\ Judged

-----------------------------------------------------------------------------
LEMMA FInitInv == FInit => FInv
<1> SUFFICES ASSUME FInit PROVE FInv
  OBVIOUS
<1>1. stalled \in BOOLEAN /\ ~stalled
  BY DEF FInit
<1>2. FTypeOK
  BY <1>1, NormAssumption DEF FInit, FTypeOK, Residuals
<1>3. Measured
  BY <1>1 DEF FInit, Measured
<1>4. Judged
  BY DEF FInit, Judged
<1> QED BY <1>2, <1>3, <1>4 DEF FInv

\* A round of the loop: the new residual is measured, and a stall cannot be
\* declared against the infinity of the first round.
LEMMA CycleInv ==
  ASSUME NEW count \in 0..Remaining, NEW converged \in BOOLEAN, NEW r \in Residuals,
         FInv, Cycle(count, converged, r)
  PROVE  FInv'
<1> USE NormAssumption DEF Residuals, Infinity
<1>1. FTypeOK'
  BY DEF FInv, FTypeOK, Cycle, Remaining
<1>2. Measured'
  <2>1. cycles' > 0 /\ residual' = true_residual' /\ residual' \in Residuals'
    BY DEF FInv, FTypeOK, Cycle
  <2>2. ASSUME stalled'
        PROVE  previous' \in Residuals' /\ 2 * residual' > previous' /\ cycles' > 1
    <3>1. 2 * r > residual /\ previous' = residual /\ residual' = r
      BY <2>2 DEF Cycle, Stalls
    <3>2. residual # Infinity
      BY <3>1
    <3>3. residual \in Residuals /\ cycles # 0
      BY <3>2 DEF FInv, FTypeOK, Measured
    <3> QED BY <3>1, <3>3 DEF Cycle, FInv, FTypeOK
  <2> QED BY <2>1, <2>2 DEF Measured
<1>3. Judged'
  BY DEF FInv, Judged, Cycle
<1> QED BY <1>1, <1>2, <1>3 DEF FInv

LEMMA FNextInv == FInv /\ [FNext]_fvars => FInv'
<1> SUFFICES ASSUME FInv, [FNext]_fvars PROVE FInv'
  OBVIOUS
<1> USE NormAssumption DEF FInv, FTypeOK, Measured, Judged, Residuals, Infinity
<1>1. CASE NoLoad
  BY <1>1 DEF NoLoad, Converged
<1>2. CASE \E count \in 0..Remaining, converged \in BOOLEAN, r \in Residuals :
             Cycle(count, converged, r)
  BY <1>2, CycleInv
<1>3. CASE Exhausted
  BY <1>3 DEF Exhausted, Converged
<1>4. CASE Report
  BY <1>4 DEF Report, Converged
<1>5. CASE UNCHANGED fvars
  BY <1>5 DEF fvars, Converged
<1> QED BY <1>1, <1>2, <1>3, <1>4, <1>5 DEF FNext

\* FInv is an inductive invariant of the loop.
THEOREM FInvariance == FSpec => []FInv
  BY FInitInv, FNextInv, PTL DEF FSpec

-----------------------------------------------------------------------------
\* Every state of the loop is well typed; in particular the iterations of all
\* restarts together stay within SolverMaxIter.
THEOREM FTypeCorrect == FSpec => []FTypeOK
<1>1. FInv => FTypeOK
  BY DEF FInv
<1> QED BY <1>1, FInvariance, PTL

\* What SolveNonsymmetricIteratively accepts has a true residual within the target,
\* or one within the stall limit that a restart from less than twice its size did
\* not improve.
THEOREM Soundness == FSpec => []AcceptedIsSolved
<1>1. FInv => AcceptedIsSolved
  BY NormAssumption DEF FInv, FTypeOK, Measured, Judged, AcceptedIsSolved, Converged,
                        Residuals, Infinity
<1> QED BY <1>1, FInvariance, PTL

\* What it refuses has a residual above the target.
THEOREM Refusals == FSpec => []RefusedIsUnsolved
<1>1. FInv => RefusedIsUnsolved
  BY DEF FInv, Judged, RefusedIsUnsolved
<1> QED BY <1>1, FInvariance, PTL

\* The verdict of SolveNonsymmetricIteratively on what the restarts leave in X is right,
\* whether it accepts or refuses.
THEOREM SoundVerdict == FSpec => []VerdictIsSound
  BY FTypeCorrect, Soundness, Refusals, PTL DEF VerdictIsSound

-----------------------------------------------------------------------------
\* The powers of two, one by one.
LEMMA PowersDouble ==
  /\ PowersOfTwo[0] = 1
  /\ \A i \in Nat : PowersOfTwo[i] \in Nat /\ PowersOfTwo[i + 1] = 2 * PowersOfTwo[i]
<1> DEFINE D == [i \in Nat |-> [y \in Nat |-> 2 * y]]
           P(f) == [i \in Nat |-> IF i = 0 THEN 1 ELSE 2 * f[i - 1]]
           q == CHOOSE f : f = P(f)
<1>1. PICK f \in [Nat -> Nat] : RunsOn(f, 1, D)
  <2>1. D \in [Nat -> [Nat -> Nat]] /\ 1 \in Nat
    OBVIOUS
  <2> HIDE DEF D
  <2> QED BY <2>1, Recursion
<1>2. f[0] = 1 /\ \A i \in Nat : f[i + 1] = 2 * f[i]
  BY <1>1 DEF RunsOn
<1>3. f = P(f)
  <2>1. ASSUME NEW i \in Nat PROVE f[i] = P(f)[i]
    <3>1. CASE i = 0
      BY <1>2, <3>1
    <3>2. CASE i # 0
      <4>1. i - 1 \in Nat /\ (i - 1) + 1 = i
        BY <3>2
      <4> QED BY <1>2, <3>2, <4>1
    <3> QED BY <3>1, <3>2
  <2> QED BY <1>1, <2>1
<1>4. q = P(q)
  BY <1>3
<1>5. PowersOfTwo = q
  BY DEF PowersOfTwo
<1> HIDE DEF q
<1>6. q[0] = 1
  BY <1>4
<1>7. ASSUME NEW i \in Nat PROVE q[i + 1] = 2 * q[i]
  <2>1. i + 1 \in Nat /\ i + 1 # 0 /\ (i + 1) - 1 = i
    OBVIOUS
  <2>2. q[i + 1] = P(q)[i + 1]
    BY <1>4
  <2> QED BY <2>1, <2>2
<1>8. \A i \in Nat : q[i] \in Nat
  <2> DEFINE S == {i \in Nat : q[i] \in Nat}
  <2>1. 0 \in S
    BY <1>6
  <2>2. ASSUME NEW i \in Nat, i \in S PROVE i + 1 \in S
    BY <1>7, <2>2
  <2> HIDE DEF S
  <2>3. Nat \subseteq S
    BY <2>1, <2>2, Induction
  <2> QED BY <2>3 DEF S
<1> QED BY <1>5, <1>6, <1>7, <1>8

\* A restart that leaves the loop running has halved the residual.
LEMMA HalvingNext == FInv /\ RestartsHalve /\ [FNext]_fvars => RestartsHalve'
<1> SUFFICES ASSUME FInv, RestartsHalve, [FNext]_fvars, outcome' = "running", cycles' > 0
             PROVE  residual' * PowersOfTwo[cycles' - 1] <= MaxResidual
  BY DEF RestartsHalve
<1> USE NormAssumption
<1>1. CASE \E count \in 0..Remaining, converged \in BOOLEAN, r \in Residuals :
             Cycle(count, converged, r)
  <2>1. PICK count \in 0..Remaining, converged \in BOOLEAN, r \in Residuals :
               Cycle(count, converged, r)
    BY <1>1
  <2>2. /\ outcome = "running" /\ residual' = r /\ cycles' = cycles + 1 /\ 2 * r <= residual
        /\ r \in Nat /\ r <= MaxResidual /\ cycles \in Nat /\ loaded
    <3>1. outcome = "running" /\ residual' = r /\ cycles' = cycles + 1 /\ ~Stalls(r) /\ loaded
      BY <2>1 DEF Cycle
    <3>2. residual \in Nat
      BY DEF FInv, FTypeOK, Residuals, Infinity
    <3> QED BY <3>1, <3>2 DEF Stalls, Residuals, FInv, FTypeOK
  <2>3. cycles' - 1 = cycles
    BY <2>2
  <2>4. CASE cycles = 0
    BY <2>2, <2>3, <2>4, PowersDouble
  <2>5. CASE cycles # 0
    <3> DEFINE k == cycles - 1
               q == PowersOfTwo[k]
    <3>1. k \in Nat /\ k + 1 = cycles
      BY <2>2, <2>5
    <3>2. q \in Nat /\ PowersOfTwo[cycles] = 2 * q
      BY <3>1, PowersDouble
    <3>3. residual * q <= MaxResidual /\ residual \in Nat
      BY <2>2, <2>5 DEF RestartsHalve, FInv, FTypeOK, Residuals, Infinity
    <3> HIDE DEF q
    <3>4. r * (2 * q) <= residual * q
      <4>1. residual - 2 * r \in Nat
        BY <2>2, <3>3
      <4> DEFINE d == residual - 2 * r
      <4>2. residual = 2 * r + d
        BY <2>2, <3>3
      <4> HIDE DEF d
      <4>3. d * q \in Nat /\ d \in Nat
        BY <3>2, <4>1 DEF d
      <4>4. residual * q = r * (2 * q) + d * q
        BY <2>2, <3>2, <4>2, <4>3
      <4>5. r * (2 * q) \in Nat
        BY <2>2, <3>2
      <4> QED BY <4>3, <4>4, <4>5
    <3>5. r * (2 * q) \in Nat /\ residual * q \in Nat
      BY <2>2, <3>2, <3>3
    <3> QED BY <2>2, <2>3, <3>2, <3>3, <3>4, <3>5
  <2> QED BY <2>4, <2>5
<1>2. CASE UNCHANGED <<outcome, residual, cycles>>
  BY <1>2 DEF RestartsHalve
<1>3. CASE NoLoad \/ Exhausted \/ Report
  BY <1>3 DEF NoLoad, Exhausted, Report
<1> QED BY <1>1, <1>2, <1>3 DEF FNext, fvars

\* As long as the loop goes on, every restart has halved the residual: its progress is
\* geometric, for every budget and target, and whatever the restarts return.
THEOREM ProgressIsGeometric == FSpec => []RestartsHalve
<1>1. FInit => RestartsHalve
  BY DEF FInit, RestartsHalve
<1> QED BY <1>1, FInvariance, HalvingNext, PTL DEF FSpec

-----------------------------------------------------------------------------
(* ReferencePotential: the verdict of RequireReferencePotential is right.     *)
(*                                                                         *)
(* A closed set of elements is one that no face leads out of.  Links never      *)
(* lead out of one either, so an element's root shares its piece: that gives    *)
(* AcceptedIsHeld.  For RejectedIsLoose the roots must be as few as the faces    *)
(* allow, for which an assignment of elements to classes is carried along, and   *)
(* a rank that every link increases, so that the links have no cycle.           *)

\* A boundary touches S that the check may take for one that fixes the potential.
MayBeHeld(S) == \E i \in DOMAIN boundary : /\ MayFix(boundary[i].attribute)
                                           /\ boundary[i].element \in S

ClosedSets == {S \in SUBSET Elements : Closed(S)}

\* Links stay within every closed set.
LinksStay == \A S \in ClosedSets : \A e \in Elements : e \in S <=> root[e] \in S

\* A find has not left the piece of the element it was called for.
CursorStays ==
  \A S \in ClosedSets :
    /\ phase = "find e2" => (cursor \in S <=> faces[at].e2 \in S)
    /\ phase = "find e1" => /\ (cursor \in S <=> faces[at].e1 \in S)
                         /\ (target \in S <=> faces[at].e2 \in S)
    /\ phase = "find boundary" => (cursor \in S <=> boundary[at].element \in S)
    /\ phase = "find element" => (cursor \in S <=> at \in S)

\* Where the counter stands, by the loop.
InLoop ==
  /\ phase \in {"find e2", "find e1"} => at \in DOMAIN faces /\ faces[at].e2 # NoElement
  /\ phase = "find boundary" => at \in DOMAIN boundary /\ MayFix(boundary[at].attribute)
  /\ phase = "find element" => at \in Elements

FixedIsHeld == \A S \in ClosedSets : \A r \in fixed : r \in S => MayBeHeld(S)

\* The elements before the counter lie in pieces that are held.
VerifiedIsHeld ==
  /\ phase \in {"elements", "find element"} =>
       \A S \in ClosedSets : \A e \in Elements : e < at /\ e \in S => MayBeHeld(S)
  /\ phase = "accepted" => \A S \in ClosedSets : \A e \in Elements : e \in S => MayBeHeld(S)

SoundInv == RTypeOK /\ LinksStay /\ CursorStays /\ InLoop /\ FixedIsHeld /\ VerifiedIsHeld

-----------------------------------------------------------------------------
\* What the two lists contain.
LEMMA ListTypes ==
  ASSUME RTypeOK
  PROVE  /\ Len(faces) \in Nat /\ DOMAIN faces = 1..Len(faces)
         /\ \A i \in DOMAIN faces : /\ faces[i].e1 \in Elements
                                    /\ faces[i].e2 \in Elements \cup {NoElement}
         /\ Len(boundary) \in Nat /\ DOMAIN boundary = 1..Len(boundary)
         /\ \A i \in DOMAIN boundary : boundary[i].element \in Elements
<1>1. faces \in Seq([e1 : Elements, e2 : Elements \cup {NoElement}])
  BY MeshAssumption DEF RTypeOK
<1>2. Len(faces) \in Nat /\ DOMAIN faces = 1..Len(faces)
  BY <1>1
<1>3. \A i \in DOMAIN faces : faces[i] \in [e1 : Elements, e2 : Elements \cup {NoElement}]
  BY <1>1, <1>2, ElementOfSeq
<1>4. boundary \in BoundaryLists
  BY DEF RTypeOK
<1>5. \A i \in DOMAIN boundary : boundary[i].element \in Elements
  BY <1>4, MeshAssumption
<1>6. Len(boundary) \in Nat /\ DOMAIN boundary = 1..Len(boundary)
  BY <1>4, MeshAssumption
<1> QED BY <1>2, <1>3, <1>5, <1>6

LEMMA SoundInit == RInit => SoundInv
<1> SUFFICES ASSUME RInit PROVE SoundInv
  OBVIOUS
<1>1. RTypeOK
  BY DEF RInit, RTypeOK, Finding, NoElement
<1> QED BY <1>1 DEF RInit, SoundInv, LinksStay, CursorStays, InLoop, FixedIsHeld, VerifiedIsHeld

\* Closed sets and what holds them depend on the mesh only.
LEMMA MeshFixed ==
  ASSUME UNCHANGED <<faces, boundary>>
  PROVE  ClosedSets' = ClosedSets /\ \A S : MayBeHeld(S)' <=> MayBeHeld(S)
  BY DEF ClosedSets, Closed, MayBeHeld

LEMMA SoundNext == SoundInv /\ [RNext]_rvars => SoundInv'
<1> SUFFICES ASSUME SoundInv, [RNext]_rvars PROVE SoundInv'
  OBVIOUS
<1>m. UNCHANGED <<faces, boundary>>
  BY DEF RNext, rvars, Halve, NextFace, FoundSecond, Unite, FacesDone, NextBoundary, Fix,
         BoundaryDone, NextElement, Verify
<1>c. ClosedSets' = ClosedSets /\ \A S : MayBeHeld(S)' <=> MayBeHeld(S)
  BY <1>m, MeshFixed
<1>t. RTypeOK /\ LinksStay /\ CursorStays /\ InLoop /\ FixedIsHeld /\ VerifiedIsHeld
  BY DEF SoundInv
<1>l. /\ Len(faces) \in Nat /\ DOMAIN faces = 1..Len(faces)
      /\ \A i \in DOMAIN faces : /\ faces[i].e1 \in Elements
                                 /\ faces[i].e2 \in Elements \cup {NoElement}
      /\ Len(boundary) \in Nat /\ DOMAIN boundary = 1..Len(boundary)
      /\ \A i \in DOMAIN boundary : boundary[i].element \in Elements
  BY <1>t, ListTypes
<1>n. at \in Nat /\ at # 0 /\ NE \in Nat /\ at + 1 \in Nat \ {0}
  <2>1. at \in Nat \ {0} /\ NE \in Nat
    BY <1>t, MeshAssumption DEF RTypeOK
  <2> QED BY <2>1
<1>1. CASE Halve
  <2>1. cursor \in Elements /\ root[cursor] \in Elements /\ root[root[cursor]] \in Elements
    BY <1>1, <1>t DEF Halve, RTypeOK, Finding
  <2>2. RTypeOK'
    BY <1>1, <1>t, <2>1 DEF Halve, RTypeOK, Finding
  <2>3. \A S \in ClosedSets : cursor \in S <=> root[root[cursor]] \in S
    BY <1>t, <2>1 DEF LinksStay
  <2>4. LinksStay'
    BY <1>1, <1>t, <1>c, <2>1, <2>3 DEF Halve, LinksStay, RTypeOK
  <2>5. CursorStays'
    BY <1>1, <1>t, <1>c, <2>3 DEF Halve, CursorStays
  <2>6. InLoop' /\ FixedIsHeld' /\ VerifiedIsHeld'
    BY <1>1, <1>t, <1>c DEF Halve, InLoop, FixedIsHeld, VerifiedIsHeld
  <2> QED BY <2>2, <2>4, <2>5, <2>6 DEF SoundInv
<1>2. CASE NextFace
  <2>1. CASE faces[at].e2 = NoElement
    <3>1. phase = "faces" /\ phase' = phase /\ at' = at + 1 /\ UNCHANGED <<root, fixed, cursor, target>>
      BY <1>2, <2>1 DEF NextFace
    <3>2. RTypeOK'
      BY <3>1, <1>m, <1>t, <1>n DEF RTypeOK, Finding
    <3> QED BY <3>1, <3>2, <1>m, <1>c, <1>t DEF SoundInv, InLoop, LinksStay, CursorStays,
                                               FixedIsHeld, VerifiedIsHeld
  <2>2. CASE faces[at].e2 # NoElement
    <3>1. /\ phase = "faces" /\ phase' = "find e2" /\ cursor' = faces[at].e2
          /\ UNCHANGED <<at, root, fixed, target>>
      BY <1>2, <2>2 DEF NextFace
    <3>2. at \in DOMAIN faces /\ faces[at].e2 \in Elements
      <4>1. at <= Len(faces)
        BY <1>2 DEF NextFace
      <4>2. at \in DOMAIN faces
        BY <4>1, <1>l, <1>n
      <4> QED BY <4>2, <2>2, <1>l
    <3>3. RTypeOK'
      BY <3>1, <3>2, <1>m, <1>t DEF RTypeOK, Finding
    <3> QED BY <3>1, <3>2, <3>3, <2>2, <1>m, <1>c, <1>t DEF SoundInv, InLoop, LinksStay,
                                       CursorStays, FixedIsHeld, VerifiedIsHeld
  <2> QED BY <2>1, <2>2
<1>3. CASE FoundSecond
  <2>1. RTypeOK' /\ InLoop'
    BY <1>3, <1>t, <1>l DEF FoundSecond, RTypeOK, InLoop, Finding
  <2>2. LinksStay' /\ CursorStays' /\ FixedIsHeld' /\ VerifiedIsHeld'
    BY <1>3, <1>t, <1>c DEF FoundSecond, LinksStay, CursorStays, FixedIsHeld, VerifiedIsHeld
  <2> QED BY <2>1, <2>2 DEF SoundInv
<1>4. CASE Unite
  <2>1. RTypeOK' /\ InLoop'
    BY <1>4, <1>t, <1>n DEF Unite, Link, RTypeOK, InLoop, Finding
  <2>2. \A S \in ClosedSets : cursor \in S <=> target \in S
    BY <1>4, <1>t DEF Unite, CursorStays, InLoop, ClosedSets, Closed
  <2>3. LinksStay'
    BY <1>4, <1>t, <1>c, <2>2 DEF Unite, Link, LinksStay, RTypeOK
  <2>4. CursorStays' /\ FixedIsHeld' /\ VerifiedIsHeld'
    BY <1>4, <1>t, <1>c DEF Unite, CursorStays, FixedIsHeld, VerifiedIsHeld
  <2> QED BY <2>1, <2>3, <2>4 DEF SoundInv
<1>5. CASE FacesDone
  BY <1>5, <1>t, <1>c DEF FacesDone, SoundInv, RTypeOK, InLoop, Finding, LinksStay,
                          CursorStays, FixedIsHeld, VerifiedIsHeld
<1>6. CASE NextBoundary
  <2>1. CASE at' = at + 1 /\ UNCHANGED <<phase, cursor>>
    <3>1. phase = "boundary" /\ phase' = phase /\ at' = at + 1 /\ UNCHANGED <<root, fixed, cursor, target>>
      BY <1>6, <2>1 DEF NextBoundary
    <3>2. RTypeOK'
      BY <3>1, <1>m, <1>t, <1>n DEF RTypeOK, Finding
    <3> QED BY <3>1, <3>2, <1>m, <1>c, <1>t DEF SoundInv, InLoop, LinksStay, CursorStays,
                                               FixedIsHeld, VerifiedIsHeld
  <2>2. CASE /\ MayFix(boundary[at].attribute)
             /\ cursor' = boundary[at].element /\ phase' = "find boundary" /\ UNCHANGED at
    <3>1. /\ phase = "boundary" /\ phase' = "find boundary" /\ cursor' = boundary[at].element
          /\ UNCHANGED <<at, root, fixed, target>>
      BY <1>6, <2>2 DEF NextBoundary
    <3>2. at \in DOMAIN boundary /\ boundary[at].element \in Elements
      <4>1. at <= Len(boundary)
        BY <1>6 DEF NextBoundary
      <4>2. at \in DOMAIN boundary
        BY <4>1, <1>l, <1>n
      <4> QED BY <4>2, <1>l
    <3>3. RTypeOK'
      BY <3>1, <3>2, <1>m, <1>t DEF RTypeOK, Finding
    <3>4. MayFix(boundary'[at'].attribute)
      BY <2>2, <3>1, <1>m
    <3>5. InLoop'
      BY <3>1, <3>2, <3>4, <1>m DEF InLoop
    <3> QED BY <3>1, <3>3, <3>5, <1>m, <1>c, <1>t DEF SoundInv, LinksStay,
                                       CursorStays, FixedIsHeld, VerifiedIsHeld
  <2> QED BY <1>6, <2>1, <2>2 DEF NextBoundary
<1>7. CASE Fix
  <2>1. RTypeOK' /\ InLoop'
    BY <1>7, <1>t, <1>n DEF Fix, RTypeOK, InLoop, Finding
  <2>2. \A S \in ClosedSets : cursor \in S => MayBeHeld(S)
    BY <1>7, <1>t DEF Fix, CursorStays, InLoop, MayBeHeld
  <2>3. FixedIsHeld'
    BY <1>7, <1>t, <1>c, <2>2 DEF Fix, FixedIsHeld
  <2>4. LinksStay' /\ CursorStays' /\ VerifiedIsHeld'
    BY <1>7, <1>t, <1>c DEF Fix, LinksStay, CursorStays, VerifiedIsHeld
  <2> QED BY <2>1, <2>3, <2>4 DEF SoundInv
<1>8. CASE BoundaryDone
  <2>1. VerifiedIsHeld'
    BY <1>8 DEF BoundaryDone, VerifiedIsHeld, Elements
  <2> QED BY <1>8, <1>t, <1>c, <2>1 DEF BoundaryDone, SoundInv, RTypeOK, InLoop, Finding,
                                       LinksStay, CursorStays, FixedIsHeld
<1>9. CASE NextElement
  <2>1. RTypeOK' /\ InLoop'
    BY <1>9, <1>t DEF NextElement, RTypeOK, InLoop, Finding
  <2>2. at \notin Elements => \A e \in Elements : e < at
    BY <1>n DEF Elements
  <2>3. VerifiedIsHeld'
    BY <1>9, <1>t, <1>c, <2>2 DEF NextElement, VerifiedIsHeld
  <2>4. LinksStay' /\ CursorStays' /\ FixedIsHeld'
    BY <1>9, <1>t, <1>c DEF NextElement, LinksStay, CursorStays, FixedIsHeld
  <2> QED BY <2>1, <2>3, <2>4 DEF SoundInv
<1>10. CASE Verify
  <2>1. RTypeOK' /\ InLoop'
    BY <1>10, <1>t, <1>n DEF Verify, RTypeOK, InLoop, Finding
  <2>2. \A S \in ClosedSets : at \in S /\ cursor \in fixed => MayBeHeld(S)
    BY <1>10, <1>t DEF Verify, CursorStays, FixedIsHeld
  <2>3. \A e \in Elements : e < at + 1 => e < at \/ e = at
    BY <1>n DEF Elements
  <2>4. VerifiedIsHeld'
    BY <1>10, <1>t, <1>c, <2>2, <2>3 DEF Verify, VerifiedIsHeld
  <2>5. LinksStay' /\ CursorStays' /\ FixedIsHeld'
    BY <1>10, <1>t, <1>c DEF Verify, LinksStay, CursorStays, FixedIsHeld
  <2> QED BY <2>1, <2>4, <2>5 DEF SoundInv
<1>11. CASE UNCHANGED rvars
  BY <1>11, <1>t, <1>c DEF rvars, SoundInv, RTypeOK, InLoop, LinksStay, CursorStays,
                           FixedIsHeld, VerifiedIsHeld
<1> QED BY <1>1, <1>2, <1>3, <1>4, <1>5, <1>6, <1>7, <1>8, <1>9, <1>10, <1>11 DEF RNext

-----------------------------------------------------------------------------
\* Every state of the check is well typed.
THEOREM RTypeCorrect == RSpec => []RTypeOK
<1>1. SoundInv => RTypeOK
  BY DEF SoundInv
<1> QED BY <1>1, SoundInit, SoundNext, PTL DEF RSpec

\* Of a mesh that RequireReferencePotential accepts, every piece is held by a
\* boundary that fixes the potential, if the boundary attributes are positive.
THEOREM AcceptanceIsSound == RSpec => []PositiveIsHeld
<1>1. SoundInv => PositiveIsHeld
  <2> SUFFICES ASSUME SoundInv, PositiveAttributes, phase = "accepted",
                      NEW S \in SUBSET Elements, S # {}, Closed(S)
               PROVE  Held(S)
    BY DEF PositiveIsHeld, AcceptedIsHeld
  <2>1. MayBeHeld(S)
    BY DEF SoundInv, VerifiedIsHeld, ClosedSets
  <2> QED BY <2>1 DEF MayBeHeld, Held, MayFix, FixesPotential, Pinned, PositiveAttributes
<1> QED BY <1>1, SoundInit, SoundNext, PTL DEF RSpec

-----------------------------------------------------------------------------
(* Completeness.                                                           *)

Uniting == {"faces", "find e2", "find e1"}
Fixing == {"boundary", "find boundary"}

\* Links join elements of one class, a root is the name of its class, and every
\* link leads to a higher rank.
Forest(class, rank) ==
  /\ class \in [Elements -> Elements] /\ rank \in [Elements -> Nat]
  /\ \A e \in Elements : class[root[e]] = class[e]
  /\ \A e \in Elements : root[e] = e => class[e] = e
  /\ \A e \in Elements : root[e] # e => rank[e] < rank[root[e]]

\* The faces passed have both their elements in one class.
FacesUnited(class) ==
  \A i \in DOMAIN faces :
    faces[i].e2 # NoElement /\ (phase \in Uniting => i < at)
      => class[faces[i].e1] = class[faces[i].e2]

\* The boundary elements passed that fix the potential have fixed their class.
ClassesFixed(class) ==
  \A i \in DOMAIN boundary :
    /\ FixesPotential(boundary[i].attribute)
    /\ phase \notin Uniting
    /\ phase \in Fixing => i < at
    => class[boundary[i].element] \in fixed

\* What the find in progress, or the last one, has to do with its class.
FindsClass(class) ==
  /\ phase = "find e2" => class[cursor] = class[faces[at].e2]
  /\ phase = "find e1" => /\ class[cursor] = class[faces[at].e1]
                       /\ class[target] = class[faces[at].e2] /\ root[target] = target
  /\ phase = "find boundary" => class[cursor] = class[boundary[at].element]
  /\ phase = "rejected" => cursor \in Elements \ fixed /\ class[cursor] = cursor

Classified(class, rank) ==
  Forest(class, rank) /\ FacesUnited(class) /\ ClassesFixed(class) /\ FindsClass(class)

CompleteInv ==
  \E class \in [Elements -> Elements], rank \in [Elements -> Nat] : Classified(class, rank)

LEMMA CompleteInit == RInit => CompleteInv
<1> SUFFICES ASSUME RInit PROVE CompleteInv
  OBVIOUS
<1> DEFINE id == [e \in Elements |-> e]
           zero == [e \in Elements |-> 0]
<1>1. id \in [Elements -> Elements] /\ zero \in [Elements -> Nat]
  OBVIOUS
<1>2. Forest(id, zero)
  BY <1>1 DEF Forest, RInit
<1>3. DOMAIN faces = 1..Len(faces) /\ Len(faces) \in Nat
  BY MeshAssumption DEF RInit
<1>4. FacesUnited(id)
  BY <1>3 DEF FacesUnited, RInit, Uniting
<1>5. ClassesFixed(id) /\ FindsClass(id)
  BY DEF ClassesFixed, FindsClass, RInit, Uniting
<1>6. Classified(id, zero)
  BY <1>2, <1>4, <1>5 DEF Classified
<1> QED BY <1>1, <1>6 DEF CompleteInv

\* Uniting two classes: the one of e1 takes the name of the other, whose ranks
\* are raised above it.
LEMMA UniteClasses ==
  ASSUME SoundInv, Unite,
         NEW class \in [Elements -> Elements], NEW rank \in [Elements -> Nat],
         Classified(class, rank)
  PROVE  CompleteInv'
<1>a. PICK a \in Elements, b \in Elements : a = cursor /\ b = target
  BY DEF SoundInv, RTypeOK, Finding, Unite
<1> DEFINE merged == [e \in Elements |-> IF class[e] = a THEN b ELSE class[e]]
           raised == [e \in Elements |->
                        IF a # b /\ class[e] = b THEN rank[e] + rank[a] + 1 ELSE rank[e]]
<1>1. /\ a \in Elements /\ b \in Elements /\ root \in [Elements -> Elements]
      /\ root[a] = a /\ root[b] = b /\ class[a] = a /\ class[b] = b
      /\ root' = [root EXCEPT ![a] = b]
  BY <1>a DEF SoundInv, RTypeOK, Finding, Unite, Found, Link, Classified, Forest, FindsClass
<1>2. merged \in [Elements -> Elements] /\ raised \in [Elements -> Nat]
  BY <1>1
<1>3. ASSUME NEW e \in Elements
      PROVE  /\ merged[root'[e]] = merged[e]
             /\ root'[e] = e => merged[e] = e
             /\ root'[e] # e => raised[e] < raised[root'[e]]
  <2>1. root[e] \in Elements /\ class[root[e]] = class[e] /\ rank[e] \in Nat /\ rank[a] \in Nat
        /\ rank[root[e]] \in Nat /\ rank[b] \in Nat
        /\ (root[e] = e => class[e] = e) /\ (root[e] # e => rank[e] < rank[root[e]])
    BY <1>1 DEF Classified, Forest
  <2>2. CASE e = a
    BY <1>1, <2>1, <2>2
  <2>3. CASE e # a
    BY <1>1, <2>1, <2>3
  <2> QED BY <2>2, <2>3
<1>4. Forest(merged, raised)'
  BY <1>2, <1>3 DEF Forest
<1>5. ASSUME NEW i \in DOMAIN faces, faces[i].e2 # NoElement, i < at'
      PROVE  merged[faces[i].e1] = merged[faces[i].e2]
  <2>1. /\ DOMAIN faces = 1..Len(faces) /\ Len(faces) \in Nat /\ at \in Nat /\ at' = at + 1
        /\ faces[i].e1 \in Elements /\ faces[i].e2 \in Elements
    BY <1>5, ListTypes DEF SoundInv, RTypeOK, Unite
  <2>2. CASE i = at
    BY <1>1, <1>a, <2>1, <2>2 DEF Unite, Classified, FindsClass
  <2>3. CASE i # at
    <3>1. i < at
      BY <1>5, <2>1, <2>3
    <3>2. class[faces[i].e1] = class[faces[i].e2]
      BY <3>1, <1>5 DEF Classified, FacesUnited
    <3> QED BY <3>2, <2>1
  <2> QED BY <2>2, <2>3
<1>6. FacesUnited(merged)'
  BY <1>5 DEF FacesUnited, Unite, Uniting
<1>7. ClassesFixed(merged)' /\ FindsClass(merged)'
  BY DEF ClassesFixed, FindsClass, Unite, Uniting
<1>8. Classified(merged, raised)'
  BY <1>4, <1>6, <1>7 DEF Classified
<1> QED BY <1>2, <1>8 DEF CompleteInv

\* Path halving keeps to the class and raises the rank the more.
LEMMA HalveClasses ==
  ASSUME SoundInv, Halve,
         NEW class \in [Elements -> Elements], NEW rank \in [Elements -> Nat],
         Classified(class, rank)
  PROVE  Classified(class, rank)'
<1> DEFINE up == root[root[cursor]]
<1>1. /\ cursor \in Elements /\ root \in [Elements -> Elements]
      /\ root[cursor] \in Elements /\ up \in Elements /\ root[cursor] # cursor
      /\ root' = [root EXCEPT ![cursor] = up] /\ cursor' = up
  BY DEF SoundInv, RTypeOK, Finding, Halve, Found
<1>2. class[up] = class[cursor] /\ rank[cursor] < rank[up]
  <2>1. class[up] = class[root[cursor]] /\ class[root[cursor]] = class[cursor]
    BY <1>1 DEF Classified, Forest
  <2>2. rank[cursor] < rank[root[cursor]]
    BY <1>1 DEF Classified, Forest
  <2>3. up = root[cursor] \/ rank[root[cursor]] < rank[up]
    BY <1>1 DEF Classified, Forest
  <2>4. rank[cursor] \in Nat /\ rank[root[cursor]] \in Nat /\ rank[up] \in Nat
    BY <1>1
  <2> QED BY <2>1, <2>2, <2>3, <2>4
<1>3. up # cursor
  BY <1>1, <1>2
<1>4. Forest(class, rank)'
  BY <1>1, <1>2, <1>3 DEF Classified, Forest
<1>5. FacesUnited(class)' /\ ClassesFixed(class)'
  BY DEF Halve, Classified, FacesUnited, ClassesFixed
<1>6. FindsClass(class)'
  <2>1. UNCHANGED <<faces, boundary, fixed, phase, at, target>> /\ phase # "rejected"
    BY DEF Halve
  <2>2. phase = "find e1" => root[target] = target /\ target \in Elements
    BY DEF Classified, FindsClass, SoundInv, RTypeOK
  <2>3. phase = "find e1" => root'[target] = target
    BY <1>1, <2>2
  <2> QED BY <1>1, <1>2, <2>1, <2>3 DEF Classified, FindsClass
<1> QED BY <1>4, <1>5, <1>6 DEF Classified

LEMMA CompleteNext == SoundInv /\ CompleteInv /\ [RNext]_rvars => CompleteInv'
<1> SUFFICES ASSUME SoundInv, CompleteInv, [RNext]_rvars PROVE CompleteInv'
  OBVIOUS
<1>0. PICK class \in [Elements -> Elements], rank \in [Elements -> Nat] :
             Classified(class, rank)
  BY DEF CompleteInv
<1>f. Forest(class, rank) /\ FacesUnited(class) /\ ClassesFixed(class) /\ FindsClass(class)
  BY <1>0 DEF Classified
<1>l. /\ Len(faces) \in Nat /\ DOMAIN faces = 1..Len(faces)
      /\ Len(boundary) \in Nat /\ DOMAIN boundary = 1..Len(boundary)
      /\ at \in Nat
  BY ListTypes DEF SoundInv, RTypeOK
<1>s. SUFFICES ASSUME ~Unite PROVE Classified(class, rank)'
  BY <1>0, UniteClasses DEF CompleteInv
<1>1. CASE Halve
  BY <1>0, <1>1, HalveClasses
<1>2. CASE NextFace
  <2>1. \A i \in DOMAIN faces : i < at' => i < at \/ (i = at /\ faces[at].e2 = NoElement)
    <3>1. CASE faces[at].e2 = NoElement
      <4>1. at' = at + 1
        BY <1>2, <3>1 DEF NextFace
      <4> QED BY <4>1, <3>1, <1>l
    <3>2. CASE faces[at].e2 # NoElement
      <4>1. at' = at
        BY <1>2, <3>2 DEF NextFace
      <4> QED BY <4>1
    <3> QED BY <3>1, <3>2
  <2>2. Forest(class, rank)' /\ FacesUnited(class)' /\ ClassesFixed(class)'
    BY <1>2, <1>f, <2>1 DEF NextFace, Forest, FacesUnited, ClassesFixed, Uniting
  <2>3. FindsClass(class)'
    BY <1>2, <1>f DEF NextFace, FindsClass
  <2> QED BY <2>2, <2>3 DEF Classified
<1>3. CASE FoundSecond
  <2>1. Forest(class, rank)' /\ FacesUnited(class)' /\ ClassesFixed(class)'
    BY <1>3, <1>f DEF FoundSecond, Forest, FacesUnited, ClassesFixed, Uniting
  <2>2. FindsClass(class)'
    BY <1>3, <1>f DEF FoundSecond, Found, FindsClass
  <2> QED BY <2>1, <2>2 DEF Classified
<1>4. CASE FacesDone
  <2>1. \A i \in DOMAIN faces : i < at
    BY <1>4, <1>l DEF FacesDone
  <2>2. \A i \in DOMAIN boundary : ~(i < 1)
    BY <1>l
  <2>3. Forest(class, rank)' /\ FacesUnited(class)' /\ ClassesFixed(class)' /\ FindsClass(class)'
    BY <1>4, <1>f, <2>1, <2>2 DEF FacesDone, Forest, FacesUnited, ClassesFixed, FindsClass,
                                 Uniting, Fixing
  <2> QED BY <2>3 DEF Classified
<1>5. CASE NextBoundary
  <2>1. \A i \in DOMAIN boundary :
          i < at' => i < at \/ (i = at /\ ~FixesPotential(boundary[at].attribute))
    <3>1. \/ at' = at
          \/ at' = at + 1 /\ ~FixesPotential(boundary[at].attribute)
      BY <1>5 DEF NextBoundary
    <3> QED BY <3>1, <1>l
  <2>2. Forest(class, rank)' /\ FacesUnited(class)'
    BY <1>5, <1>f DEF NextBoundary, Forest, FacesUnited, Uniting
  <2>3. ClassesFixed(class)'
    BY <1>5, <1>f, <2>1 DEF NextBoundary, ClassesFixed, FixesPotential, Uniting, Fixing
  <2>4. FindsClass(class)'
    BY <1>5, <1>f DEF NextBoundary, FindsClass
  <2> QED BY <2>2, <2>3, <2>4 DEF Classified
<1>6. CASE Fix
  <2>1. cursor \in Elements /\ class[cursor] = cursor
    BY <1>6, <1>f DEF Fix, Found, Forest, SoundInv, RTypeOK, Finding
  <2>2. \A i \in DOMAIN boundary : i < at + 1 => i < at \/ i = at
    BY <1>l
  <2>3. Forest(class, rank)' /\ FacesUnited(class)' /\ FindsClass(class)'
    BY <1>6, <1>f DEF Fix, Forest, FacesUnited, FindsClass, Uniting
  <2>4. ClassesFixed(class)'
    BY <1>6, <1>f, <2>1, <2>2 DEF Fix, ClassesFixed, FindsClass, FixesPotential, Uniting, Fixing
  <2> QED BY <2>3, <2>4 DEF Classified
<1>7. CASE BoundaryDone
  <2>1. \A i \in DOMAIN boundary : i < at
    BY <1>7, <1>l DEF BoundaryDone
  <2>2. Forest(class, rank)' /\ FacesUnited(class)' /\ FindsClass(class)'
    BY <1>7, <1>f DEF BoundaryDone, Forest, FacesUnited, FindsClass, Uniting
  <2>3. ClassesFixed(class)'
    BY <1>7, <1>f, <2>1 DEF BoundaryDone, ClassesFixed, FixesPotential, Uniting, Fixing
  <2> QED BY <2>2, <2>3 DEF Classified
<1>8. CASE NextElement
  <2>1. Forest(class, rank)' /\ FacesUnited(class)' /\ FindsClass(class)'
    BY <1>8, <1>f DEF NextElement, Forest, FacesUnited, FindsClass, Uniting
  <2>2. ClassesFixed(class)'
    BY <1>8, <1>f DEF NextElement, ClassesFixed, FixesPotential, Uniting, Fixing
  <2> QED BY <2>1, <2>2 DEF Classified
<1>9. CASE Verify
  <2>1. cursor \in Elements /\ class[cursor] = cursor
    BY <1>9, <1>f DEF Verify, Found, Forest, SoundInv, RTypeOK, Finding
  <2>2. Forest(class, rank)' /\ FacesUnited(class)'
    BY <1>9, <1>f DEF Verify, Forest, FacesUnited, Uniting
  <2>3. ClassesFixed(class)'
    BY <1>9, <1>f DEF Verify, ClassesFixed, FixesPotential, Uniting, Fixing
  <2>4. FindsClass(class)'
    BY <1>9, <2>1 DEF Verify, FindsClass
  <2> QED BY <2>2, <2>3, <2>4 DEF Classified
<1>10. CASE UNCHANGED rvars
  BY <1>10, <1>f DEF rvars, Classified, Forest, FacesUnited, ClassesFixed, FindsClass,
                     FixesPotential
<1> QED BY <1>s, <1>1, <1>2, <1>3, <1>4, <1>5, <1>6, <1>7, <1>8, <1>9, <1>10 DEF RNext

\* What RequireReferencePotential rejects has a piece whose potential no boundary
\* fixes.
THEOREM RejectionIsJustified == RSpec => []RejectedIsLoose
<1>1. SoundInv /\ CompleteInv => RejectedIsLoose
  <2> SUFFICES ASSUME SoundInv, CompleteInv, phase = "rejected"
               PROVE  \E S \in SUBSET Elements : S # {} /\ Closed(S) /\ ~Held(S)
    BY DEF RejectedIsLoose
  <2>1. PICK class \in [Elements -> Elements], rank \in [Elements -> Nat] :
               Classified(class, rank)
    BY DEF CompleteInv
  <2> DEFINE S == {e \in Elements : class[e] = cursor}
  <2>2. cursor \in Elements \ fixed /\ class[cursor] = cursor
    BY <2>1 DEF Classified, FindsClass
  <2>3. Closed(S)
    <3>1. \A i \in DOMAIN faces : /\ faces[i].e1 \in Elements
                                  /\ faces[i].e2 \in Elements \cup {NoElement}
      BY ListTypes DEF SoundInv
    <3> QED BY <2>1, <3>1 DEF Closed, Classified, FacesUnited, Uniting
  <2>4. ~Held(S)
    <3>1. \A i \in DOMAIN boundary :
            boundary[i].attribute \in Pinned => class[boundary[i].element] \in fixed
      BY <2>1 DEF Classified, ClassesFixed, Pinned, FixesPotential, Uniting, Fixing
    <3> QED BY <2>2, <3>1 DEF Held
  <2> QED BY <2>2, <2>3, <2>4
<1> QED BY <1>1, SoundInit, SoundNext, CompleteInit, CompleteNext, PTL DEF RSpec

\* The verdict of RequireReferencePotential is right both ways, for every mesh.
THEOREM VerdictIsRight == RSpec => []PiecesAreHeld
<1> QED BY RTypeCorrect, AcceptanceIsSound, RejectionIsJustified, PTL DEF PiecesAreHeld

-----------------------------------------------------------------------------
(* DorflerMarking: what the marked set carries, for every list of indicators and   *)
(* every fraction.                                                          *)

Squares == [e \in Indices |-> errors[e] * errors[e]]
MarkedBut(l) == {marked[i] : i \in 1..(l - 1)}

\* The elements marked so far are the first of the order, and accum is what they carry.
FirstOfOrder ==
  /\ idx \in Orders /\ Sorted(idx)
  /\ marked \in Seq(Indices) /\ Len(marked) <= Len(errors)
  /\ \A i \in 1..Len(marked) : marked[i] = idx[i]
  /\ Cardinality(Marked) = Len(marked)
  /\ accum = Squared(Marked)

\* Without the last one they do not reach the threshold.
NotBefore ==
  LET l == Len(marked)
  IN  /\ l > 0
      /\ ~Reached(Squared(MarkedBut(l)))
      /\ Reached(accum) \/ l = Len(errors)

DInv ==
  /\ errors \in ErrorVectors /\ fraction \in Fractions
  /\ pc \in {"called", "marking", "returned"}
  /\ pc = "called" => idx = <<>> /\ marked = <<>> /\ accum = 0
  /\ pc = "marking" =>
       ~NoError /\ FirstOfOrder /\ Len(marked) < Len(errors) /\ ~Reached(accum)
  /\ pc = "returned" =>
       \/ NoError /\ idx = <<>> /\ marked = <<>> /\ accum = 0
       \/ ~NoError /\ FirstOfOrder /\ NotBefore

LEMMA Indicators ==
  ASSUME MarkingAssumption, errors \in ErrorVectors
  PROVE  /\ errors \in Seq(Nat) /\ Len(errors) \in Nat /\ Indices = 1..Len(errors)
         /\ \A e \in Indices : errors[e] \in Nat /\ Squares[e] \in Nat
         /\ \A e \in Indices : Squares[e] = errors[e] * errors[e]
         /\ \A e \in Indices : errors[e] = 0 <=> Squares[e] = 0
         /\ \A e, u \in Indices : errors[u] <= errors[e] => Squares[u] <= Squares[e]
<1>1. errors \in Seq(Nat)
  BY DEF MarkingAssumption
<1>2. /\ Len(errors) \in Nat /\ Indices = 1..Len(errors)
      /\ \A e \in Indices : errors[e] \in Nat
  BY <1>1 DEF Indices
<1>3. \A e \in Indices : Squares[e] = errors[e] * errors[e]
  BY DEF Squares
<1>4. /\ \A a \in Nat : a * a \in Nat /\ (a = 0 <=> a * a = 0)
      /\ \A a, b \in Nat : b <= a => b * b <= a * a
  BY SMT
<1>5. \A e \in Indices : Squares[e] \in Nat /\ (errors[e] = 0 <=> Squares[e] = 0)
  <2> TAKE e \in Indices
  <2> DEFINE a == errors[e]
  <2>1. a \in Nat /\ Squares[e] = a * a
    BY <1>2, <1>3
  <2> HIDE DEF a
  <2>2. a * a \in Nat /\ (a = 0 <=> a * a = 0)
    BY <1>4, <2>1, Zenon
  <2> QED
    BY <2>1, <2>2 DEF a
<1>6. \A e, u \in Indices : errors[u] <= errors[e] => Squares[u] <= Squares[e]
  <2> TAKE e, u \in Indices
  <2> DEFINE a == errors[e]
             b == errors[u]
  <2>1. a \in Nat /\ b \in Nat /\ Squares[e] = a * a /\ Squares[u] = b * b
    BY <1>2, <1>3
  <2> HIDE DEF a, b
  <2>2. b <= a => b * b <= a * a
    BY <1>4, <2>1, Zenon
  <2> QED
    BY <2>1, <2>2 DEF a, b
<1> QED
  BY <1>1, <1>2, <1>3, <1>5, <1>6

\* What a set of elements carries.
LEMMA Carried ==
  ASSUME MarkingAssumption, errors \in ErrorVectors
  PROVE  /\ \A S \in SUBSET Indices : Squared(S) \in Nat
         /\ \A S \in SUBSET Indices : \A e \in Indices \ S :
              Squared(S \cup {e}) = Squared(S) + errors[e] * errors[e]
         /\ \A S \in SUBSET Indices : \A e \in S : errors[e] * errors[e] <= Squared(S)
         /\ \A S \in SUBSET Indices : (\A e \in S : errors[e] = 0) => Squared(S) = 0
         /\ \A S \in SUBSET Indices : Squared(S) <= TotalError
         /\ \A S, T \in SUBSET Indices :
              /\ Cardinality(T) <= Cardinality(S)
              /\ \A e \in S : \A u \in Indices \ S : errors[u] <= errors[e]
              => Squared(T) <= Squared(S)
<1> DEFINE v == Squares
           N == Len(errors)
<1>1. /\ N \in Nat /\ Indices = 1..N /\ \A k \in 1..N : v[k] \in Nat
      /\ \A e \in Indices : v[e] = errors[e] * errors[e]
      /\ \A e \in Indices : errors[e] = 0 <=> v[e] = 0
      /\ \A e, u \in Indices : errors[u] <= errors[e] => v[u] <= v[e]
  BY Indicators
<1>2. \A S : Squared(S) = SumUpTo(S, v, N)
  BY DEF Squared, Squares
<1> HIDE DEF v, N
<1>3. \A S \in SUBSET Indices : SumUpTo(S, v, N) \in Nat
  BY <1>1, SumBounds
<1>4. ASSUME NEW S \in SUBSET Indices, NEW e \in Indices \ S
      PROVE  SumUpTo(S \cup {e}, v, N) = SumUpTo(S, v, N) + v[e]
  <2>1. S \in SUBSET (1..N) /\ e \in (1..N) \ S
    BY <1>1
  <2> QED
    BY <1>1, <2>1, SumAdd
<1>5. \A S \in SUBSET Indices : \A e \in S : v[e] <= SumUpTo(S, v, N)
  BY <1>1, SumBounds
<1>6. \A S \in SUBSET Indices : (\A e \in S : v[e] = 0) => SumUpTo(S, v, N) = 0
  BY <1>1, SumBounds
<1>7. \A S \in SUBSET Indices : SumUpTo(S, v, N) <= SumUpTo(Indices, v, N)
  BY <1>1, SumMonotone
<1>8. ASSUME NEW S \in SUBSET Indices, NEW T \in SUBSET Indices,
             Cardinality(T) <= Cardinality(S),
             \A e \in S : \A u \in Indices \ S : errors[u] <= errors[e]
      PROVE  SumUpTo(T, v, N) <= SumUpTo(S, v, N)
  <2>1. \A e \in S : \A u \in (1..N) \ S : v[u] <= v[e]
    BY <1>1, <1>8
  <2> QED
    BY <1>1, <1>8, <2>1, LargestSum
<1> DEFINE sq(e) == errors[e] * errors[e]
           sum(S) == SumUpTo(S, v, N)
<1>9. /\ \A e \in Indices : v[e] = sq(e) /\ (errors[e] = 0 <=> v[e] = 0)
      /\ \A S : Squared(S) = sum(S)
      /\ TotalError = sum(Indices)
  BY <1>1, <1>2 DEF TotalError
<1> HIDE DEF sq
<1>10. /\ \A S \in SUBSET Indices : \A e \in Indices \ S : sum(S \cup {e}) = sum(S) + sq(e)
       /\ \A S \in SUBSET Indices : \A e \in S : sq(e) <= sum(S)
       /\ \A S \in SUBSET Indices : (\A e \in S : errors[e] = 0) => sum(S) = 0
  BY <1>4, <1>5, <1>6, <1>9
<1> HIDE DEF sum
<1> QED
  BY <1>3, <1>7, <1>8, <1>9, <1>10 DEF sq, sum

\* The fraction that is used is in (0, 1].
LEMMA ClampedFraction ==
  ASSUME MarkingAssumption, fraction \in Fractions
  PROVE  LET f == Clamped(fraction)
         IN /\ f.num \in Nat \ {0} /\ f.den \in Nat \ {0} /\ f.num <= f.den
            /\ 0 < fraction.num /\ fraction.num <= fraction.den => f = fraction
<1>1. fraction.num \in Int /\ fraction.den \in Nat \ {0}
  BY DEF MarkingAssumption
<1> QED
  BY <1>1 DEF Clamped

\* More reaches the threshold if less does, nothing does not, and all of it does.
LEMMA Threshold ==
  ASSUME MarkingAssumption, errors \in ErrorVectors, fraction \in Fractions
  PROVE  /\ \A a, b \in Nat : a <= b /\ Reached(a) => Reached(b)
         /\ TotalError \in Nat
         /\ TotalError # 0 => ~Reached(0)
         /\ Reached(TotalError)
<1> DEFINE num == Clamped(fraction).num
           den == Clamped(fraction).den
           t == TotalError
<1>1. num \in Nat \ {0} /\ den \in Nat \ {0} /\ num <= den
  BY ClampedFraction
<1>2. t \in Nat
  BY Carried DEF TotalError
<1>3. \A a : Reached(a) <=> a * den >= num * t
  BY DEF Reached
<1> HIDE DEF num, den, t
<1>4. \A a, b \in Nat : a <= b => a * den <= b * den
  BY <1>1
<1>5. /\ \A a \in Nat : a * den \in Nat
      /\ num * t \in Nat /\ num * t <= t * den /\ (t # 0 => num * t # 0) /\ 0 * den = 0
  BY <1>1, <1>2
<1>6. \A a, b \in Nat : a <= b /\ a * den >= num * t => b * den >= num * t
  BY <1>4, <1>5
<1>7. t # 0 => ~(0 * den >= num * t)
  BY <1>5
<1>8. t * den >= num * t
  BY <1>2, <1>5
<1> QED
  BY <1>2, <1>3, <1>6, <1>7, <1>8 DEF t

\* Only the indicators and the fraction decide what a set carries and what is enough.
LEMMA SameProblem ==
  ASSUME UNCHANGED <<errors, fraction>>
  PROVE  /\ Indices' = Indices /\ Orders' = Orders /\ (NoError' <=> NoError)
         /\ \A S : Squared(S)' = Squared(S)
         /\ \A a : Reached(a)' <=> Reached(a)
         /\ \A q : Sorted(q)' <=> Sorted(q)
<1>1. errors' = errors /\ fraction' = fraction
  OBVIOUS
<1>2. Indices' = Indices /\ Orders' = Orders
  BY <1>1 DEF Indices, Orders
<1>3. \A S : Squared(S)' = Squared(S)
  BY <1>1 DEF Squared, Indices
<1>4. TotalError' = TotalError
  BY <1>1 DEF TotalError, Squared, Indices
<1>5. NoError' <=> NoError
  BY <1>1, <1>4, Zenon DEF NoError
<1>6. \A a : Reached(a)' <=> Reached(a)
  BY <1>1, <1>4, Zenon DEF Reached
<1>7. \A q : Sorted(q)' <=> Sorted(q)
  BY <1>1, Zenon DEF Sorted
<1> QED
  BY <1>2, <1>3, <1>5, <1>6, <1>7, Zenon

\* The loop starts with nothing marked: no order has been used yet.
LEMMA SortInv ==
  ASSUME MarkingAssumption, DInv, Sort PROVE DInv'
<1>1. /\ errors \in ErrorVectors /\ fraction \in Fractions /\ ~NoError
      /\ marked = <<>> /\ accum = 0 /\ pc' = "marking"
      /\ idx' \in Orders /\ Sorted(idx')
      /\ UNCHANGED <<errors, fraction>> /\ marked' = <<>> /\ accum' = 0
      /\ errors' \in ErrorVectors /\ fraction' \in Fractions
  BY DEF DInv, Sort
<1>2. /\ Indices' = Indices /\ Orders' = Orders /\ (NoError' <=> NoError)
      /\ \A S : Squared(S)' = Squared(S)
      /\ \A a : Reached(a)' <=> Reached(a)
      /\ \A q : Sorted(q)' <=> Sorted(q)
  BY <1>1, SameProblem
<1>3. Len(errors) \in Nat /\ Len(errors) > 0 /\ TotalError # 0
  <2>1. errors \in Seq(Nat) /\ errors # <<>> /\ TotalError # 0
    BY <1>1, Indicators DEF NoError
  <2> QED
    BY <2>1
<1>4. ~Reached(accum)'
  <2>1. ~Reached(0)
    BY <1>1, <1>3, Threshold
  <2> QED
    BY <1>1, <1>2, <2>1
<1>5. Marked' = {} /\ marked' \in Seq(Indices') /\ Len(marked') = 0
  BY <1>1 DEF Marked
<1>6. Squared({}) = 0 /\ Cardinality({}) = 0
  BY <1>1, Carried, FS_EmptySet
<1>7. FirstOfOrder'
  <2>1. idx' \in Orders' /\ Sorted(idx)'
    BY <1>1, <1>2, Zenon
  <2>2. accum' = Squared(Marked)' /\ Cardinality(Marked)' = Len(marked)'
    <3>1. Squared(Marked)' = Squared({})
      BY <1>1, <1>5 DEF Squared, Indices
    <3> QED
      BY <1>1, <1>5, <1>6, <3>1
  <2>3. Len(marked)' <= Len(errors)' /\ \A i \in 1..Len(marked') : marked'[i] = idx'[i]
    BY <1>1, <1>3, <1>5
  <2> QED
    BY <1>5, <2>1, <2>2, <2>3 DEF FirstOfOrder
<1>8. Len(marked)' < Len(errors)' /\ ~NoError'
  BY <1>1, <1>2, <1>3, <1>5
<1> QED
  BY <1>1, <1>4, <1>7, <1>8 DEF DInv

\* s is the first l entries of an order q of 1..N, and not all of them.
StartsOrder(N, q, l, s) ==
  /\ N \in Nat /\ q \in [1..N -> 1..N] /\ \A i, j \in 1..N : q[i] = q[j] => i = j
  /\ l \in Nat /\ l < N
  /\ s \in Seq(1..N) /\ Len(s) = l /\ \A i \in 1..l : s[i] = q[i]

Entries(s) == {s[i] : i \in DOMAIN s}

\* t is one entry of the order longer than s, and that entry is a new one.
OneEntryMore(N, q, l, s, t) ==
  /\ t \in Seq(1..N) /\ Len(t) = l + 1
  /\ \A i \in 1..(l + 1) : t[i] = q[i]
  /\ Entries(s) \in SUBSET (1..N)
  /\ q[l + 1] \in (1..N) \ Entries(s)
  /\ Entries(t) = Entries(s) \cup {q[l + 1]}
  /\ {t[i] : i \in 1..l} = Entries(s)

LEMMA FirstEntries ==
  ASSUME NEW N, NEW q, NEW l, NEW s, StartsOrder(N, q, l, s)
  PROVE  OneEntryMore(N, q, l, s, Append(s, q[l + 1]))
<1> DEFINE e == q[l + 1]
           S == Entries(s)
           t == Append(s, e)
           T == Entries(t)
<1>1. /\ N \in Nat /\ l \in Nat /\ l < N /\ q \in [1..N -> 1..N]
      /\ \A i, j \in 1..N : q[i] = q[j] => i = j
      /\ s \in Seq(1..N) /\ Len(s) = l
      /\ e \in 1..N /\ DOMAIN s = 1..l /\ l + 1 \in Nat
      /\ \A i \in 1..l : s[i] = q[i]
  BY DEF StartsOrder
<1>2. /\ t \in Seq(1..N) /\ Len(t) = l + 1 /\ DOMAIN t = 1..(l + 1)
      /\ \A i \in 1..(l + 1) : t[i] = IF i = l + 1 THEN e ELSE s[i]
  <2> DEFINE R == 1..N
  <2>1. e \in R /\ s \in Seq(R) /\ Len(s) = l
    BY <1>1
  <2> HIDE DEF R, e
  <2>2. t \in Seq(R) /\ Len(t) = l + 1
    BY <2>1
  <2>3. DOMAIN t = 1..(l + 1)
    BY <2>2
  <2>4. \A i \in 1..(l + 1) : t[i] = IF i = l + 1 THEN e ELSE s[i]
    BY <2>1
  <2> QED
    BY <2>2, <2>3, <2>4 DEF R
<1> HIDE DEF t
<1>3. \A i \in 1..(l + 1) : t[i] = q[i]
  <2> TAKE i \in 1..(l + 1)
  <2>1. CASE i = l + 1
    BY <1>2, <2>1
  <2>2. CASE i # l + 1
    <3>1. i \in 1..l
      BY <1>1, <2>2
    <3> QED
      BY <1>1, <1>2, <2>2, <3>1
  <2> QED
    BY <2>1, <2>2
<1>4. \A y : y \in S <=> \E i \in 1..l : y = q[i]
  <2>1. \A y : y \in S <=> \E i \in DOMAIN s : y = s[i]
    BY DEF Entries
  <2>2. DOMAIN s = 1..l /\ \A i \in 1..l : s[i] = q[i]
    BY <1>1
  <2> QED
    BY <2>1, <2>2
<1>5. \A y : y \in T <=> \E i \in 1..(l + 1) : y = q[i]
  <2>1. \A y : y \in T <=> \E i \in DOMAIN t : y = t[i]
    BY DEF Entries
  <2> HIDE DEF T
  <2> QED
    BY <1>2, <1>3, <2>1
<1>6. \A y : y \in {t[i] : i \in 1..l} <=> \E i \in 1..l : y = q[i]
  <2>1. \A i \in 1..l : t[i] = q[i]
    BY <1>1, <1>3
  <2> QED
    BY <2>1
<1> HIDE DEF S, T
<1>7. e \notin S /\ S \in SUBSET (1..N)
  <2>1. \A i \in 1..l : i \in 1..N /\ l + 1 \in 1..N /\ i # l + 1
    BY <1>1
  <2>2. \A i \in 1..l : q[i] \in 1..N /\ q[i] # e
    BY <1>1, <2>1
  <2> HIDE DEF e
  <2> QED
    BY <1>4, <2>2
<1>8. T = S \cup {e}
  <2>1. \A i : i \in 1..(l + 1) <=> i \in 1..l \/ i = l + 1
    BY <1>1
  <2>2. \A y : y \in T <=> y \in S \/ y = e
    BY <1>4, <1>5, <2>1
  <2> HIDE DEF e
  <2> QED
    BY <2>2
<1>9. {t[i] : i \in 1..l} = S
  BY <1>4, <1>6, Zenon
<1> QED
  BY <1>1, <1>2, <1>3, <1>7, <1>8, <1>9 DEF S, T, t, OneEntryMore

\* The next of the order is one that is not marked, and it is marked.
LEMMA MarkNextInv ==
  ASSUME MarkingAssumption, DInv, MarkNext PROVE DInv'
<1> DEFINE N == Len(errors)
           l == Len(marked)
           e == idx[l + 1]
           M == Marked
<1>1. /\ errors \in ErrorVectors /\ fraction \in Fractions
      /\ ~NoError /\ FirstOfOrder /\ l < N /\ ~Reached(accum)
      /\ accum' = accum + errors[e] * errors[e]
      /\ marked' = Append(marked, e)
      /\ pc' = IF Reached(accum') \/ Len(marked') = N THEN "returned" ELSE "marking"
      /\ UNCHANGED <<errors, fraction>> /\ idx' = idx
  BY DEF DInv, MarkNext, Accumulated
<1>2. /\ N \in Nat /\ Indices = 1..N
      /\ idx \in [1..N -> 1..N]
      /\ \A i, j \in 1..N : idx[i] = idx[j] => i = j
      /\ marked \in Seq(1..N) /\ l \in Nat
      /\ \A i \in 1..l : marked[i] = idx[i]
      /\ Cardinality(M) = l /\ accum = Squared(M)
      /\ idx \in Orders /\ Sorted(idx)
  <2>1. N \in Nat /\ Indices = 1..N
    BY <1>1, Indicators
  <2> QED
    BY <1>1, <2>1 DEF FirstOfOrder, Orders
<1>3. /\ M \in SUBSET Indices /\ IsFiniteSet(M) /\ e \in Indices \ M
      /\ marked' \in Seq(1..N) /\ Len(marked') = l + 1
      /\ \A i \in 1..(l + 1) : marked'[i] = idx[i]
      /\ Marked' = M \cup {e}
      /\ {marked'[i] : i \in 1..l} = M
  <2>1. StartsOrder(N, idx, l, marked) /\ marked' = Append(marked, idx[l + 1])
    BY <1>1, <1>2 DEF StartsOrder
  <2>2. /\ marked' \in Seq(1..N) /\ Len(marked') = l + 1
        /\ \A i \in 1..(l + 1) : marked'[i] = idx[i]
        /\ Marked \in SUBSET (1..N)
        /\ idx[l + 1] \in (1..N) \ Marked
        /\ Marked' = Marked \cup {idx[l + 1]}
        /\ {marked'[i] : i \in 1..l} = Marked
    <3>1. Marked = Entries(marked) /\ Marked' = Entries(marked')
      BY DEF Marked, Entries
    <3>2. OneEntryMore(N, idx, l, marked, marked')
      BY <2>1, FirstEntries
    <3> HIDE DEF N, l
    <3> QED
      BY <3>1, <3>2 DEF OneEntryMore
  <2>3. IsFiniteSet(Marked)
    <3>1. IsFiniteSet(1..N)
      BY <1>2, FS_Interval
    <3> QED
      BY <2>2, <3>1, FS_Subset
  <2> QED
    BY <1>2, <2>2, <2>3
<1>4. /\ marked' \in Seq(1..N) /\ Len(marked') = l + 1
      /\ \A i \in 1..(l + 1) : marked'[i] = idx[i]
      /\ Marked' = M \cup {e}
      /\ {marked'[i] : i \in 1..l} = M
  BY <1>3
<1>5. /\ Cardinality(M \cup {e}) = l + 1
      /\ Squared(M \cup {e}) = accum'
  <2> HIDE DEF M, e, l
  <2>1. Cardinality(M \cup {e}) = l + 1
    BY <1>2, <1>3, FS_AddElement
  <2>2. Squared(M \cup {e}) = Squared(M) + errors[e] * errors[e]
    BY <1>1, <1>3, Carried, Zenon
  <2> QED
    BY <1>1, <1>2, <2>1, <2>2, Zenon
<1>6. /\ Indices' = Indices /\ Orders' = Orders /\ (NoError' <=> NoError)
      /\ \A S : Squared(S)' = Squared(S)
      /\ \A a : Reached(a)' <=> Reached(a)
      /\ \A q : Sorted(q)' <=> Sorted(q)
  BY <1>1, SameProblem
<1> HIDE DEF M, e
<1>7. Reached(accum)' <=> Reached(accum')
  BY <1>1 DEF Reached, Clamped, TotalError, Squared, Indices
<1>8. Len(errors)' = N /\ Len(marked)' = l + 1 /\ l + 1 \in Nat /\ l + 1 <= N /\ l + 1 > 0
  BY <1>1, <1>2, <1>4
<1>9. FirstOfOrder'
  <2>1. idx' \in Orders' /\ Sorted(idx)'
    BY <1>1, <1>2, <1>6, Zenon
  <2>2. marked' \in Seq(Indices') /\ Len(marked)' <= Len(errors)'
    BY <1>2, <1>4, <1>6, <1>8
  <2>3. \A i \in 1..Len(marked') : marked'[i] = idx'[i]
    BY <1>1, <1>4
  <2>4. Cardinality(Marked)' = Len(marked)'
    BY <1>4, <1>5
  <2>5. accum' = Squared(Marked)'
    <3>1. Squared(Marked)' = Squared(M \cup {e})
      BY <1>1, <1>4 DEF Squared, Indices
    <3> QED
      BY <1>5, <3>1
  <2> QED
    BY <2>1, <2>2, <2>3, <2>4, <2>5 DEF FirstOfOrder
<1>10. ~Reached(Squared(MarkedBut(Len(marked))))'
  <2>1. MarkedBut(Len(marked))' = M
    <3>1. Len(marked') - 1 = l
      BY <1>2, <1>4
    <3> QED
      BY <1>4, <3>1 DEF MarkedBut
  <2>2. Squared(MarkedBut(Len(marked)))' = Squared(M)
    BY <1>1, <2>1 DEF Squared, Indices
  <2>3. Reached(Squared(MarkedBut(Len(marked))))' <=> Reached(Squared(M))
    BY <1>1, <2>2 DEF Reached, Clamped, TotalError, Squared, Indices
  <2> QED
    BY <1>1, <1>2, <2>3
<1>11. errors' \in ErrorVectors /\ fraction' \in Fractions /\ ~NoError'
  BY <1>1, <1>6
<1>12. CASE Reached(accum') \/ Len(marked') = N
  <2>1. pc' = "returned"
    BY <1>1, <1>12
  <2>2. NotBefore'
    BY <1>7, <1>8, <1>10, <1>12 DEF NotBefore
  <2> QED
    BY <1>9, <1>11, <2>1, <2>2 DEF DInv
<1>13. CASE ~(Reached(accum') \/ Len(marked') = N)
  <2>1. pc' = "marking"
    BY <1>1, <1>13
  <2>2. Len(marked)' < Len(errors)' /\ ~Reached(accum)'
    BY <1>7, <1>8, <1>13
  <2> QED
    BY <1>9, <1>11, <2>1, <2>2 DEF DInv
<1> QED
  BY <1>12, <1>13

\* A step of the marking keeps the invariant.
LEMMA DNextInv ==
  ASSUME MarkingAssumption, DInv, [DNext]_dvars PROVE DInv'
<1>1. CASE NothingToMark
  <2>1. /\ errors \in ErrorVectors /\ fraction \in Fractions /\ NoError
        /\ idx = <<>> /\ marked = <<>> /\ accum = 0 /\ pc' = "returned"
        /\ UNCHANGED <<errors, fraction>> /\ UNCHANGED <<idx, marked, accum>>
    BY <1>1 DEF DInv, NothingToMark
  <2>2. NoError'
    BY <2>1, SameProblem
  <2> QED
    BY <2>1, <2>2 DEF DInv
<1>2. CASE Sort
  BY <1>2, SortInv
<1>3. CASE MarkNext
  BY <1>3, MarkNextInv
<1>4. CASE UNCHANGED dvars
  <2>1. UNCHANGED <<errors, fraction, idx, accum, marked, pc>>
    BY <1>4 DEF dvars
  <2>2. (NoError' <=> NoError) /\ (Reached(accum)' <=> Reached(accum))
    BY <2>1, Zenon DEF NoError, Reached, TotalError, Squared, Indices
  <2>3. FirstOfOrder' <=> FirstOfOrder
    <3>1. /\ Indices' = Indices /\ Orders' = Orders /\ Marked' = Marked
          /\ Squared(Marked)' = Squared(Marked)
          /\ Cardinality(Marked)' = Cardinality(Marked)
      BY <2>1 DEF Indices, Orders, Marked, Squared
    <3>2. Sorted(idx)' <=> Sorted(idx)
      BY <2>1, Zenon DEF Sorted
    <3>3. (idx \in Orders)' <=> (idx \in Orders)
      BY <2>1, <3>1
    <3>4. (marked \in Seq(Indices))' <=> (marked \in Seq(Indices))
      BY <2>1, <3>1
    <3>5. (Len(marked) <= Len(errors))' <=> (Len(marked) <= Len(errors))
      BY <2>1
    <3>6. (\A i \in 1..Len(marked) : marked[i] = idx[i])'
          <=> (\A i \in 1..Len(marked) : marked[i] = idx[i])
      BY <2>1
    <3>7. (Cardinality(Marked) = Len(marked))' <=> (Cardinality(Marked) = Len(marked))
      BY <2>1, <3>1
    <3>8. (accum = Squared(Marked))' <=> (accum = Squared(Marked))
      BY <2>1, <3>1
    <3> QED
      BY <3>2, <3>3, <3>4, <3>5, <3>6, <3>7, <3>8 DEF FirstOfOrder
  <2>4. NotBefore' <=> NotBefore
    BY <2>1, Zenon DEF NotBefore, Reached, TotalError, Squared, Indices, MarkedBut
  <2> QED
    BY <2>1, <2>2, <2>3, <2>4 DEF DInv
<1> QED
  BY <1>1, <1>2, <1>3, <1>4 DEF DNext

\* For every list of indicators and every fraction: the elements marked are the first
\* of the order, and without the last of them the threshold is not reached.
THEOREM MarkingInvariance == DSpec => []DInv
<1> USE MarkingAssumption
<1>1. DInit => DInv
  BY DEF DInit, DInv
<1>2. DInv /\ [DNext]_dvars => DInv'
  BY DNextInv
<1> QED
  BY <1>1, <1>2, PTL DEF DSpec

\* The first of the order are the largest, however many they are.
LEMMA FirstAreLargest ==
  ASSUME MarkingAssumption, errors \in ErrorVectors, idx \in Orders, Sorted(idx),
         NEW k \in 0..Len(errors)
  PROVE  LET F == {idx[i] : i \in 1..k}
         IN  /\ F \in SUBSET Indices
             /\ \A e \in F : \A u \in Indices \ F : errors[u] <= errors[e]
<1> DEFINE N == Len(errors)
           F == {idx[i] : i \in 1..k}
<1>1. N \in Nat /\ Indices = 1..N /\ \A e \in 1..N : errors[e] \in Nat
  BY Indicators
<1>2. /\ idx \in [1..N -> 1..N] /\ DOMAIN idx = 1..N
      /\ \A i, j \in 1..N : idx[i] = idx[j] => i = j
      /\ \A i, j \in 1..N : i < j => errors[idx[i]] >= errors[idx[j]]
  BY <1>1 DEF Orders, Sorted
<1> HIDE DEF N
<1>3. IsFiniteSet(1..N)
  BY <1>1, FS_Interval
<1>4. \A u \in 1..N : \E j \in 1..N : u = idx[j]
  <2>1. idx \in Injection(1..N, 1..N)
    BY <1>2 DEF Injection, IsInjective
  <2>2. idx \in Surjection(1..N, 1..N)
    BY <1>3, <2>1, FS_Injection
  <2> QED
    BY <2>2 DEF Surjection
<1>5. \A i \in 1..k : i \in 1..N
  BY <1>1 DEF N
<1>6. F \in SUBSET Indices
  BY <1>1, <1>2, <1>5
<1>7. ASSUME NEW e \in F, NEW u \in Indices \ F PROVE errors[u] <= errors[e]
  <2>1. PICK i \in 1..k : e = idx[i]
    OBVIOUS
  <2>2. PICK j \in 1..N : u = idx[j]
    BY <1>1, <1>4
  <2>3. ~(j \in 1..k)
    BY <2>2
  <2>4. i < j
    BY <1>1, <2>1, <2>2, <2>3
  <2>5. errors[idx[i]] >= errors[idx[j]] /\ errors[idx[i]] \in Nat /\ errors[idx[j]] \in Nat
    BY <1>1, <1>2, <1>5, <2>1, <2>2, <2>4
  <2> QED
    BY <2>1, <2>2, <2>5
<1> QED
  BY <1>6, <1>7

\* Without an estimated error, every element has none; and the other way round.
LEMMA NoErrorAtAll ==
  ASSUME MarkingAssumption, errors \in ErrorVectors
  PROVE  /\ NoError <=> TotalError = 0
         /\ NoError <=> \A e \in Indices : errors[e] = 0
         /\ Squared({}) = 0
<1>1. errors \in Seq(Nat) /\ \A e \in Indices : errors[e] \in Nat
  BY Indicators
<1>2. (\A e \in Indices : errors[e] = 0) => TotalError = 0
  BY Carried DEF TotalError
<1>3. ASSUME TotalError = 0, NEW e \in Indices PROVE errors[e] = 0
  <2>1. errors[e] * errors[e] <= 0
    BY <1>3, Carried DEF TotalError
  <2>2. \A a \in Nat : a * a <= 0 => a = 0
    BY SMT
  <2> QED
    BY <1>1, <2>1, <2>2, Zenon
<1>4. errors = <<>> => Indices = {}
  BY DEF Indices
<1>5. Squared({}) = 0
  BY Carried
<1> QED
  BY <1>2, <1>3, <1>4, <1>5 DEF NoError

\* The facts of the order and of the marked elements, without the variables' primes.
LEMMA MarkedFacts ==
  ASSUME MarkingAssumption, errors \in ErrorVectors, fraction \in Fractions, FirstOfOrder
  PROVE  /\ Marked = {idx[i] : i \in 1..Len(marked)} /\ Marked \in SUBSET Indices
         /\ Len(marked) \in 0..Len(errors)
         /\ \A e \in Marked : \A u \in Indices \ Marked : errors[u] <= errors[e]
         /\ Len(marked) > 0 =>
              /\ MarkedBut(Len(marked)) \in SUBSET Indices
              /\ Cardinality(MarkedBut(Len(marked))) = Len(marked) - 1
              /\ \A e \in MarkedBut(Len(marked)) : \A u \in Indices \ MarkedBut(Len(marked)) :
                   errors[u] <= errors[e]
         /\ Len(marked) = Len(errors) => Marked = Indices
<1> DEFINE N == Len(errors)
           l == Len(marked)
           B == MarkedBut(l)
<1>1. /\ N \in Nat /\ Indices = 1..N /\ l \in Nat /\ l <= N /\ DOMAIN marked = 1..l
      /\ idx \in Orders /\ Sorted(idx) /\ \A i \in 1..l : marked[i] = idx[i]
      /\ Cardinality(Marked) = l
  BY Indicators DEF FirstOfOrder
<1>2. Marked = {idx[i] : i \in 1..l}
  BY <1>1 DEF Marked
<1>3. l \in 0..N
  BY <1>1
<1>4. /\ Marked \in SUBSET Indices
      /\ \A e \in Marked : \A u \in Indices \ Marked : errors[u] <= errors[e]
  BY <1>1, <1>2, <1>3, FirstAreLargest
<1>5. IsFiniteSet(Indices) /\ Cardinality(Indices) = N
  <2>1. IsFiniteSet(1..N) /\ Cardinality(1..N) = N
    <3>1. N \in Nat
      BY <1>1
    <3> HIDE DEF N
    <3> QED
      BY <3>1, FS_Interval
  <2> QED
    BY <1>1, <2>1
<1>6. l = N => Marked = Indices
  BY <1>1, <1>4, <1>5, FS_Subset
<1>7. ASSUME l > 0
      PROVE  /\ B \in SUBSET Indices /\ Cardinality(B) = l - 1
             /\ \A e \in B : \A u \in Indices \ B : errors[u] <= errors[e]
  <2>1. l - 1 \in 0..N
    BY <1>1, <1>7
  <2>2. B = {idx[i] : i \in 1..(l - 1)}
    <3>1. \A i \in 1..(l - 1) : marked[i] = idx[i]
      BY <1>1
    <3> QED
      BY <3>1 DEF MarkedBut
  <2>3. /\ B \in SUBSET Indices
        /\ \A e \in B : \A u \in Indices \ B : errors[u] <= errors[e]
    <3> HIDE DEF l, B
    <3> QED
      BY <1>1, <2>1, <2>2, FirstAreLargest
  <2>4. Marked = B \cup {idx[l]} /\ idx[l] \notin B
    <3>1. \A i, j \in 1..N : idx[i] = idx[j] => i = j
      BY <1>1 DEF Orders
    <3>2. \A i : i \in 1..l <=> i \in 1..(l - 1) \/ i = l
      BY <1>1, <1>7
    <3>3. \A i \in 1..(l - 1) : i \in 1..N /\ l \in 1..N /\ i # l
      <4>1. N \in Nat /\ l \in Nat /\ l <= N /\ l > 0
        BY <1>1, <1>7
      <4> HIDE DEF N, l
      <4> QED
        BY <4>1
    <3>4. \A i \in 1..(l - 1) : idx[i] # idx[l]
      BY <3>1, <3>3
    <3>5. \A y : y \in Marked <=> \E i \in 1..l : y = idx[i]
      BY <1>2
    <3>6. \A y : y \in B <=> \E i \in 1..(l - 1) : y = idx[i]
      BY <2>2
    <3> HIDE DEF B, l
    <3>7. \A y : y \in Marked <=> y \in B \/ y = idx[l]
      BY <3>2, <3>5, <3>6
    <3>8. idx[l] \notin B
      BY <3>4, <3>6
    <3> QED
      BY <3>7, <3>8
  <2>5. IsFiniteSet(B)
    BY <1>5, <2>3, FS_Subset
  <2>6. Cardinality(B) \in Nat /\ Cardinality(Marked) = Cardinality(B) + 1
    <3> DEFINE y == idx[l]
    <3> HIDE DEF B, y
    <3> QED
      BY <2>4, <2>5, FS_AddElement, FS_CardinalityType DEF y
  <2> QED
    BY <1>1, <2>3, <2>6
<1> QED
  BY <1>2, <1>3, <1>4, <1>6, <1>7

\* When it returns, the marked elements are a least set that is enough.
LEMMA ReturnedIsLeast ==
  ASSUME MarkingAssumption, errors \in ErrorVectors, fraction \in Fractions,
         0 < fraction.num, fraction.num <= fraction.den,
         ~NoError, FirstOfOrder, NotBefore
  PROVE  /\ Enough(Marked)
         /\ \A S \in SUBSET Indices : Enough(S) => Cardinality(S) >= Len(marked)
<1> DEFINE l == Len(marked)
           B == MarkedBut(l)
<1>1. /\ l \in Nat /\ l <= Len(errors) /\ l > 0
      /\ ~Reached(Squared(B)) /\ (Reached(accum) \/ l = Len(errors))
      /\ accum = Squared(Marked)
  BY MarkedFacts, Indicators DEF NotBefore, FirstOfOrder
<1>2. /\ Marked \in SUBSET Indices /\ B \in SUBSET Indices /\ Cardinality(B) = l - 1
      /\ \A e \in B : \A u \in Indices \ B : errors[u] <= errors[e]
      /\ l = Len(errors) => Marked = Indices
  BY <1>1, MarkedFacts
<1>3. \A S : Enough(S) <=> Reached(Squared(S))
  <2>1. Clamped(fraction) = fraction
    BY ClampedFraction
  <2> QED
    BY <2>1, Zenon DEF Enough, Reached
<1>4. Reached(Squared(Marked))
  <2>1. CASE Reached(accum)
    BY <1>1, <2>1
  <2>2. CASE l = Len(errors)
    BY <1>2, <2>2, Threshold DEF TotalError
  <2> QED
    BY <1>1, <2>1, <2>2
<1>5. ASSUME NEW S \in SUBSET Indices, Enough(S) PROVE Cardinality(S) >= l
  <2>1. IsFiniteSet(Indices)
    BY Indicators, FS_Interval
  <2>2. Cardinality(S) \in Nat
    BY <2>1, FS_Subset, FS_CardinalityType
  <2> SUFFICES ASSUME Cardinality(S) <= l - 1 PROVE FALSE
    BY <1>1, <2>2
  <2> HIDE DEF B, l
  <2>3. Squared(S) <= Squared(B)
    BY <1>2, Carried
  <2>4. Squared(S) \in Nat /\ Squared(B) \in Nat /\ Reached(Squared(S))
    BY <1>2, <1>3, <1>5, Carried
  <2>5. Reached(Squared(B))
    BY <2>3, <2>4, Threshold
  <2> QED
    BY <1>1, <2>5
<1> QED
  BY <1>3, <1>4, <1>5

\* What the invariant says of the marked elements.
LEMMA MarksFromInvariant ==
  ASSUME MarkingAssumption, DInv PROVE MarksLeastSet
<1> DEFINE Empty == marked = <<>> /\ idx = <<>> /\ accum = 0
<1>1. /\ errors \in ErrorVectors /\ fraction \in Fractions
      /\ pc \in {"called", "marking", "returned"}
      /\ Empty \/ FirstOfOrder
      /\ pc = "returned" => (NoError /\ Empty) \/ (~NoError /\ FirstOfOrder /\ NotBefore)
  BY DEF DInv
<1>2. Empty => Marked = {} /\ Len(marked) = 0 /\ Cardinality(Marked) = 0 /\ Squared(Marked) = 0
  <2>1. marked = <<>> => Marked = {} /\ Len(marked) = 0
    BY DEF Marked
  <2>2. Squared({}) = 0 /\ Cardinality({}) = 0
    BY <1>1, NoErrorAtAll, FS_EmptySet
  <2> QED
    BY <2>1, <2>2
<1>3. DTypeOK
  <2>1. CASE Empty
    <3>1. marked \in Seq(Indices)
      BY <2>1
    <3> QED
      BY <1>1, <1>2, <2>1, <3>1 DEF DTypeOK
  <2>2. CASE FirstOfOrder
    BY <1>1, <2>2 DEF DTypeOK, FirstOfOrder
  <2> QED
    BY <1>1, <2>1, <2>2
<1>4. LargestFirst
  <2>1. CASE Empty
    BY <1>2, <2>1 DEF LargestFirst
  <2>2. CASE FirstOfOrder
    <3>1. \A e \in Marked : \A u \in Indices \ Marked :
            errors[u] <= errors[e] /\ errors[u] \in Nat /\ errors[e] \in Nat
      BY <1>1, <2>2, MarkedFacts, Indicators
    <3> QED
      BY <3>1 DEF LargestFirst
  <2> QED
    BY <1>1, <2>1, <2>2
<1>5. SmallestSet
  <2> SUFFICES ASSUME pc = "returned", 0 < fraction.num, fraction.num <= fraction.den
               PROVE  /\ Enough(Marked)
                      /\ \A S \in SUBSET Indices : Enough(S) => Cardinality(S) >= Len(marked)
    BY DEF SmallestSet
  <2>1. CASE NoError /\ Empty
    <3>1. TotalError = 0 /\ Squared(Marked) = 0 /\ Len(marked) = 0
      BY <1>1, <1>2, <2>1, NoErrorAtAll
    <3>2. fraction.num \in Int /\ fraction.den \in Nat
      BY <1>1 DEF MarkingAssumption
    <3>3. Enough(Marked)
      BY <3>1, <3>2 DEF Enough
    <3>4. IsFiniteSet(Indices)
      BY <1>1, Indicators, FS_Interval
    <3>5. \A S \in SUBSET Indices : Cardinality(S) \in Nat
      BY <3>4, FS_Subset, FS_CardinalityType
    <3> QED
      BY <3>1, <3>3, <3>5
  <2>2. CASE ~NoError /\ FirstOfOrder /\ NotBefore
    BY <1>1, <2>2, ReturnedIsLeast
  <2> QED
    BY <1>1, <2>1, <2>2
<1>6. EmptyOnlyIfSolved
  <2> SUFFICES ASSUME pc = "returned" PROVE marked = <<>> <=> NoError
    BY <1>1, NoErrorAtAll DEF EmptyOnlyIfSolved
  <2>1. CASE NoError /\ Empty
    BY <2>1
  <2>2. CASE ~NoError /\ FirstOfOrder /\ NotBefore
    BY <2>2 DEF NotBefore
  <2> QED
    BY <1>1, <2>1, <2>2
<1> QED
  BY <1>3, <1>4, <1>5, <1>6 DEF MarksLeastSet

\* The elements that an adaptive pass refines carry the configured fraction of the
\* error, no smaller set does, the worst are among them, and there are none only if
\* there is no error to reduce.
THEOREM LeastSetMarked == DSpec => []MarksLeastSet
<1> USE MarkingAssumption
<1>1. DInv => MarksLeastSet
  BY MarksFromInvariant
<1> QED
  BY <1>1, MarkingInvariance, PTL

-----------------------------------------------------------------------------
(* PackedSystem: the packed matrix and the matrix-free operator, for every size and   *)
(* every number of ports.                                                   *)

\* g is zero everywhere but at q, and c there.
OneTerm(g, d, q, c) == \A j \in 0 .. d - 1 : g[j] = IF j = q THEN c ELSE 0

\* A sum with at most one term that is not zero.
LEMMA SumOfOne ==
  ASSUME NEW d \in Nat, NEW q \in Int, NEW c \in Int, NEW g, OneTerm(g, d, q, c)
  PROVE  Sum(d, g) = IF q \in 0 .. d - 1 THEN c ELSE 0
<1> DEFINE D == [j \in Nat |-> [y \in Int |-> IF j < d THEN y + g[j] ELSE y]]
           P(f) == [j \in 0 .. d |-> IF j = 0 THEN 0 ELSE f[j - 1] + g[j - 1]]
           s == CHOOSE f : f = P(f)
           S == {j \in Nat : j <= d => s[j] = IF q \in 0 .. j - 1 THEN c ELSE 0}
<1>1. \A j \in 0 .. d - 1 : g[j] = IF j = q THEN c ELSE 0
  BY DEF OneTerm
<1>2. PICK f \in [Nat -> Int] : RunsOn(f, 0, D)
  <2>1. \A j \in Nat : \A y \in Int : (IF j < d THEN y + g[j] ELSE y) \in Int
    BY <1>1
  <2>2. D \in [Nat -> [Int -> Int]] /\ 0 \in Int
    BY <2>1
  <2> HIDE DEF D
  <2> QED
    BY <2>2, Recursion
<1>3. f[0] = 0 /\ \A j \in Nat : f[j + 1] = IF j < d THEN f[j] + g[j] ELSE f[j]
  BY <1>2 DEF RunsOn
<1> DEFINE h == [j \in 0 .. d |-> f[j]]
<1>4. h = P(h)
  <2>1. ASSUME NEW j \in 0 .. d PROVE h[j] = IF j = 0 THEN 0 ELSE h[j - 1] + g[j - 1]
    <3>1. CASE j = 0
      BY <1>3, <3>1
    <3>2. CASE j # 0
      <4>1. j - 1 \in Nat /\ j - 1 < d /\ (j - 1) + 1 = j /\ j - 1 \in 0 .. d
        BY <3>2
      <4>2. f[j] = f[j - 1] + g[j - 1]
        BY <1>3, <4>1
      <4> QED
        BY <3>2, <4>1, <4>2
    <3> QED
      BY <3>1, <3>2
  <2> QED
    BY <2>1
<1>5. s = P(s)
  BY <1>4
<1>6. Sum(d, g) = s[d]
  BY DEF Sum
<1> HIDE DEF s
<1>7. \A j \in 0 .. d : s[j] = IF j = 0 THEN 0 ELSE s[j - 1] + g[j - 1]
  BY <1>5
<1>8. 0 \in S
  BY <1>7
<1>9. ASSUME NEW j \in Nat, j \in S PROVE j + 1 \in S
  <2> SUFFICES ASSUME j + 1 <= d PROVE s[j + 1] = IF q \in 0 .. j THEN c ELSE 0
    OBVIOUS
  <2>1. j + 1 \in 0 .. d /\ j + 1 # 0 /\ (j + 1) - 1 = j /\ j \in 0 .. d - 1
    OBVIOUS
  <2>2. s[j + 1] = s[j] + g[j]
    BY <1>7, <2>1
  <2>3. s[j] = IF q \in 0 .. j - 1 THEN c ELSE 0
    BY <1>9
  <2>4. g[j] = IF j = q THEN c ELSE 0
    BY <1>1, <2>1
  <2> QED
    BY <2>2, <2>3, <2>4
<1> HIDE DEF S
<1>10. d \in S
  BY <1>8, <1>9, Induction
<1> QED
  BY <1>6, <1>10 DEF S

\* A vector of one half with a one at q and zeros elsewhere; the zero vector if there
\* is no row q.
Unit(v, q) == \A j \in 0 .. HalfSize - 1 : v[j] = IF j = q THEN 1 ELSE 0

\* What the sizes and the entries are.
Sized ==
  /\ n \in Nat /\ p \in Nat
  /\ \A i, j \in 0 .. n - 1 : problem.K[i][j] \in Int /\ problem.M[i][j] \in Int
  /\ \A i \in 0 .. n - 1 : \A k \in 0 .. p - 1 : C(i, k) \in Int
  /\ \A k \in 0 .. p - 1 : G(k) \in Residues

LEMMA Sizes == ASSUME NumberAssumption, ProblemAssumption, problem \in Problems PROVE Sized
<1>1. n \in Nat /\ p \in Nat /\ p = Len(problem.conductances)
  BY DEF ProblemAssumption, n, p
<1>2. \A i, j \in 0 .. n - 1 : problem.K[i][j] \in Int /\ problem.M[i][j] \in Int
  <2>1. \A i, j \in Dofs(problem) : problem.K[i][j] \in Residues /\ problem.M[i][j] \in Residues
    BY DEF ProblemAssumption
  <2>2. Residues \subseteq Int
    BY DEF NumberAssumption, Residues
  <2> QED
    BY <2>1, <2>2 DEF Dofs, n
<1>3. \A i \in 0 .. n - 1 : \A k \in 0 .. p - 1 : C(i, k) \in Int
  <2>1. problem.ports \in Seq(Column(problem))
    BY DEF ProblemAssumption
  <2>2. \A k \in 0 .. p - 1 : problem.ports[k + 1] \in Column(problem)
    <3> DEFINE R == Column(problem)
               list == problem.ports
    <3>1. list \in Seq(R) /\ p = Len(list)
      BY <2>1 DEF p
    <3> HIDE DEF R, list
    <3>2. \A k \in 0 .. p - 1 : list[k + 1] \in R
      BY <1>1, <3>1
    <3> QED
      BY <3>2 DEF R, list
  <2>3. Residues \subseteq Int
    BY DEF NumberAssumption, Residues
  <2> QED
    BY <2>2, <2>3 DEF Column, Dofs, n, C
<1>4. \A k \in 0 .. p - 1 : G(k) \in Residues
  <2> DEFINE R == Residues \ {0}
             list == problem.conductances
  <2>1. list \in Seq(R) /\ p = Len(list)
    BY <1>1 DEF ProblemAssumption
  <2> HIDE DEF R, list
  <2>2. \A k \in 0 .. p - 1 : list[k + 1] \in R
    BY <1>1, <2>1
  <2> QED
    BY <2>2 DEF R, list, G
<1> QED
  BY <1>1, <1>2, <1>3, <1>4 DEF Sized

\* A row of the curl-curl matrix.
LEMMA CurlRow ==
  ASSUME Sized, NEW v, NEW q \in Int, Unit(v, q), NEW i \in 0 .. n - 1
  PROVE  Sum(n, [j \in 0 .. n - 1 |-> problem.K[i][j] * v[j]]) = IF q \in 0 .. n - 1 THEN problem.K[i][q] ELSE 0
<1> DEFINE g == [j \in 0 .. n - 1 |-> problem.K[i][j] * v[j]]
           c == IF q \in 0 .. n - 1 THEN problem.K[i][q] ELSE 0
<1>1. n \in Nat /\ p \in Nat /\ q \in Int /\ c \in Int
  BY DEF Sized
<1>2. ASSUME NEW j \in 0 .. n - 1 PROVE g[j] = IF j = q THEN c ELSE 0
  <2>1. v[j] = IF j = q THEN 1 ELSE 0
    BY <1>1 DEF Unit, HalfSize
  <2>2. problem.K[i][j] * 1 = problem.K[i][j] /\ problem.K[i][j] * 0 = 0
    BY DEF Sized
  <2> QED
    BY <2>1, <2>2
<1>3. OneTerm(g, n, q, c)
  BY <1>2 DEF OneTerm
<1> HIDE DEF g
<1>4. Sum(n, g) = IF q \in 0 .. n - 1 THEN c ELSE 0
  <2> HIDE DEF c
  <2> QED
    BY <1>1, <1>3, SumOfOne
<1> QED
  BY <1>4 DEF g

\* A row of the conductivity mass matrix.
LEMMA MassRow ==
  ASSUME Sized, NEW v, NEW q \in Int, Unit(v, q), NEW i \in 0 .. n - 1
  PROVE  Sum(n, [j \in 0 .. n - 1 |-> problem.M[i][j] * v[j]]) = IF q \in 0 .. n - 1 THEN problem.M[i][q] ELSE 0
<1> DEFINE g == [j \in 0 .. n - 1 |-> problem.M[i][j] * v[j]]
           c == IF q \in 0 .. n - 1 THEN problem.M[i][q] ELSE 0
<1>1. n \in Nat /\ p \in Nat /\ q \in Int /\ c \in Int
  BY DEF Sized
<1>2. ASSUME NEW j \in 0 .. n - 1 PROVE g[j] = IF j = q THEN c ELSE 0
  <2>1. v[j] = IF j = q THEN 1 ELSE 0
    BY <1>1 DEF Unit, HalfSize
  <2>2. problem.M[i][j] * 1 = problem.M[i][j] /\ problem.M[i][j] * 0 = 0
    BY DEF Sized
  <2> QED
    BY <2>1, <2>2
<1>3. OneTerm(g, n, q, c)
  BY <1>2 DEF OneTerm
<1> HIDE DEF g
<1>4. Sum(n, g) = IF q \in 0 .. n - 1 THEN c ELSE 0
  <2> HIDE DEF c
  <2> QED
    BY <1>1, <1>3, SumOfOne
<1> QED
  BY <1>4 DEF g

\* What the ports add to a row of the field.
LEMMA PortRow ==
  ASSUME Sized, NEW v, NEW q \in Int, Unit(v, q), NEW i \in 0 .. n - 1
  PROVE  Sum(p, [k \in 0 .. p - 1 |-> C(i, k) * v[n + k]]) = IF q - n \in 0 .. p - 1 THEN C(i, q - n) ELSE 0
<1> DEFINE g == [k \in 0 .. p - 1 |-> C(i, k) * v[n + k]]
           c == IF q - n \in 0 .. p - 1 THEN C(i, q - n) ELSE 0
<1>1. n \in Nat /\ p \in Nat /\ q - n \in Int /\ c \in Int
  BY DEF Sized
<1>2. ASSUME NEW k \in 0 .. p - 1 PROVE g[k] = IF k = q - n THEN c ELSE 0
  <2>1. v[n + k] = IF k = q - n THEN 1 ELSE 0
    BY <1>1 DEF Unit, HalfSize
  <2>2. C(i, k) * 1 = C(i, k) /\ C(i, k) * 0 = 0
    BY DEF Sized
  <2> QED
    BY <2>1, <2>2
<1>3. OneTerm(g, p, q - n, c)
  BY <1>2 DEF OneTerm
<1> HIDE DEF g
<1>4. Sum(p, g) = IF q - n \in 0 .. p - 1 THEN c ELSE 0
  <2> HIDE DEF c
  <2> QED
    BY <1>1, <1>3, SumOfOne
<1> QED
  BY <1>4 DEF g

\* A port's row: its column of the border.
LEMMA PortColumn ==
  ASSUME Sized, NEW v, NEW q \in Int, Unit(v, q), NEW i \in 0 .. p - 1
  PROVE  Sum(n, [j \in 0 .. n - 1 |-> C(j, i) * v[j]]) = IF q \in 0 .. n - 1 THEN C(q, i) ELSE 0
<1> DEFINE g == [j \in 0 .. n - 1 |-> C(j, i) * v[j]]
           c == IF q \in 0 .. n - 1 THEN C(q, i) ELSE 0
<1>1. n \in Nat /\ p \in Nat /\ q \in Int /\ c \in Int
  BY DEF Sized
<1>2. ASSUME NEW j \in 0 .. n - 1 PROVE g[j] = IF j = q THEN c ELSE 0
  <2>1. v[j] = IF j = q THEN 1 ELSE 0
    BY <1>1 DEF Unit, HalfSize
  <2>2. C(j, i) * 1 = C(j, i) /\ C(j, i) * 0 = 0
    BY DEF Sized
  <2> QED
    BY <2>1, <2>2
<1>3. OneTerm(g, n, q, c)
  BY <1>2 DEF OneTerm
<1> HIDE DEF g
<1>4. Sum(n, g) = IF q \in 0 .. n - 1 THEN c ELSE 0
  <2> HIDE DEF c
  <2> QED
    BY <1>1, <1>3, SumOfOne
<1> QED
  BY <1>4 DEF g

\* A residue is a number without an imaginary part.
LEMMA Parts ==
  ASSUME NumberAssumption
  PROVE  /\ Prime \in Nat \ {0}
         /\ \A w \in Residues : w \in Nat /\ w < Prime /\ w \in Numbers /\ Re(w) = w /\ Im(w) = 0
         /\ \A q \in Numbers : /\ q \in Nat /\ Re(q) \in Residues /\ Im(q) \in Residues
                               /\ q = Prime * Im(q) + Re(q)
<1>1. Prime \in Nat \ {0} /\ Prime * Prime \in Nat /\ Prime <= Prime * Prime
  BY SMT DEF NumberAssumption
<1>2. ASSUME NEW w \in Residues
      PROVE  w \in Nat /\ w < Prime /\ w \in Numbers /\ Re(w) = w /\ Im(w) = 0
  <2>1. w \in Nat /\ w < Prime /\ w \in 0..(Prime - 1) /\ w \in Numbers
    BY <1>1 DEF Residues, Numbers
  <2>2. \A q \in Nat, r \in 0..(Prime - 1) :
          w = Prime * q + r => q = w \div Prime /\ r = w % Prime
    BY <1>1, <2>1, Division
  <2>3. w = Prime * 0 + w
    BY <1>1, <2>1
  <2> QED
    BY <2>1, <2>2, <2>3 DEF Re, Im
<1>3. ASSUME NEW q \in Numbers
      PROVE  q \in Nat /\ Re(q) \in Residues /\ Im(q) \in Residues /\ q = Prime * Im(q) + Re(q)
  <2>1. q \in Nat /\ q < Prime * Prime
    BY <1>1 DEF Numbers
  <2>2. q \div Prime \in Nat /\ q % Prime \in 0..(Prime - 1)
        /\ q = Prime * (q \div Prime) + (q % Prime)
    BY <1>1, <2>1, Division
  <2>3. (q \div Prime) + 1 \in 1..Prime
    BY <1>1, <2>1, Quotients
  <2> QED
    BY <1>1, <2>1, <2>2, <2>3 DEF Re, Im, Residues
<1> QED
  BY <1>1, <1>2, <1>3

\* The quotient of two residues is a residue, and that of zero is zero.
LEMMA ResidueQuotient ==
  ASSUME NumberAssumption, NEW g \in Residues, NEW w \in Residues \ {0}
  PROVE  Quotient(g, w) \in Residues /\ (g = 0 => Quotient(g, w) = 0)
<1>1. PICK c \in Residues : \A d \in Residues : (d * w) % Prime = g <=> d = c
  BY DEF NumberAssumption
<1>2. PICK z \in Residues : \A d \in Residues : (d * w) % Prime = 0 <=> d = z
  <2>1. 0 \in Residues
    BY DEF NumberAssumption, Residues
  <2> QED
    BY <2>1 DEF NumberAssumption
<1>3. /\ Prime \in Nat \ {0} /\ g \in Nat /\ g < Prime /\ w \in Nat /\ c \in Nat
      /\ Re(w) = w /\ Im(w) = 0 /\ Re(c) = c /\ Im(c) = 0 /\ c \in Numbers
      /\ 0 \in Residues
  <2>1. 0 \in Residues
    BY DEF NumberAssumption, Residues
  <2> QED
    BY <2>1, Parts
<1>4. z = 0
  <2>1. (0 * w) % Prime = 0
    BY <1>3
  <2> QED
    BY <1>2, <1>3, <2>1
<1>5. \A q \in Numbers : /\ Re(q) \in Residues /\ Im(q) \in Residues
                         /\ q = Prime * Im(q) + Re(q)
  BY Parts
<1>6. \A q \in Numbers : Times(q, w) = ((Re(q) * w) % Prime) + Prime * ((Im(q) * w) % Prime)
  <2> TAKE q \in Numbers
  <2> DEFINE a == Re(q)
             b == Im(q)
  <2>1. a \in Nat /\ b \in Nat
    BY <1>5 DEF Residues
  <2>2. Times(q, w) = Complex(a * w - b * 0, a * 0 + b * w)
    BY <1>3 DEF Times
  <2> HIDE DEF a, b
  <2>3. a * w - b * 0 = a * w /\ a * 0 + b * w = b * w
    BY <1>3, <2>1
  <2>4. Times(q, w) = ((a * w) % Prime) + Prime * ((b * w) % Prime)
    BY <2>2, <2>3 DEF Complex
  <2> QED
    BY <2>4 DEF a, b
<1>7. \A y \in Nat : y % Prime \in 0..(Prime - 1)
  BY <1>3, Division
<1>8. \A d \in Residues : d * w \in Nat /\ (d * w) % Prime \in 0..(Prime - 1)
  <2> TAKE d \in Residues
  <2>1. d \in Nat
    BY DEF Residues
  <2>2. d * w \in Nat
    BY <1>3, <2>1
  <2> QED
    BY <1>7, <2>2
<1>9. ASSUME NEW q \in Numbers, Times(q, w) = g PROVE q = c
  <2> DEFINE a == (Re(q) * w) % Prime
             b == (Im(q) * w) % Prime
  <2>1. a \in 0..(Prime - 1) /\ b \in 0..(Prime - 1) /\ a + Prime * b = g
    BY <1>5, <1>6, <1>8, <1>9
  <2> HIDE DEF a, b
  <2>2. b = 0
    <3>1. \A u \in Nat : u >= 1 => Prime * u >= Prime
      BY <1>3
    <3>2. a \in Nat /\ b \in Nat /\ (b >= 1 => Prime * b >= Prime)
      BY <1>3, <2>1, <3>1
    <3> DEFINE t == Prime * b
    <3>3. t \in Nat /\ a + t = g /\ (b >= 1 => t >= Prime)
      BY <1>3, <2>1, <3>2
    <3> HIDE DEF t
    <3>4. ~(t >= Prime)
      BY <1>3, <3>2, <3>3
    <3>5. ~(b >= 1)
      BY <3>3, <3>4, Zenon
    <3> QED
      BY <3>2, <3>5
  <2>3. a = g
    BY <1>3, <2>1, <2>2
  <2>4. Re(q) = c
    BY <1>1, <1>5, <2>3 DEF a
  <2>5. Im(q) = 0
    BY <1>2, <1>4, <1>5, <2>2 DEF b
  <2> QED
    BY <1>3, <1>5, <2>4, <2>5
<1>10. Times(c, w) = g
  <2>1. Times(c, w) = ((c * w) % Prime) + Prime * ((0 * w) % Prime)
    BY <1>3, <1>6
  <2>2. (c * w) % Prime = g /\ (0 * w) % Prime = 0
    BY <1>1, <1>2, <1>3, <1>4
  <2> DEFINE a == (c * w) % Prime
             b == (0 * w) % Prime
  <2>3. Times(c, w) = a + Prime * b /\ a = g /\ b = 0
    BY <2>1, <2>2
  <2> HIDE DEF a, b
  <2> QED
    BY <1>3, <2>3
<1>11. Quotient(g, w) = c
  BY <1>3, <1>9, <1>10 DEF Quotient
<1>12. g = 0 => c = 0
  BY <1>1, <1>2, <1>3, <1>4
<1> QED
  BY <1>11, <1>12

\* The matrix-free halves of the operator have the columns of the assembled ones.
LEMMA HalfColumns ==
  ASSUME Sized, NumberAssumption, omega.scale = omega.active, omega.corner = omega.active,
         omega.active \in Frequencies,
         NEW v, NEW q \in Int, Unit(v, q), NEW i \in 0 .. HalfSize - 1
  PROVE  /\ \A j \in 0 .. HalfSize - 1 : RealHalf(i, j) \in Int /\ ImagHalf(i, j) \in Int
         /\ RealMult(v, i) = IF q \in 0 .. HalfSize - 1 THEN RealHalf(i, q) ELSE 0
         /\ ImagMult(v, i) = IF q \in 0 .. HalfSize - 1 THEN ImagHalf(i, q) ELSE 0
<1>1. /\ n \in Nat /\ p \in Nat /\ HalfSize = n + p
      /\ \A a, b \in 0 .. n - 1 : problem.K[a][b] \in Int /\ problem.M[a][b] \in Int
      /\ \A a \in 0 .. n - 1 : \A k \in 0 .. p - 1 : C(a, k) \in Int
      /\ \A k \in 0 .. p - 1 : G(k) \in Residues
  BY DEF Sized, HalfSize
<1>2. omega.active \in Residues \ {0} /\ omega.active \in Int
  <2>1. omega.active \in Residues \ {0}
    BY DEF NumberAssumption
  <2> QED
    BY <2>1, Parts
<1>3. \A k \in 0 .. p - 1 : /\ Quotient(G(k), omega.active) \in Int
                            /\ (G(k) * 1) % Prime = G(k) /\ (G(k) * 0) % Prime = 0
  <2> TAKE k \in 0 .. p - 1
  <2>1. Quotient(G(k), omega.active) \in Residues
    BY <1>1, <1>2, ResidueQuotient
  <2>2. G(k) \in Nat /\ Re(G(k)) = G(k) /\ Prime \in Nat \ {0}
    BY <1>1, Parts
  <2> QED
    BY <2>1, <2>2 DEF Residues, Re
<1>4. Quotient(0, omega.active) = 0
  <2>1. 0 \in Residues
    BY DEF NumberAssumption, Residues
  <2> QED
    BY <1>2, <2>1, ResidueQuotient
<1>5. CASE i < n
  <2>1. i \in 0 .. n - 1
    BY <1>1, <1>5
  <2>2. RealMult(v, i) = (IF q \in 0 .. n - 1 THEN problem.K[i][q] ELSE 0)
                           - (IF q - n \in 0 .. p - 1 THEN C(i, q - n) ELSE 0)
    BY <1>5, <2>1, CurlRow, PortRow DEF RealMult
  <2>3. ImagMult(v, i) = omega.active * (IF q \in 0 .. n - 1 THEN problem.M[i][q] ELSE 0)
    BY <1>5, <2>1, MassRow DEF ImagMult
  <2>4. \A j \in 0 .. HalfSize - 1 :
          /\ RealHalf(i, j) = IF j < n THEN problem.K[i][j] ELSE -C(i, j - n)
          /\ ImagHalf(i, j) = IF j < n THEN omega.active * problem.M[i][j] ELSE 0
    BY <1>1, <1>5 DEF RealHalf, ImagHalf
  <2>5. \A j \in 0 .. HalfSize - 1 : (j < n => j \in 0 .. n - 1) /\ (~(j < n) => j - n \in 0 .. p - 1)
    BY <1>1
  <2>6. \A j \in 0 .. HalfSize - 1 : RealHalf(i, j) \in Int /\ ImagHalf(i, j) \in Int
    <3> TAKE j \in 0 .. HalfSize - 1
    <3>1. CASE j < n
      <4>1. problem.K[i][j] \in Int /\ problem.M[i][j] \in Int
        BY <1>1, <2>1, <2>5, <3>1
      <4>2. omega.active * problem.M[i][j] \in Int
        BY <1>2, <4>1
      <4> QED
        BY <2>4, <3>1, <4>1, <4>2
    <3>2. CASE ~(j < n)
      <4>1. C(i, j - n) \in Int
        BY <1>1, <2>1, <2>5, <3>2
      <4> QED
        BY <2>4, <3>2, <4>1
    <3> QED
      BY <3>1, <3>2
  <2> QED
    BY <1>1, <1>2, <2>1, <2>2, <2>3, <2>4, <2>5, <2>6
<1>6. CASE ~(i < n)
  <2>1. i - n \in 0 .. p - 1 /\ i \in Int
    BY <1>1, <1>6
  <2>2. RealMult(v, i) = -(IF q \in 0 .. n - 1 THEN C(q, i - n) ELSE 0)
    BY <1>6, <2>1, PortColumn DEF RealMult
  <2>3. v[i] = IF i = q THEN 1 ELSE 0
    BY DEF Unit
  <2>4. ImagMult(v, i) = -(IF i = q THEN Quotient(G(i - n), omega.active) ELSE 0)
    BY <1>3, <1>4, <1>6, <2>1, <2>3 DEF ImagMult
  <2>5. \A j \in 0 .. HalfSize - 1 :
          /\ RealHalf(i, j) = IF j < n THEN -C(j, i - n) ELSE 0
          /\ ImagHalf(i, j) = IF i = j THEN -Quotient(G(i - n), omega.active) ELSE 0
    BY <1>1, <1>6 DEF RealHalf, ImagHalf
  <2>6. \A j \in 0 .. HalfSize - 1 : RealHalf(i, j) \in Int /\ ImagHalf(i, j) \in Int
    BY <1>1, <1>3, <2>1, <2>5
  <2> QED
    BY <1>1, <1>3, <2>1, <2>2, <2>4, <2>5, <2>6
<1> QED
  BY <1>5, <1>6

\* The row of a packed row in its half.
LEMMA HalfIndex ==
  ASSUME NEW H \in Nat, NEW r \in 0 .. 2 * H - 1
  PROVE  /\ r % H = IF r < H THEN r ELSE r - H
         /\ r % H \in 0 .. H - 1
<1>1. H \in Nat \ {0} /\ r \in Nat
  OBVIOUS
<1>2. \A q \in Nat, s \in 0..(H - 1) : r = H * q + s => q = r \div H /\ s = r % H
  BY <1>1, Division
<1>3. CASE r < H
  <2>1. r = H * 0 + r /\ r \in 0..(H - 1)
    BY <1>1, <1>3
  <2> QED
    BY <1>2, <1>3, <2>1
<1>4. CASE ~(r < H)
  <2>1. r = H * 1 + (r - H) /\ r - H \in 0..(H - 1)
    BY <1>1, <1>4
  <2> QED
    BY <1>2, <1>4, <2>1
<1> QED
  BY <1>3, <1>4

\* The entries of the packed matrix.
LEMMA PackedEntries ==
  ASSUME Sized, NumberAssumption,
         \A i, j \in 0 .. HalfSize - 1 : RealHalf(i, j) \in Int /\ ImagHalf(i, j) \in Int,
         NEW r \in 0 .. FullSize - 1, NEW c \in 0 .. FullSize - 1
  PROVE  AssemblePackedMatrix[r][c]
           = (IF r < HalfSize
              THEN IF c < HalfSize THEN RealHalf(r, c) ELSE -ImagHalf(r, c - HalfSize)
              ELSE IF c < HalfSize THEN ImagHalf(r - HalfSize, c)
                   ELSE RealHalf(r - HalfSize, c - HalfSize)) % Prime
<1> DEFINE H == HalfSize
           F == FullSize
           e(a, b) ==
             LET i == a % HalfSize
                 j == b % HalfSize
             IN (CASE (a < HalfSize) = (b < HalfSize) -> RealHalf(i, j)
                   [] a < HalfSize /\ b >= HalfSize -> -ImagHalf(i, j)
                   [] a >= HalfSize /\ b < HalfSize -> ImagHalf(i, j)) % Prime
           v(a) == [b \in 0 .. F - 1 |-> e(a, b)]
           row(a) == CHOOSE w \in {v(a)} : w \in [0 .. F - 1 -> Numbers]
           M == [a \in 0 .. F - 1 |-> row(a)]
<1>1. AssemblePackedMatrix
        = CHOOSE A \in {M} : A \in [0 .. F - 1 -> [0 .. F - 1 -> Numbers]]
  BY DEF AssemblePackedMatrix, Matrix, Vector
<1>2. H \in Nat /\ F = 2 * H
  BY DEF Sized, HalfSize, FullSize
<1>3. ASSUME NEW a \in 0 .. F - 1, NEW b \in 0 .. F - 1
      PROVE  /\ e(a, b) \in Numbers
             /\ e(a, b) = (IF a < H THEN IF b < H THEN RealHalf(a, b) ELSE -ImagHalf(a, b - H)
                           ELSE IF b < H THEN ImagHalf(a - H, b) ELSE RealHalf(a - H, b - H)) % Prime
  <2>1. /\ a % H = IF a < H THEN a ELSE a - H
        /\ b % H = IF b < H THEN b ELSE b - H
        /\ a % H \in 0 .. H - 1 /\ b % H \in 0 .. H - 1
    BY <1>2, HalfIndex
  <2>2. \A y \in Int : y % Prime \in Numbers
    <3>1. Prime \in Nat \ {0} /\ Prime <= Prime * Prime
      BY SMT DEF NumberAssumption
    <3>2. \A y \in Int : y % Prime \in 0 .. (Prime - 1)
      BY <3>1
    <3> QED
      BY <3>1, <3>2 DEF Numbers
  <2> DEFINE i == a % H
             j == b % H
             re == RealHalf(i, j)
             im == ImagHalf(i, j)
  <2>3. re \in Int /\ im \in Int
    BY <2>1
  <2>4. e(a, b) = (IF (a < H) = (b < H) THEN re ELSE IF a < H THEN -im ELSE im) % Prime
    <3>1. (a < H) # (b < H) /\ ~(a < H /\ b >= H) => a >= H /\ b < H
      BY <1>2
    <3> QED
      BY <1>2, <3>1
  <2> HIDE DEF e
  <2>5. e(a, b) \in Numbers
    <3> HIDE DEF re, im
    <3> QED
      BY <2>2, <2>3, <2>4
  <2> QED
    BY <2>1, <2>4, <2>5
<1> HIDE DEF e
<1>4. ASSUME NEW a \in 0 .. F - 1 PROVE row(a) = v(a) /\ v(a) \in [0 .. F - 1 -> Numbers]
  <2>1. v(a) \in [0 .. F - 1 -> Numbers]
    BY <1>3
  <2> HIDE DEF v
  <2> QED
    BY <2>1
<1> HIDE DEF v, row
<1>5. M \in [0 .. F - 1 -> [0 .. F - 1 -> Numbers]]
  BY <1>4
<1>6. AssemblePackedMatrix = M
  <2> HIDE DEF M
  <2> QED
    BY <1>1, <1>5
<1>7. M[r] = v(r)
  BY <1>4
<1>8. v(r)[c] = e(r, c)
  BY DEF v
<1> QED
  BY <1>3, <1>6, <1>7, <1>8

\* The operator is that of one problem at one frequency: what the assembly reads and
\* what the two matrix-free operators were scaled with.
AtOneFrequency ==
  /\ problem \in Problems
  /\ omega.active \in Frequencies
  /\ omega.scale = omega.active /\ omega.corner = omega.active

\* A column of the packed matrix is what the operator makes of a unit vector.
LEMMA ColumnsAgree ==
  ASSUME NumberAssumption, ProblemAssumption, AtOneFrequency, NEW k \in 0 .. FullSize - 1
  PROVE  Applied([r \in 0 .. FullSize - 1 |-> IF r = k THEN 1 ELSE 0])
           = [r \in 0 .. FullSize - 1 |-> AssemblePackedMatrix[r][k]]
<1> DEFINE H == HalfSize
           F == FullSize
           u == [r \in 0 .. F - 1 |-> IF r = k THEN 1 ELSE 0]
           re == [i \in 0 .. H - 1 |-> u[i]]
           im == [i \in 0 .. H - 1 |-> u[H + i]]
           y(r) == IF r < H THEN RealMult(re, r) - ImagMult(im, r)
                   ELSE ImagMult(re, r - H) + RealMult(im, r - H)
<1>1. Sized /\ H \in Nat /\ F = 2 * H /\ k \in Int
  <2>1. Sized
    BY Sizes DEF AtOneFrequency
  <2> QED
    BY <2>1 DEF Sized, HalfSize, FullSize
<1>2. Applied(u) = [r \in 0 .. F - 1 |-> y(r) % Prime]
  BY DEF Applied
<1>3. Unit(re, k) /\ Unit(im, k - H)
  <2>1. \A j \in 0 .. H - 1 : re[j] = IF j = k THEN 1 ELSE 0
    BY <1>1
  <2>2. \A j \in 0 .. H - 1 : im[j] = IF j = k - H THEN 1 ELSE 0
    BY <1>1
  <2> QED
    BY <2>1, <2>2 DEF Unit
<1> HIDE DEF re, im
<1>4. \A i \in 0 .. H - 1 :
        /\ \A j \in 0 .. H - 1 : RealHalf(i, j) \in Int /\ ImagHalf(i, j) \in Int
        /\ RealMult(re, i) = IF k \in 0 .. H - 1 THEN RealHalf(i, k) ELSE 0
        /\ ImagMult(re, i) = IF k \in 0 .. H - 1 THEN ImagHalf(i, k) ELSE 0
        /\ RealMult(im, i) = IF k - H \in 0 .. H - 1 THEN RealHalf(i, k - H) ELSE 0
        /\ ImagMult(im, i) = IF k - H \in 0 .. H - 1 THEN ImagHalf(i, k - H) ELSE 0
  <2> TAKE i \in 0 .. H - 1
  <2>1. k \in Int /\ k - H \in Int
    BY <1>1
  <2> QED
    BY <1>1, <1>3, <2>1, HalfColumns DEF AtOneFrequency
<1>5. \A i, j \in 0 .. H - 1 : RealHalf(i, j) \in Int /\ ImagHalf(i, j) \in Int
  BY <1>4
<1>6. ASSUME NEW r \in 0 .. F - 1
      PROVE  y(r) % Prime = AssemblePackedMatrix[r][k]
  <2> DEFINE e == IF r < H THEN IF k < H THEN RealHalf(r, k) ELSE -ImagHalf(r, k - H)
                  ELSE IF k < H THEN ImagHalf(r - H, k) ELSE RealHalf(r - H, k - H)
  <2>1. AssemblePackedMatrix[r][k] = e % Prime
    BY <1>1, <1>5, PackedEntries
  <2>2. /\ r < H => r \in 0 .. H - 1
        /\ ~(r < H) => r - H \in 0 .. H - 1
        /\ k < H <=> k \in 0 .. H - 1
        /\ ~(k < H) <=> k - H \in 0 .. H - 1
    BY <1>1
  <2>3. y(r) = e
    <3>1. CASE r < H
      BY <1>4, <2>2, <3>1
    <3>2. CASE ~(r < H)
      BY <1>4, <2>2, <3>2
    <3> QED
      BY <3>1, <3>2
  <2> HIDE DEF y, e
  <2> QED
    BY <2>1, <2>3
<1> HIDE DEF y, u
<1>7. Applied(u) = [r \in 0 .. F - 1 |-> AssemblePackedMatrix[r][k]]
  BY <1>2, <1>6
<1> QED
  BY <1>7 DEF u

\* A frequency that is set is set everywhere.
THEOREM OneFrequency == PackedSpec => []AtOneFrequency
<1>1. PackedInit => AtOneFrequency
  BY DEF PackedInit, AtOneFrequency
<1>2. AtOneFrequency /\ [PackedNext]_packedVars => AtOneFrequency'
  BY DEF AtOneFrequency, PackedNext, Factor, MultPacked, Refactor, SetOmega, packedVars
<1> QED
  BY <1>1, <1>2, PTL DEF PackedSpec

\* For matrices of any size, any number of ports and every frequency the operator is
\* moved to, the packed matrix that the direct solver factors is the operator that the
\* iterative one applies, column by column.
THEOREM PathsAgree == PackedSpec => []OperatorIsAssembled
<1> USE NumberAssumption, ProblemAssumption
<1>1. AtOneFrequency => OperatorIsAssembled
  BY ColumnsAgree DEF OperatorIsAssembled
<1> QED
  BY <1>1, OneFrequency, PTL
===============================================================================
