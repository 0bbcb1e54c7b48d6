----------------------------- MODULE FgmresRestart -----------------------------
(***************************************************************************)
(* PhysicsSolver::SolveNonsymmetricIteratively: the loop that restarts FGMRES *)
(* on the true residual, and the verdict on what it leaves in X.              *)
(*                                                                         *)
(* Norms are natural numbers on one scale, so that "at least halves" is exact. *)
(***************************************************************************)
EXTENDS Naturals

CONSTANTS
  SolverMaxIter,  \* config.SolverMaxIter
  Target,         \* config.SolverTolerance * b_norm
  StallLimit,     \* kMqsStallLimit * b_norm
  MaxResidual     \* bound on the norm of a residual

ASSUME NormAssumption ==
  SolverMaxIter \in Nat /\ Target \in Nat /\ StallLimit \in Nat /\ MaxResidual \in Nat

Residuals == 0..MaxResidual
\* numeric_limits<double>::infinity(): more than twice any residual.
Infinity == 2 * MaxResidual + 1

VARIABLES
  loaded,         \* b_norm # 0: the load has an entry in a free row
  true_residual,  \* ||B - A X||, whatever the solver believes it to be
  residual,       \* the last one computed, Infinity before
  previous,       \* the one before that
  iterations,
  cycles,         \* history: calls of fgmres.Mult
  stalled,
  outcome         \* running | judging | accepted | failed

fvars == <<loaded, true_residual, residual, previous, iterations, cycles, stalled, outcome>>

-----------------------------------------------------------------------------
\* Without a load X is the essential values, which solve the system.
NoLoad ==
  /\ outcome = "running" /\ ~loaded
  /\ true_residual' = 0
  /\ outcome' = "accepted"
  /\ UNCHANGED <<loaded, residual, previous, iterations, cycles, stalled>>

Remaining == SolverMaxIter - iterations

\* fgmres.Mult(B, X) from the current X.  At or below the absolute tolerance there
\* is nothing to do.  Otherwise it stops when the Arnoldi recurrence falls below
\* the tolerance, or after the iterations it is given; where the true residual is
\* then, the recurrence does not say.
Mult(count, converged, r) ==
  IF true_residual <= Target
  THEN count = 0 /\ converged /\ r = true_residual
  ELSE /\ count > 0
       /\ ~converged => count = Remaining

\* Faulty: any decrease is worth another restart.
Stalls_OnlyIfRising(r) == r > residual

\* A restart that does not at least halve the residual.
Stalls(r) == 2 * r > residual

\* One round of the loop.
Cycle(count, converged, r) ==
  /\ outcome = "running" /\ loaded
  /\ iterations < SolverMaxIter
  /\ Mult(count, converged, r)
  /\ iterations' = iterations + count
  /\ cycles' = cycles + 1
  /\ true_residual' = r
  /\ previous' = residual
  /\ residual' = r
  /\ stalled' = (r > Target /\ converged /\ Stalls(r))
  /\ outcome' = IF r <= Target \/ ~converged \/ Stalls(r) THEN "judging" ELSE "running"
  /\ UNCHANGED loaded

\* The loop is left with the iterations used up.
Exhausted ==
  /\ outcome = "running" /\ loaded
  /\ iterations >= SolverMaxIter
  /\ outcome' = "judging"
  /\ UNCHANGED <<loaded, true_residual, residual, previous, iterations, cycles, stalled>>

\* Faulty: a stalled residual is always the round-off floor.
Converged_AnyStall == residual <= Target \/ stalled

Converged == residual <= Target \/ (stalled /\ residual <= StallLimit)

\* ReportKrylov throws unless converged.
Report ==
  /\ outcome = "judging"
  /\ outcome' = IF Converged THEN "accepted" ELSE "failed"
  /\ UNCHANGED <<loaded, true_residual, residual, previous, iterations, cycles, stalled>>

FInit ==
  /\ loaded \in BOOLEAN
  /\ true_residual \in Residuals
  /\ residual = Infinity /\ previous = Infinity
  /\ iterations = 0 /\ cycles = 0 /\ stalled = FALSE
  /\ outcome = "running"

FNext ==
  \/ NoLoad
  \/ \E count \in 0..Remaining, converged \in BOOLEAN, r \in Residuals :
        Cycle(count, converged, r)
  \/ Exhausted
  \/ Report

FSpec == FInit /\ [][FNext]_fvars
-----------------------------------------------------------------------------
(* Properties.                                                             *)

\* The type of every variable; the iterations never exceed the budget.
FTypeOK ==
  /\ loaded \in BOOLEAN
  /\ true_residual \in Residuals
  /\ residual \in Residuals \cup {Infinity} /\ previous \in Residuals \cup {Infinity}
  /\ iterations \in 0..SolverMaxIter /\ cycles \in Nat
  /\ stalled \in BOOLEAN
  /\ outcome \in {"running", "judging", "accepted", "failed"}

\* What is accepted has a true residual, not only a recurrence, within the
\* target; or it lies within the stall limit and a restart from a residual of
\* less than twice its size brought no more (physics_solver.hpp:231-241).
AcceptedIsSolved ==
  outcome = "accepted" =>
    \/ true_residual <= Target
    \/ /\ true_residual <= StallLimit
       /\ previous \in Residuals /\ 2 * true_residual > previous /\ cycles > 1

\* What is refused is not a solution: its true residual is above the target.
RefusedIsUnsolved == outcome = "failed" => residual > Target

\* ReportKrylov's verdict is right either way, over well-typed states.
VerdictIsSound == FTypeOK /\ AcceptedIsSolved /\ RefusedIsUnsolved

PowersOfTwo[n \in Nat] == IF n = 0 THEN 1 ELSE 2 * PowersOfTwo[n - 1]

\* Every restart but the last one halved the residual: as long as the loop goes
\* on, the residual has fallen below MaxResidual / 2^(cycles - 1).
RestartsHalve ==
  outcome = "running" /\ cycles > 0 => residual * PowersOfTwo[cycles - 1] <= MaxResidual
===============================================================================
