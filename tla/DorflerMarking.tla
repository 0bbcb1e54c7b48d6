---------------------------- MODULE DorflerMarking ----------------------------
(***************************************************************************)
(* amr::MarkElementsDorfler: which elements an adaptive pass refines.         *)
(*                                                                         *)
(* Indicators are natural numbers and fractions quotients of integers, so that *)
(* the comparison with the threshold is exact; what rounding may add at the    *)
(* threshold is not modelled.                                               *)
(***************************************************************************)
EXTENDS Integers, Sequences, FiniteSets, Counting

CONSTANTS
  ErrorVectors,   \* the indicators of the elements: sequences of naturals
  Fractions       \* [num, den], den > 0: what the caller may ask for

ASSUME MarkingAssumption ==
  /\ \A f \in Fractions : f.num \in Int /\ f.den \in Nat \ {0}
  /\ ErrorVectors \subseteq Seq(Nat)

VARIABLES
  errors, fraction,
  idx,      \* the elements in the order of the sort
  accum,
  marked,
  pc        \* "called", "marking", "returned"

dvars == <<errors, fraction, idx, accum, marked, pc>>

Indices == DOMAIN errors
Squared(S) == SumUpTo(S, [e \in Indices |-> errors[e] * errors[e]], Len(errors))
TotalError == Squared(Indices)

Clamped(f) ==
  IF f.num <= 0 THEN [num |-> 7, den |-> 10]
  ELSE IF f.num > f.den THEN [num |-> 1, den |-> 1] ELSE f

\* std::sort leaves equal elements in any order.
Sorted(p) == \A i, j \in DOMAIN p : i < j => errors[p[i]] >= errors[p[j]]

Orders == {p \in [Indices -> Indices] : \A i, j \in Indices : p[i] = p[j] => i = j}

-----------------------------------------------------------------------------
\* Nothing to refine: no elements, or no estimated error.
NoError == errors = <<>> \/ TotalError = 0

NothingToMark ==
  /\ pc = "called"
  /\ NoError
  /\ pc' = "returned"
  /\ UNCHANGED <<errors, fraction, idx, accum, marked>>

Sort ==
  /\ pc = "called"
  /\ ~NoError
  /\ \E p \in Orders : Sorted(p) /\ idx' = p
  /\ pc' = "marking"
  /\ UNCHANGED <<errors, fraction, accum, marked>>

Accumulated(e) == accum + errors[e] * errors[e]

\* Faulty: one element more when the threshold is met exactly.
Reached_Strictly(a) == a * Clamped(fraction).den > Clamped(fraction).num * TotalError

Reached(a) == a * Clamped(fraction).den >= Clamped(fraction).num * TotalError

MarkNext ==
  /\ pc = "marking"
  /\ LET e == idx[Len(marked) + 1] IN
       /\ accum' = Accumulated(e)
       /\ marked' = Append(marked, e)
  /\ pc' = IF Reached(accum') \/ Len(marked') = Len(errors) THEN "returned" ELSE pc
  /\ UNCHANGED <<errors, fraction, idx>>

DInit ==
  /\ errors \in ErrorVectors /\ fraction \in Fractions
  /\ idx = <<>> /\ accum = 0 /\ marked = <<>>
  /\ pc = "called"

DNext == NothingToMark \/ Sort \/ MarkNext

DSpec == DInit /\ [][DNext]_dvars

-----------------------------------------------------------------------------
(* Properties.                                                             *)

Marked == {marked[i] : i \in DOMAIN marked}
Enough(S) == Squared(S) * fraction.den >= fraction.num * TotalError

\* The types; no element is marked twice, and accum is what the marked ones carry.
DTypeOK ==
  /\ errors \in ErrorVectors /\ fraction \in Fractions
  /\ idx = <<>> \/ idx \in Orders
  /\ marked \in Seq(Indices) /\ Cardinality(Marked) = Len(marked)
  /\ accum = Squared(Marked)
  /\ pc \in {"called", "marking", "returned"}

\* For a fraction in (0, 1], the elements returned carry that fraction of the
\* error, and no smaller set of elements does.
SmallestSet ==
  pc = "returned" /\ 0 < fraction.num /\ fraction.num <= fraction.den =>
    /\ Enough(Marked)
    /\ \A S \in SUBSET Indices : Enough(S) => Cardinality(S) >= Len(marked)

\* No marked element has a smaller error than one that is left out.
LargestFirst == \A e \in Marked : \A u \in Indices \ Marked : errors[e] >= errors[u]

\* The adaptive loop stops on an empty result: it is empty for a mesh without
\* estimated error, and for no other, whatever fraction is configured.
EmptyOnlyIfSolved ==
  pc = "returned" => (marked = <<>> <=> \A e \in Indices : errors[e] = 0)

\* What is refined is a least set that carries the configured fraction of the error,
\* never passes over the worst element, and is empty only when there is no error.
MarksLeastSet == DTypeOK /\ SmallestSet /\ LargestFirst /\ EmptyOnlyIfSolved
===============================================================================
