------------------------------- MODULE Counting -------------------------------
(***************************************************************************)
(* The loops over a list of n entries (the terminals in the name order of their *)
(* std::map, the boundary elements, the elements) that number or add up some.  *)
(***************************************************************************)
EXTENDS Naturals, Sequences, FiniteSets

\* What a loop over 1..n has pushed back that takes the entries of M.
InOrder(M, n) ==
  LET pushed[k \in Nat] ==
        IF k = 0 THEN <<>>
        ELSE IF k \in M THEN Append(pushed[k - 1], k) ELSE pushed[k - 1]
  IN pushed[n]

\* What it has added up of the values v of those entries.
SumUpTo(M, v, n) ==
  LET sum[k \in Nat] ==
        IF k = 0 THEN 0 ELSE IF k \in M THEN sum[k - 1] + v[k] ELSE sum[k - 1]
  IN sum[n]

\* The counter of such a loop when it has passed entry t.
Passed(M, t) == Cardinality({u \in M : u <= t})
===============================================================================
