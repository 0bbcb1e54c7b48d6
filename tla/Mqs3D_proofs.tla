----------------------------- MODULE Mqs3D_proofs -----------------------------
(***************************************************************************)
(* Every 3D eddy-current solve is made at the frequency that is active, and   *)
(* the regularizing weight is as weak as promised, for any number of           *)
(* conductors, frequencies and runs.                                        *)
(***************************************************************************)
EXTENDS Mqs3D, Counting_proofs, FunctionTheorems, SequenceTheorems

\* The smallest element of a non-empty finite set.
LEMMA SmallestExists ==
  ASSUME NEW S \in SUBSET Nat, IsFiniteSet(S), S # {}
  PROVE  Smallest(S) \in S /\ \A y \in S : Smallest(S) <= y
<1>1. Cardinality(S) \in Nat /\ Cardinality(S) # 0
  BY FS_CardinalityType, FS_EmptySet
<1>2. PICK f \in S : Cardinality(Below(S, f)) = 1 - 1
  BY <1>1, RankExists
<1>3. Below(S, f) \in SUBSET S
  BY DEF Below
<1>4. IsFiniteSet(Below(S, f))
  BY <1>3, FS_Subset
<1>5. Below(S, f) = {}
  BY <1>2, <1>4, FS_EmptySet
<1>6. \A y \in S : f <= y
  BY <1>5 DEF Below
<1> QED BY <1>6 DEF Smallest

-----------------------------------------------------------------------------
(* The frequencies of the plan.                                            *)

Configured ==
  /\ scenarios \in ScenarioLists
  /\ linear_solver \in {"Direct", "Iterative"}
  /\ static_weight \in StaticWeights /\ sigmas \subseteq Conductivities

\* The frequencies of the scenarios are finitely many positive numbers.
LEMMA PointsAreFinite ==
  ASSUME Configured
  PROVE  /\ FrequencyPoints \in SUBSET (Nat \ {0}) /\ IsFiniteSet(FrequencyPoints)
         /\ FrequencyPoints # {} /\ scenarios[1].Frequency \in FrequencyPoints
         /\ Len(scenarios) \in Nat /\ DOMAIN scenarios = 1..Len(scenarios)
<1> DEFINE R == [name : STRING, Frequency : Nat \ {0}, driven : SUBSET Terminals]
           L == Len(scenarios)
           f == [i \in 1..L |-> scenarios[i].Frequency]
<1>1. scenarios \in Seq(R) /\ scenarios # <<>>
  BY Mqs3DAssumption DEF Configured
<1>2. L \in Nat /\ DOMAIN scenarios = 1..L /\ L # 0 /\ \A i \in 1..L : scenarios[i] \in R
  <2> HIDE DEF R
  <2>1. L \in Nat /\ DOMAIN scenarios = 1..L /\ \A i \in 1..L : scenarios[i] \in R
    BY <1>1
  <2>2. L # 0
    BY <1>1, <2>1
  <2> QED BY <2>1, <2>2
<1>3. FrequencyPoints = {f[i] : i \in 1..L}
  BY <1>2 DEF FrequencyPoints
<1>4. f \in Surjection(1..L, FrequencyPoints)
  BY <1>3 DEF Surjection
<1>5. IsFiniteSet(1..L)
  BY <1>2, FS_Interval
<1>6. IsFiniteSet(FrequencyPoints)
  BY <1>4, <1>5, FS_Surjection
<1>7. \A i \in 1..L : f[i] \in Nat \ {0}
  BY <1>2
<1>8. 1 \in 1..L
  BY <1>2
<1>9. f[1] \in FrequencyPoints
  BY <1>3, <1>8
<1> QED BY <1>2, <1>3, <1>6, <1>7, <1>8, <1>9

\* Every item of the plan is at a frequency of the scenarios.
LEMMA PlanFrequencies ==
  ASSUME Configured, NEW i \in Nat \ {0}, i <= Len(Plan)
  PROVE  Plan[i].Frequency \in FrequencyPoints
<1> USE Mqs3DAssumption
<1>1. FrequencyPoints \in SUBSET Nat /\ IsFiniteSet(FrequencyPoints)
      /\ Len(scenarios) \in Nat /\ DOMAIN scenarios = 1..Len(scenarios)
  BY PointsAreFinite
<1>2. CASE ~coupling
  <2>1. Plan = [k \in 1..Len(scenarios) |-> [Frequency |-> scenarios[k].Frequency,
                                             driven |-> scenarios[k].driven]]
    BY <1>1, <1>2 DEF Plan
  <2>2. Len(Plan) = Len(scenarios)
    BY <1>1, <2>1
  <2>3. i \in 1..Len(scenarios)
    BY <2>2
  <2>4. Plan[i].Frequency = scenarios[i].Frequency
    BY <2>1, <2>3
  <2> QED BY <1>1, <2>3, <2>4 DEF FrequencyPoints
<1>3. CASE coupling
  <2> DEFINE c == Cardinality(FrequencyPoints)
             m == c * NTerminals
             e(k) == [Frequency |-> FrequencyPoint(((k - 1) \div NTerminals) + 1),
                      driven |-> {((k - 1) % NTerminals) + 1}]
  <2>1. c \in Nat /\ m \in Nat
    BY <1>1, FS_CardinalityType
  <2>2. Plan = [k \in 1..m |-> e(k)]
    BY <1>3 DEF Plan
  <2> HIDE DEF m, e
  <2>3. Len(Plan) = m
    BY <2>1, <2>2
  <2>4. i \in 1..m /\ i - 1 \in Nat /\ i - 1 < m
    BY <2>1, <2>3
  <2>5. ((i - 1) \div NTerminals) + 1 \in 1..c
    BY <2>1, <2>4, Quotients DEF m
  <2>6. Plan[i].Frequency = FrequencyPoint(((i - 1) \div NTerminals) + 1)
    BY <2>2, <2>4 DEF e
  <2>7. \A j \in 1..c : \E f \in FrequencyPoints : Cardinality(Below(FrequencyPoints, f)) = j - 1
    BY <1>1, RankExists
  <2>8. \A j \in 1..c : FrequencyPoint(j) \in FrequencyPoints
    BY <2>7 DEF FrequencyPoint, Below
  <2> QED BY <2>5, <2>6, <2>8
<1> QED BY <1>2, <1>3

-----------------------------------------------------------------------------
(* The regularizing weight.                                                *)

\* EddyCurrentRegularization, on its own.
LEMMA WeightIsWeak ==
  ASSUME Configured
  PROVE  LET r == EddyCurrentRegularization
         IN /\ static_weight <= r.weight /\ r.weight <= Ratio * static_weight
            /\ r.warned <=> \E i \in DOMAIN scenarios, s \in sigmas :
                              r.weight > Ratio * (scenarios[i].Frequency * s)
<1> DEFINE r == EddyCurrentRegularization
           K == static_weight
<1>1. K \in Nat \ {0} /\ Ratio \in Nat \ {0} /\ sigmas \in SUBSET (Nat \ {0})
      /\ IsFiniteSet(sigmas)
  <2>1. sigmas \in SUBSET Conductivities /\ IsFiniteSet(Conductivities)
    BY Mqs3DAssumption DEF Configured
  <2>2. IsFiniteSet(sigmas)
    BY <2>1, FS_Subset
  <2> QED BY <2>1, <2>2, Mqs3DAssumption DEF Configured
<1>2. Ratio * K \in Nat /\ K <= Ratio * K
  BY <1>1, SMT
<1>3. CASE sigmas = {}
  <2>1. r = [weight |-> Ratio * K, warned |-> FALSE]
    BY <1>3 DEF EddyCurrentRegularization
  <2> QED BY <1>2, <1>3, <2>1
<1>4. CASE sigmas # {}
  <2>1. SigmaMin \in sigmas /\ \A s \in sigmas : SigmaMin <= s
    BY <1>1, <1>4, SmallestExists DEF SigmaMin
  <2>2. OmegaMin \in FrequencyPoints /\ (\A f \in FrequencyPoints : OmegaMin <= f)
        /\ FrequencyPoints \in SUBSET (Nat \ {0})
    BY PointsAreFinite, SmallestExists DEF OmegaMin
  <2>3. Scaled \in Nat \ {0} /\ Ratio * Scaled \in Nat
    BY <1>1, <2>1, <2>2, SMT DEF Scaled
  <2>4. ASSUME NEW f \in FrequencyPoints, NEW s \in sigmas
        PROVE  f * s \in Nat /\ Scaled <= f * s
    <3>1. OmegaMin \in Nat /\ SigmaMin \in Nat /\ f \in Nat /\ s \in Nat
          /\ OmegaMin <= f /\ SigmaMin <= s
      BY <1>1, <2>1, <2>2
    <3>2. OmegaMin * SigmaMin <= f * SigmaMin /\ f * SigmaMin <= f * s
      BY <3>1, SMT
    <3>3. OmegaMin * SigmaMin \in Nat /\ f * SigmaMin \in Nat /\ f * s \in Nat
      BY <3>1, SMT
    <3> QED BY <3>2, <3>3 DEF Scaled
  <2>5. ASSUME NEW f \in FrequencyPoints, NEW s \in sigmas
        PROVE  Ratio * (f * s) \in Nat /\ Ratio * Scaled <= Ratio * (f * s)
    BY <1>1, <2>3, <2>4, SMT
  <2>6. r.weight \in Nat /\ K <= r.weight /\ r.weight <= Ratio * K
    <3> HIDE DEF K
    <3> QED BY <1>1, <1>2, <1>4, <2>3 DEF EddyCurrentRegularization, K
  <2>7. r.warned <=> r.weight > Ratio * Scaled
    <3>1. CASE Ratio * Scaled < K
      <4>1. Ratio * Scaled < Ratio * K /\ ~(Ratio * Scaled >= K)
        BY <1>1, <1>2, <2>3, <3>1
      <4>2. r = [weight |-> K, warned |-> TRUE]
        BY <1>4, <4>1, Zenon DEF EddyCurrentRegularization
      <4> QED BY <3>1, <4>2
    <3>2. CASE ~(Ratio * Scaled < K) /\ Ratio * Scaled < Ratio * K
      <4>1. Ratio * Scaled >= K
        BY <1>1, <2>3, <3>2
      <4>2. r = [weight |-> Ratio * Scaled, warned |-> FALSE]
        BY <1>4, <3>2, <4>1, Zenon DEF EddyCurrentRegularization
      <4> QED BY <2>3, <4>2
    <3>3. CASE ~(Ratio * Scaled < K) /\ ~(Ratio * Scaled < Ratio * K)
      <4>1. r = [weight |-> Ratio * K, warned |-> FALSE]
        BY <1>1, <1>2, <1>4, <2>3, <3>3 DEF EddyCurrentRegularization
      <4>2. ~(Ratio * K > Ratio * Scaled)
        BY <1>2, <2>3, <3>3
      <4> QED BY <4>1, <4>2
    <3> QED BY <3>1, <3>2, <3>3
  <2>8. \E i \in DOMAIN scenarios : scenarios[i].Frequency = OmegaMin
    BY <2>2 DEF FrequencyPoints
  <2>9. \A i \in DOMAIN scenarios : scenarios[i].Frequency \in FrequencyPoints
    BY DEF FrequencyPoints
  <2>10. r.warned => \E i \in DOMAIN scenarios, s \in sigmas :
                       r.weight > Ratio * (scenarios[i].Frequency * s)
    BY <2>1, <2>7, <2>8 DEF Scaled
  <2>11. (\E i \in DOMAIN scenarios, s \in sigmas :
            r.weight > Ratio * (scenarios[i].Frequency * s)) => r.warned
    <3> SUFFICES ASSUME NEW i \in DOMAIN scenarios, NEW s \in sigmas,
                        r.weight > Ratio * (scenarios[i].Frequency * s)
                 PROVE  r.weight > Ratio * Scaled
      BY <2>7
    <3>1. Ratio * (scenarios[i].Frequency * s) \in Nat
          /\ Ratio * Scaled <= Ratio * (scenarios[i].Frequency * s)
      BY <2>5, <2>9
    <3> HIDE DEF r
    <3> QED BY <2>3, <2>6, <3>1
  <2> QED BY <2>6, <2>10, <2>11
<1> QED BY <1>3, <1>4

-----------------------------------------------------------------------------
(* The invariant.                                                          *)

Live == pc \notin {"constructed", "failed"}

\* What is prepared is the system of prepared_omega, for the configured solver.
PreparedInv ==
  /\ prepared_omega = 0 => direct_solver = {} /\ preconditioner = {}
  /\ prepared_omega # 0 =>
       direct_solver \cup preconditioner = {System(prepared_omega, Columns)}

\* One port operator, at the active frequency, over a field block that is either
\* gauged or regularized.
OperatorInv ==
  /\ omega \in FrequencyPoints
  /\ port_operator = {[active_omega |-> omega, columns |-> Columns]}
  /\ (gauge = {}) # (regularization = {})
  /\ linear_solver = "Direct" => preconditioner = {}
  /\ linear_solver = "Iterative" => direct_solver = {}

M3Inv ==
  /\ Configured
  /\ item \in Nat \ {0}
  /\ Live => PreparedInv /\ OperatorInv
  /\ pc = "solve" => \E b : rhs = {b} /\ b.omega = omega
  /\ SolvesActiveFrequency
  /\ RegularizationIsWeak

LEMMA ConductancesMatch == Conductances = Columns
  BY DEF Conductances, Columns

LEMMA M3InitInv == Init => M3Inv
<1> SUFFICES ASSUME Init PROVE M3Inv
  OBVIOUS
<1>1. Configured
  BY DEF Init, Configured
<1> QED BY <1>1 DEF Init, M3Inv, Live, SolvesActiveFrequency, RegularizationIsWeak

LEMMA SetupInv == ASSUME M3Inv, Setup PROVE M3Inv'
<1>1. Configured' /\ item' \in Nat \ {0} /\ pc' = "ready"
  BY DEF M3Inv, Setup, config, Configured
<1>2. omega' \in FrequencyPoints' /\ Columns' = Columns
  BY PointsAreFinite DEF M3Inv, Setup, config, FrequencyPoints, Columns
<1>3. OperatorInv'
  <2>1. (gauge' = {}) # (regularization' = {})
    <3>1. linear_solver = "Direct" \/ linear_solver = "Iterative"
      BY DEF M3Inv, Configured
    <3> QED BY <3>1 DEF Setup
  <2>2. port_operator' = {[active_omega |-> omega', columns |-> Columns']}
    BY <1>2 DEF Setup
  <2> QED BY <1>2, <2>1, <2>2 DEF Setup, OperatorInv
<1>4. PreparedInv'
  BY DEF Setup, PreparedInv
<1>5. RegularizationIsWeak'
  <2> SUFFICES ASSUME NEW r \in regularization'
               PROVE  /\ static_weight <= r.weight /\ r.weight <= Ratio * static_weight
                      /\ r.warned <=> \E i \in DOMAIN scenarios, s \in sigmas :
                                        r.weight > Ratio * (scenarios[i].Frequency * s)
    BY DEF Setup, config, RegularizationIsWeak
  <2>1. r = EddyCurrentRegularization
    BY DEF Setup
  <2> QED BY <2>1, WeightIsWeak DEF M3Inv
<1> QED BY <1>1, <1>3, <1>4, <1>5 DEF M3Inv, SolvesActiveFrequency

\* A step that leaves the operators and what is prepared alone.
LEMMA FrameInv ==
  ASSUME M3Inv, UNCHANGED <<config, omega, operators, port_operator, prepared, rhs, solution>>,
         item' \in Nat \ {0}, pc' # "solve", Live' => Live,
         pc' \in {"gather", "save"} => pc \in {"gather", "save"}
  PROVE  M3Inv'
<1> USE DEF config, operators, prepared
<1>1. Configured' /\ Columns' = Columns /\ FrequencyPoints' = FrequencyPoints
  BY DEF M3Inv, Configured, Columns, FrequencyPoints
<1>2. Live' => PreparedInv' /\ OperatorInv'
  BY <1>1 DEF M3Inv, PreparedInv, OperatorInv, System
<1>3. SolvesActiveFrequency' /\ RegularizationIsWeak'
  BY DEF M3Inv, SolvesActiveFrequency, RegularizationIsWeak
<1> QED BY <1>1, <1>2, <1>3 DEF M3Inv

\* A step to "failed" leaves nothing to hold but the regularization.
LEMMA FailedInv ==
  ASSUME M3Inv, UNCHANGED <<config, operators, item>>, pc' = "failed"
  PROVE  M3Inv'
BY DEF M3Inv, config, operators, Configured, Live, SolvesActiveFrequency, RegularizationIsWeak

LEMMA DriveInv == ASSUME M3Inv, Drive PROVE M3Inv'
<1> USE DEF config, operators, prepared
<1>1. Configured' /\ Columns' = Columns /\ FrequencyPoints' = FrequencyPoints
      /\ Live /\ item' = item /\ pc' = "solve"
  BY DEF M3Inv, Drive, Configured, Columns, FrequencyPoints, Live
<1>2. omega' \in FrequencyPoints
      /\ port_operator' = {[active_omega |-> omega', columns |-> Columns]}
  <2>1. CASE OpensPoint
    <3>1. omega' = Plan[item].Frequency /\ port_operator' = Activated(omega')
      BY <2>1 DEF Drive
    <3>2. omega' \in FrequencyPoints
      BY <3>1, PlanFrequencies DEF M3Inv, Drive
    <3>3. PICK w : port_operator = {[active_omega |-> w, columns |-> Columns]}
      BY <1>1 DEF M3Inv, OperatorInv
    <3>4. Activated(omega') = {[active_omega |-> omega', columns |-> Columns]}
      BY <3>3 DEF Activated
    <3> QED BY <3>1, <3>2, <3>4
  <2>2. CASE ~OpensPoint
    <3>1. omega' = omega /\ port_operator' = port_operator
      BY <2>2 DEF Drive
    <3> QED BY <1>1, <3>1 DEF M3Inv, OperatorInv
  <2> QED BY <2>1, <2>2
<1>3. OperatorInv'
  BY <1>1, <1>2 DEF M3Inv, Drive, OperatorInv
<1>4. PreparedInv'
  BY <1>1 DEF M3Inv, Drive, PreparedInv, System
<1>5. \E b : rhs' = {b} /\ b.omega = omega'
  <2> DEFINE b == RightHandSide(omega', Plan[item].driven)
  <2>1. rhs' = {b}
    BY DEF Drive
  <2>2. b.omega = omega'
    BY DEF RightHandSide
  <2> HIDE DEF b
  <2> QED BY <2>1, <2>2
<1>6. RegularizationIsWeak'
  BY DEF M3Inv, Drive, RegularizationIsWeak
<1> QED BY <1>1, <1>3, <1>4, <1>5, <1>6 DEF M3Inv, SolvesActiveFrequency

LEMMA SolveInv == ASSUME M3Inv, Solve PROVE M3Inv'
<1> USE DEF config, operators, prepared
<1>1. Configured' /\ Columns' = Columns /\ FrequencyPoints' = FrequencyPoints
      /\ Live /\ item' = item /\ pc' = "gather" /\ omega' = omega
  BY DEF M3Inv, Solve, Configured, Columns, FrequencyPoints, Live
<1>2. omega \in Nat \ {0} /\ OperatorInv /\ PreparedInv
  BY <1>1, PointsAreFinite DEF M3Inv, OperatorInv
<1>3. Packed = {System(omega, Columns)}
  BY <1>2 DEF Packed, OperatorInv
<1>4. /\ prepared_omega' = omega
      /\ direct_solver' \cup preconditioner' = {System(omega, Columns)}
      /\ linear_solver = "Direct" => preconditioner' = {}
      /\ linear_solver = "Iterative" => direct_solver' = {}
  <2>1. CASE PreparedHit
    <3>1. prepared_omega = omega /\ UNCHANGED prepared
      BY <2>1 DEF Solve, PrepareSolver, PreparedHit
    <3> QED BY <1>2, <3>1 DEF PreparedInv, OperatorInv
  <2>2. CASE ~PreparedHit /\ linear_solver = "Direct"
    <3>1. prepared_omega' = omega /\ direct_solver' = Packed /\ preconditioner' = {}
      BY <1>2, <2>2 DEF Solve, PrepareSolver, OperatorInv
    <3> QED BY <1>3, <2>2, <3>1
  <2>3. CASE ~PreparedHit /\ linear_solver = "Iterative"
    <3>1. /\ prepared_omega' = omega /\ direct_solver' = {}
          /\ preconditioner' = {System(omega, Columns)}
      BY <1>2, <2>3, ConductancesMatch DEF Solve, PrepareSolver, OperatorInv
    <3> QED BY <2>3, <3>1
  <2> QED BY <2>1, <2>2, <2>3 DEF M3Inv, Configured
<1>5. OperatorInv'
  BY <1>1, <1>2, <1>4 DEF Solve, OperatorInv
<1>6. PreparedInv'
  BY <1>1, <1>2, <1>4 DEF Solve, PreparedInv, System
<1>7. SolvesActiveFrequency'
  <2>1. PICK b : rhs = {b} /\ b.omega = omega
    BY DEF M3Inv, Solve
  <2> DEFINE s == System(omega, Columns)
             x == [factors |-> s, applied |-> s, rhs |-> b]
  <2>2. x \in solution'
    BY <1>3, <1>4, <2>1 DEF Solve
  <2>3. s.omega = omega /\ s.gauged # s.regularized
    BY <1>2 DEF System, OperatorInv
  <2> HIDE DEF s
  <2>4. /\ x.factors.omega = omega' /\ x.applied.omega = omega' /\ x.rhs.omega = omega'
        /\ x.factors.corner = x.applied.corner
        /\ x.factors.gauged # x.factors.regularized
    BY <1>1, <2>1, <2>3
  <2> QED BY <2>2, <2>4 DEF SolvesActiveFrequency
<1>8. RegularizationIsWeak'
  BY DEF M3Inv, Solve, RegularizationIsWeak
<1> QED BY <1>1, <1>5, <1>6, <1>7, <1>8 DEF M3Inv

LEMMA M3NextInv == M3Inv /\ [Next]_vars => M3Inv'
<1> SUFFICES ASSUME M3Inv, [Next]_vars PROVE M3Inv'
  OBVIOUS
<1>1. CASE Setup
  BY <1>1, SetupInv
<1>2. CASE SetupFails
  BY <1>2, FailedInv DEF SetupFails
<1>3. CASE Run
  BY <1>3, FrameInv DEF Run, Live
<1>4. CASE Drive
  BY <1>4, DriveInv
<1>5. CASE Solve
  BY <1>5, SolveInv
<1>6. CASE SolveFails
  BY <1>6, FailedInv DEF SolveFails
<1>7. CASE Gather
  BY <1>7, FrameInv DEF Gather, Live, M3Inv
<1>8. CASE SaveScenario
  <2>1. item' \in Nat \ {0}
    BY <1>8 DEF SaveScenario, M3Inv
  <2> QED BY <1>8, <2>1, FrameInv DEF SaveScenario, Live
<1>9. CASE WriteFails
  BY <1>9, FailedInv DEF WriteFails
<1>10. CASE EndRun
  BY <1>10, FrameInv DEF EndRun, Live, M3Inv
<1>11. CASE SaveAnalysis
  BY <1>11, FrameInv DEF SaveAnalysis, Live, M3Inv
<1>12. CASE UNCHANGED vars
  <2>1. Configured' /\ Columns' = Columns /\ FrequencyPoints' = FrequencyPoints
    BY <1>12 DEF M3Inv, Configured, Columns, FrequencyPoints, vars, config
  <2>2. (PreparedInv => PreparedInv') /\ (OperatorInv => OperatorInv')
    BY <1>12, <2>1 DEF PreparedInv, OperatorInv, System, vars, config, operators, prepared
  <2>3. SolvesActiveFrequency' /\ RegularizationIsWeak'
    BY <1>12 DEF M3Inv, SolvesActiveFrequency, RegularizationIsWeak, vars, config, operators
  <2> QED BY <1>12, <2>1, <2>2, <2>3 DEF M3Inv, Live, vars
<1> QED
  BY <1>1, <1>2, <1>3, <1>4, <1>5, <1>6, <1>7, <1>8, <1>9, <1>10, <1>11, <1>12 DEF Next, Step

\* M3Inv holds throughout: what is prepared is the system of prepared_omega, and the
\* port operator is at the active frequency, one of the scenarios'.
THEOREM Invariance3D == Spec => []M3Inv
BY M3InitInv, M3NextInv, PTL DEF Spec

\* For any number of conductors, scenarios and runs, a 3D solve combines factors, an
\* operator and a load of the active frequency (PrepareSolver, ActivateFrequency).
THEOREM SolvesAreActive == Spec => []SolvesActiveFrequency
<1>1. M3Inv => SolvesActiveFrequency
  BY DEF M3Inv
<1> QED BY <1>1, Invariance3D, PTL

\* For every set of frequencies and conductivities, EddyCurrentRegularization keeps
\* the bound of its comment, and warns exactly where it cannot.
THEOREM RegularizationBound == Spec => []RegularizationIsWeak
<1>1. M3Inv => RegularizationIsWeak
  BY DEF M3Inv
<1> QED BY <1>1, Invariance3D, PTL

-----------------------------------------------------------------------------
(* What is read from the solutions: the ports.                             *)

\* Setup numbered the ports, and the operator is over the same columns.
Numbered ==
  /\ massive \subseteq Terminals
  /\ port_of = [t \in Terminals |-> PortOf(t)]
  /\ \E w : port_operator = {[active_omega |-> w, columns |-> Columns]}

\* The counter of the loop that numbers the ports is each conductor's own column.
LEMMA OwnPort ==
  ASSUME massive \subseteq Terminals, NEW t \in massive
  PROVE  Passed(massive, t) > 0 /\ Passed(massive, t) \in DOMAIN Columns
         /\ Columns[Passed(massive, t)] = t
<1>1. massive \in SUBSET (Nat \ {0}) /\ NTerminals \in Nat /\ t <= NTerminals
  BY Mqs3DAssumption DEF Terminals
<1> DEFINE c == Passed(massive, NTerminals)
           s == InOrder(massive, NTerminals)
<1>2. s \in Seq(Nat) /\ c \in Nat /\ Columns = s
  BY <1>1, InOrderStep, PassedStep DEF Columns
<1>3. /\ Len(s) = c
      /\ \A u \in massive : u <= NTerminals => Passed(massive, u) \in 1..c
                                               /\ s[Passed(massive, u)] = u
  BY <1>1, OrderIsCount, Zenon
<1> HIDE DEF c, s
<1>4. DOMAIN s = 1..c
  BY <1>2, <1>3
<1>5. Passed(massive, t) \in 1..c /\ s[Passed(massive, t)] = t
  BY <1>1, <1>3
<1>6. Passed(massive, t) > 0
  BY <1>2, <1>5
<1> QED BY <1>2, <1>4, <1>5, <1>6, Zenon

\* The column at each massive conductor's port is its own; the others have none.
LEMMA ColumnOfPort ==
  ASSUME massive \subseteq Terminals, port_of = [t \in Terminals |-> PortOf(t)]
  PROVE  /\ \A t \in massive : /\ port_of[t] > 0 /\ port_of[t] \in DOMAIN Columns
                               /\ Columns[port_of[t]] = t
         /\ \A t \in Terminals : port_of[t] > 0 => t \in massive
<1>1. \A t \in massive : port_of[t] = Passed(massive, t)
  BY DEF PortOf
<1>2. \A t \in Terminals : port_of[t] > 0 => t \in massive
  BY DEF PortOf
<1> QED BY <1>1, <1>2, OwnPort

\* The solved voltage under a massive conductor's port is that conductor's.
LEMMA VoltageIsOwn ==
  ASSUME Numbered, NEW t \in massive
  PROVE  Voltage(port_of[t]) = {t}
<1>1. port_of[t] \in DOMAIN Columns /\ Columns[port_of[t]] = t
  BY ColumnOfPort DEF Numbered
<1>2. PICK w : port_operator = {[active_omega |-> w, columns |-> Columns]}
  BY DEF Numbered
<1> DEFINE o == [active_omega |-> w, columns |-> Columns]
<1>3. o.columns = Columns
  OBVIOUS
<1> HIDE DEF o
<1>4. port_operator = {o}
  BY <1>2 DEF o
<1>5. {x \in port_operator : port_of[t] \in DOMAIN x.columns} = {o}
  BY <1>1, <1>3, <1>4
<1> QED BY <1>1, <1>3, <1>5 DEF Voltage

\* A row of a coupling column is the row's own.
LEMMA RowIsOwn ==
  ASSUME Numbered, NEW t \in Terminals
  PROVE  ReadRow(t) = {t}
<1>1. CASE t \in massive
  BY <1>1, VoltageIsOwn, ColumnOfPort DEF Numbered, ReadRow
<1>2. CASE t \notin massive
  BY <1>2, ColumnOfPort DEF Numbered, ReadRow
<1> QED BY <1>1, <1>2

\* The index that counts the ported conductors before t finds t's own drive.
LEMMA FieldIsOwn ==
  ASSUME Numbered
  PROVE  ElectricField = [t \in massive |-> [path |-> t, voltage |-> {t}]]
<1> DEFINE ported == {t \in Terminals : port_of[t] > 0}
           n == Cardinality(ported)
           at(i) == CHOOSE t \in ported : Cardinality({u \in ported : u < t}) = i - 1
           drives == [i \in 1..n |-> [path |-> at(i), voltage |-> Voltage(port_of[at(i)])]]
<1>1. ported = massive
  BY ColumnOfPort DEF Numbered
<1>2. massive \in SUBSET Nat /\ IsFiniteSet(massive) /\ n \in Nat
  <2>1. IsFiniteSet(Terminals) /\ massive \in SUBSET Terminals /\ Terminals \subseteq Nat
    BY FS_Interval, Mqs3DAssumption DEF Terminals, Numbered
  <2> QED BY <1>1, <2>1, FS_Subset, FS_CardinalityType
<1>3. ASSUME NEW t \in massive
      PROVE  /\ DriveIndex(t) \in 1..n
             /\ drives[DriveIndex(t)] = [path |-> t, voltage |-> {t}]
  <2>1. {u \in 1..(t - 1) : port_of[u] > 0} = Below(massive, t)
    <3>1. \A u \in massive : u < t => u \in 1..(t - 1)
      BY DEF Terminals, Numbered
    <3>2. \A u \in 1..(t - 1) : u \in Terminals /\ u < t
      BY Mqs3DAssumption DEF Terminals, Numbered
    <3> QED BY <3>1, <3>2, ColumnOfPort DEF Numbered, Below
  <2>2. DriveIndex(t) = Cardinality(Below(massive, t)) + 1
    BY <2>1 DEF DriveIndex
  <2>3. /\ Cardinality(Below(massive, t)) \in 0..(n - 1)
        /\ \A g \in massive : Cardinality(Below(massive, t)) = Cardinality(Below(massive, g))
                                => t = g
    BY <1>1, <1>2, RankInjective
  <2>4. DriveIndex(t) \in 1..n /\ DriveIndex(t) - 1 = Cardinality(Below(massive, t))
    BY <1>2, <2>2, <2>3
  <2>5. at(DriveIndex(t)) = t
    <3>1. at(DriveIndex(t)) =
            CHOOSE g \in massive : Cardinality(Below(massive, g)) = DriveIndex(t) - 1
      BY <1>1 DEF Below
    <3> QED BY <2>3, <2>4, <3>1
  <2>6. drives[DriveIndex(t)] = [path |-> t, voltage |-> Voltage(port_of[t])]
    <3> HIDE DEF at, n
    <3> QED BY <2>4, <2>5
  <2>7. Voltage(port_of[t]) = {t}
    BY VoltageIsOwn
  <2> QED BY <2>4, <2>6, <2>7
<1>4. ElectricField = [t \in ported |-> IF DriveIndex(t) \in DOMAIN drives
                                        THEN drives[DriveIndex(t)]
                                        ELSE [path |-> 0, voltage |-> {}]]
  BY DEF ElectricField
<1>5. DOMAIN drives = 1..n
  OBVIOUS
<1> HIDE DEF ported, drives, n
<1> QED BY <1>1, <1>3, <1>4, <1>5

-----------------------------------------------------------------------------
(* The series of a coupling run.                                           *)

Points == [i \in 1..Cardinality(FrequencyPoints) |-> FrequencyPoint(i)]

\* The column of conductor t at a frequency, each row read from the row's own.
Column(w, t) == [driven |-> {t}, omega |-> w, rows |-> [u \in Terminals |-> {u}]]

\* The first points, of which the first q are complete and the others have m columns.
Series(point, opened, q, m) ==
  [i \in 1..opened |->
     [Frequency |-> point[i],
      columns |-> {Column(point[i], t) : t \in 1..(IF i <= q THEN NTerminals ELSE m)}]]

\* A point is opened without columns.
LEMMA SeriesOpens ==
  ASSUME NEW point, NEW q \in Nat
  PROVE  Append(Series(point, q, q, 0), [Frequency |-> point[q + 1], columns |-> {}])
           = Series(point, q + 1, q, 0)
<1> DEFINE e(i, m) == [Frequency |-> point[i],
                       columns |-> {Column(point[i], t) : t \in 1..m}]
           a == Series(point, q, q, 0)
           b == Series(point, q + 1, q, 0)
           x == [Frequency |-> point[q + 1], columns |-> {}]
           k(i) == IF i <= q THEN NTerminals ELSE 0
<1>1. a = [i \in 1..q |-> e(i, k(i))] /\ b = [i \in 1..(q + 1) |-> e(i, k(i))]
  BY DEF Series
<1>2. x = e(q + 1, 0) /\ k(q + 1) = 0
  OBVIOUS
<1> HIDE DEF e, k, a, b, x
<1>3. Append(a, x) = [i \in 1..(q + 1) |-> IF i <= q THEN a[i] ELSE x]
  <2> DEFINE R == {a[i] : i \in 1..q} \cup {x}
             y == Append(a, x)
  <2>1. a \in [1..q -> R] /\ x \in R
    BY <1>1
  <2> HIDE DEF R
  <2>2. a \in Seq(R) /\ Len(a) = q
    BY <2>1
  <2>3. y \in Seq(R) /\ Len(y) = q + 1 /\ (\A i \in 1..q : y[i] = a[i]) /\ y[q + 1] = x
    BY <2>1, <2>2, AppendProperties
  <2> HIDE DEF y
  <2>4. y = [i \in 1..(q + 1) |-> y[i]]
    BY <2>3
  <2>5. ASSUME NEW i \in 1..(q + 1) PROVE y[i] = IF i <= q THEN a[i] ELSE x
    <3>1. i <= q => i \in 1..q
      OBVIOUS
    <3>2. ~(i <= q) => i = q + 1
      OBVIOUS
    <3> QED BY <2>3, <3>1, <3>2
  <2>6. y = [i \in 1..(q + 1) |-> IF i <= q THEN a[i] ELSE x]
    BY <2>4, <2>5
  <2> QED BY <2>6 DEF y
<1>4. ASSUME NEW i \in 1..(q + 1) PROVE (IF i <= q THEN a[i] ELSE x) = e(i, k(i))
  <2>1. CASE i <= q
    BY <1>1, <2>1
  <2>2. CASE ~(i <= q)
    <3>1. i = q + 1
      BY <2>2
    <3> QED BY <1>2, <2>2, <3>1
  <2> QED BY <2>1, <2>2
<1>5. Append(a, x) = b
  BY <1>1, <1>3, <1>4
<1> QED BY <1>5 DEF a, b, x

\* The current point gets its next column.
LEMMA SeriesFills ==
  ASSUME NEW point, NEW q \in Nat, NEW m \in Nat
  PROVE  [Series(point, q + 1, q, m) EXCEPT
            ![q + 1].columns = @ \cup {Column(point[q + 1], m + 1)}]
           = Series(point, q + 1, q, m + 1)
<1> DEFINE e(i, j) == [Frequency |-> point[i],
                       columns |-> {Column(point[i], t) : t \in 1..j}]
           k(i, j) == IF i <= q THEN NTerminals ELSE j
           a == Series(point, q + 1, q, m)
<1>1. a = [i \in 1..(q + 1) |-> e(i, k(i, m))]
  BY DEF Series
<1>2. Series(point, q + 1, q, m + 1) = [i \in 1..(q + 1) |-> e(i, k(i, m + 1))]
  BY DEF Series
<1>3. [e(q + 1, m) EXCEPT !.columns = @ \cup {Column(point[q + 1], m + 1)}]
        = e(q + 1, m + 1)
  <2>1. 1..(m + 1) = (1..m) \cup {m + 1}
    OBVIOUS
  <2>2. {Column(point[q + 1], t) : t \in 1..(m + 1)}
          = {Column(point[q + 1], t) : t \in 1..m} \cup {Column(point[q + 1], m + 1)}
    BY <2>1
  <2> DEFINE f == point[q + 1]
             c == {Column(f, t) : t \in 1..m}
             x == Column(f, m + 1)
             d == {Column(f, t) : t \in 1..(m + 1)}
  <2>3. e(q + 1, m) = [Frequency |-> f, columns |-> c]
        /\ e(q + 1, m + 1) = [Frequency |-> f, columns |-> d]
        /\ d = c \cup {x} /\ x = Column(f, m + 1) /\ f = point[q + 1]
    BY <2>2
  <2> HIDE DEF e, f, c, d, x
  <2>4. [[Frequency |-> f, columns |-> c] EXCEPT !.columns = @ \cup {x}]
          = [Frequency |-> f, columns |-> c \cup {x}]
    OBVIOUS
  <2> QED BY <2>3, <2>4, Zenon
<1>4. \A i \in 1..(q + 1) : i # q + 1 => k(i, m) = k(i, m + 1)
  OBVIOUS
<1>5. k(q + 1, m) = m /\ k(q + 1, m + 1) = m + 1
  OBVIOUS
<1> HIDE DEF a, e, k
<1>6. a[q + 1] = e(q + 1, m)
  BY <1>1, <1>5
<1>7. [a EXCEPT ![q + 1].columns = @ \cup {Column(point[q + 1], m + 1)}]
        = [i \in 1..(q + 1) |-> IF i = q + 1 THEN e(q + 1, m + 1) ELSE a[i]]
  BY <1>1, <1>3, <1>6
<1>8. ASSUME NEW i \in 1..(q + 1)
      PROVE  (IF i = q + 1 THEN e(q + 1, m + 1) ELSE a[i]) = e(i, k(i, m + 1))
  BY <1>1, <1>4, <1>5
<1>9. [a EXCEPT ![q + 1].columns = @ \cup {Column(point[q + 1], m + 1)}]
        = Series(point, q + 1, q, m + 1)
  BY <1>2, <1>7, <1>8
<1> QED BY <1>9 DEF a

\* A point with a column per conductor is complete.
LEMMA SeriesCloses ==
  ASSUME NEW point, NEW q \in Nat
  PROVE  Series(point, q + 1, q, NTerminals) = Series(point, q + 1, q + 1, 0)
<1> DEFINE e(i, j) == [Frequency |-> point[i],
                       columns |-> {Column(point[i], t) : t \in 1..j}]
<1>1. Series(point, q + 1, q, NTerminals)
        = [i \in 1..(q + 1) |-> e(i, IF i <= q THEN NTerminals ELSE NTerminals)]
  BY DEF Series
<1>2. Series(point, q + 1, q + 1, 0)
        = [i \in 1..(q + 1) |-> e(i, IF i <= q + 1 THEN NTerminals ELSE 0)]
  BY DEF Series
<1>3. \A i \in 1..(q + 1) : (IF i <= q THEN NTerminals ELSE NTerminals)
                              = (IF i <= q + 1 THEN NTerminals ELSE 0)
  OBVIOUS
<1> HIDE DEF e
<1> QED BY <1>1, <1>2, <1>3

-----------------------------------------------------------------------------
(* The plan of a coupling run: at every point, ascending, every conductor.   *)

Solves == Cardinality(FrequencyPoints) * NTerminals

Quot == (item - 1) \div NTerminals
Rem == (item - 1) % NTerminals

\* Item i of the plan drives one conductor at one point.
LEMMA CouplingPlan ==
  ASSUME Configured, coupling
  PROVE  /\ Cardinality(FrequencyPoints) \in Nat /\ Solves \in Nat /\ Len(Plan) = Solves
         /\ \A i \in 1..Solves :
              /\ Plan[i].Frequency = Points[((i - 1) \div NTerminals) + 1]
              /\ Plan[i].driven = {((i - 1) % NTerminals) + 1}
<1> USE Mqs3DAssumption
<1> DEFINE c == Cardinality(FrequencyPoints)
           e(k) == [Frequency |-> FrequencyPoint(((k - 1) \div NTerminals) + 1),
                    driven |-> {((k - 1) % NTerminals) + 1}]
<1>1. c \in Nat /\ Solves \in Nat
  <2>1. c \in Nat
    BY PointsAreFinite, FS_CardinalityType
  <2> QED BY <2>1, SMT DEF Solves
<1>2. Plan = [k \in 1..Solves |-> e(k)]
  BY DEF Plan, Solves
<1>3. Len(Plan) = Solves
  <2> HIDE DEF e
  <2> QED BY <1>1, <1>2
<1>4. ASSUME NEW i \in 1..Solves
      PROVE  /\ Plan[i].Frequency = Points[((i - 1) \div NTerminals) + 1]
             /\ Plan[i].driven = {((i - 1) % NTerminals) + 1}
  <2>1. i - 1 \in Nat /\ i - 1 < c * NTerminals
    BY <1>1 DEF Solves
  <2>2. ((i - 1) \div NTerminals) + 1 \in 1..c
    <3> HIDE DEF c
    <3> QED BY <1>1, <2>1, Quotients
  <2>3. Plan[i] = e(i)
    <3> HIDE DEF e
    <3> QED BY <1>2
  <2>4. Points[((i - 1) \div NTerminals) + 1] = FrequencyPoint(((i - 1) \div NTerminals) + 1)
    BY <2>2 DEF Points
  <2> QED BY <2>3, <2>4
<1> QED BY <1>1, <1>3, <1>4

\* Where an item stands among the points.
LEMMA ItemPoint ==
  ASSUME item \in Nat \ {0}, Cardinality(FrequencyPoints) \in Nat
  PROVE  /\ Quot \in Nat /\ Rem \in 0..(NTerminals - 1)
         /\ item - 1 <= Solves => Quot + (IF Rem = 0 THEN 0 ELSE 1) <= Cardinality(FrequencyPoints)
         /\ item <= Solves => Quot + 1 <= Cardinality(FrequencyPoints)
         /\ item - 1 = Solves => Quot = Cardinality(FrequencyPoints) /\ Rem = 0
<1> DEFINE a == item - 1
           c == Cardinality(FrequencyPoints)
<1>1. a \in Nat /\ c \in Nat /\ NTerminals \in Nat \ {0}
  BY Mqs3DAssumption
<1>2. Quot \in Nat /\ Rem \in 0..(NTerminals - 1)
      /\ \A q \in Nat, r \in 0..(NTerminals - 1) :
           a = NTerminals * q + r => q = Quot /\ r = Rem
  <2> HIDE DEF a
  <2>1. /\ a \div NTerminals \in Nat /\ a % NTerminals \in 0..(NTerminals - 1)
        /\ \A q \in Nat, r \in 0..(NTerminals - 1) :
             a = NTerminals * q + r => q = a \div NTerminals /\ r = a % NTerminals
    BY <1>1, Division, Zenon
  <2> QED BY <2>1, Zenon DEF Quot, Rem, a
<1>3. a = Solves => Quot = c /\ Rem = 0
  <2>1. ASSUME a = Solves PROVE a = NTerminals * c + 0 /\ 0 \in 0..(NTerminals - 1)
    BY <1>1, <2>1, SMT DEF Solves
  <2> QED BY <1>1, <1>2, <2>1
<1>4. a < c * NTerminals => Quot + 1 \in 1..c
  <2> HIDE DEF a, c
  <2>1. a < c * NTerminals => (a \div NTerminals) + 1 \in 1..c
    BY <1>1, Quotients
  <2> QED BY <2>1 DEF Quot, a
<1>5. Solves \in Nat /\ Solves = c * NTerminals
  BY <1>1, SMT DEF Solves
<1> HIDE DEF c
<1>6. item <= Solves => Quot + 1 <= c
  BY <1>1, <1>4, <1>5
<1>7. item - 1 <= Solves => Quot + (IF Rem = 0 THEN 0 ELSE 1) <= c
  BY <1>1, <1>2, <1>3, <1>4, <1>5
<1> QED BY <1>2, <1>3, <1>6, <1>7 DEF c

-----------------------------------------------------------------------------
(* The invariant of the readings.                                          *)

\* The points that are open, and the columns of the last one.
Opened == IF pc \in {"column", "ran"} /\ Rem = 0 THEN Quot ELSE Quot + 1
Gathered == IF pc = "save" THEN Rem + 1 ELSE Rem

\* A coupling run has gathered a column per item, at the point of the item, and
\* factored at most once per open point.
SeriesInv ==
  coupling /\ pc \in {"column", "solve", "gather", "save", "ran"} =>
    /\ item - 1 <= Solves
    /\ pc = "ran" => item - 1 = Solves
    /\ pc \in {"solve", "gather", "save"} => item <= Solves
    /\ coupling_results = Series(Points, Opened, Quot, Gathered)
    /\ Opened > 0 => omega = Points[Opened]
    /\ factorizations <= Opened
    /\ pc = "solve" /\ prepared_omega # omega => factorizations < Opened
    /\ pc # "solve" /\ Opened > 0 => prepared_omega = omega

\* Setup numbers the ports when it builds the operator.
PortsInv == port_operator # {} => port_of = [t \in Terminals |-> PortOf(t)]

ReadInv ==
  /\ M3TypeOK
  /\ PortsInv
  /\ pc \in {"constructed", "ready"} => factorizations = 0
  /\ SeriesInv
  /\ FactoredOncePerPoint
  /\ LossesUseOwnPath

\* What is open when a run ends is every point, each with a column per conductor.
LEMMA SeriesIsWhole ==
  ASSUME Configured, item \in Nat \ {0}, SeriesInv
  PROVE  SeriesComplete
<1> SUFFICES ASSUME coupling, pc = "ran" PROVE SeriesComplete
  BY DEF SeriesComplete
<1> DEFINE c == Cardinality(FrequencyPoints)
<1>1. c \in Nat /\ Opened = c /\ Quot = c /\ Gathered = 0
  BY CouplingPlan, ItemPoint DEF SeriesInv, Opened, Gathered
<1>2. coupling_results = Series(Points, c, c, 0)
  BY <1>1 DEF SeriesInv
<1> DEFINE g(i) == {Column(Points[i], t) : t \in 1..(IF i <= c THEN NTerminals ELSE 0)}
           e(i) == [Frequency |-> Points[i], columns |-> g(i)]
<1>3. coupling_results = [i \in 1..c |-> e(i)]
  BY <1>2 DEF Series
<1>4. \A i \in 1..c : /\ e(i).Frequency = Points[i] /\ e(i).columns = g(i)
                      /\ Points[i] = FrequencyPoint(i)
  BY DEF Points
<1>5. ASSUME NEW i \in 1..c
      PROVE  g(i) = {[driven |-> {d}, omega |-> Points[i],
                      rows |-> [t \in Terminals |-> {t}]] : d \in Terminals}
  BY <1>1, <1>5 DEF Column, Terminals
<1> HIDE DEF e, c
<1>6. \A i \in DOMAIN coupling_results : i \in 1..c /\ coupling_results[i] = e(i)
  BY <1>3
<1>7. [i \in DOMAIN coupling_results |-> coupling_results[i].Frequency] =
        [i \in 1..c |-> FrequencyPoint(i)]
  BY <1>3, <1>4
<1>8. ASSUME NEW i \in DOMAIN coupling_results
      PROVE  coupling_results[i].columns =
               {[driven |-> {d}, omega |-> coupling_results[i].Frequency,
                 rows |-> [t \in Terminals |-> {t}]] : d \in Terminals}
  <2>1. i \in 1..c /\ coupling_results[i].Frequency = Points[i]
        /\ coupling_results[i].columns = g(i)
    BY <1>4, <1>6
  <2> HIDE DEF g
  <2>2. g(i) = {[driven |-> {d}, omega |-> Points[i],
                 rows |-> [t \in Terminals |-> {t}]] : d \in Terminals}
    BY <1>5, <2>1
  <2> QED BY <2>1, <2>2
<1> QED BY <1>7, <1>8 DEF SeriesComplete, c

\* A step that leaves every variable in its type, and the ports and the operator
\* as they were or numbered together.
LEMMA TypeNext ==
  ASSUME M3TypeOK, UNCHANGED config,
         pc' \in Phases, runs' \in 0..MaxRuns, item' \in Nat \ {0}, factorizations' \in Nat,
         omega' \in Frequencies \cup {0}, prepared_omega' \in Frequencies \cup {0},
         port_operator' \subseteq [active_omega : Frequencies, columns : {Columns}],
         PortsInv', direct_solver' \subseteq Systems, preconditioner' \subseteq Systems
  PROVE  M3TypeOK'
<1>1. massive' = massive /\ Columns' = Columns /\ Frequencies' = Frequencies /\ Systems' = Systems
  BY DEF config, Columns, Frequencies, FrequencyPoints, Systems
<1>2. ASSUME NEW o \in port_operator', NEW t \in massive
      PROVE  port_of'[t] \in DOMAIN o.columns /\ o.columns[port_of'[t]] = t
  <2>1. o.columns = Columns
    OBVIOUS
  <2>2. port_of' = [u \in Terminals |-> PortOf(u)]
    BY <1>1 DEF PortsInv, PortOf
  <2>3. massive \subseteq Terminals
    BY DEF M3TypeOK
  <2> DEFINE p == [u \in Terminals |-> PortOf(u)]
  <2>4. p[t] = Passed(massive, t) /\ t \in Terminals
    BY <2>3 DEF PortOf
  <2>5. Passed(massive, t) \in DOMAIN Columns /\ Columns[Passed(massive, t)] = t
    BY <2>3, OwnPort
  <2> QED BY <2>1, <2>2, <2>4, <2>5
<1>3. scenarios' \in ScenarioLists /\ coupling' \in BOOLEAN /\ massive' \subseteq Terminals
      /\ linear_solver' \in {"Direct", "Iterative"} /\ static_weight' \in StaticWeights
      /\ sigmas' \subseteq Conductivities
  BY DEF M3TypeOK, config
<1> QED BY <1>1, <1>2, <1>3 DEF M3TypeOK

\* A step that leaves the operators alone.
LEMMA TypeFrame ==
  ASSUME M3TypeOK, PortsInv,
         UNCHANGED <<config, omega, port_of, port_operator, prepared>>,
         pc' \in Phases, runs' \in 0..MaxRuns, item' \in Nat \ {0}, factorizations' \in Nat
  PROVE  M3TypeOK' /\ PortsInv'
<1>1. massive' = massive /\ Columns' = Columns /\ Frequencies' = Frequencies
  BY DEF config, Columns, Frequencies, FrequencyPoints
<1>2. PortsInv'
  BY <1>1 DEF PortsInv, PortOf
<1>3. omega' \in Frequencies \cup {0} /\ prepared_omega' \in Frequencies \cup {0}
      /\ port_operator' \subseteq [active_omega : Frequencies, columns : {Columns}]
      /\ direct_solver' \subseteq Systems /\ preconditioner' \subseteq Systems
  BY DEF M3TypeOK, prepared
<1> QED BY <1>2, <1>3, TypeNext

\* What the series is made of does not change with the configuration kept.
LEMMA PointsKept ==
  ASSUME UNCHANGED config
  PROVE  /\ Points' = Points /\ Solves' = Solves /\ coupling' = coupling
         /\ FrequencyPoints' = FrequencyPoints /\ Frequencies' = Frequencies
         /\ Columns' = Columns /\ Plan' = Plan /\ massive' = massive
BY DEF config, Points, Solves, FrequencyPoints, FrequencyPoint, Frequencies, Columns, Plan

LEMMA ReadInitInv == Init => ReadInv
<1> SUFFICES ASSUME Init PROVE ReadInv
  OBVIOUS
<1>1. M3TypeOK
  BY Mqs3DAssumption DEF Init, M3TypeOK, Phases, Terminals
<1>2. FactoredOncePerPoint
  <2>1. Configured
    BY DEF Init, Configured
  <2>2. Cardinality(FrequencyPoints) \in Nat
    BY <2>1, PointsAreFinite, FS_CardinalityType
  <2> QED BY <2>2 DEF Init, FactoredOncePerPoint
<1> QED BY <1>1, <1>2 DEF Init, ReadInv, PortsInv, SeriesInv, LossesUseOwnPath

LEMMA SetupRead == ASSUME M3Inv', ReadInv, Setup PROVE ReadInv'
<1>1. UNCHANGED config /\ pc' = "ready" /\ runs' = runs /\ item' = item
      /\ factorizations' = factorizations
  BY DEF Setup, config, history
<1>2. Frequencies' = Frequencies /\ Columns' = Columns /\ FrequencyPoints' = FrequencyPoints
      /\ massive' = massive /\ coupling' = coupling
  BY <1>1, PointsKept
<1>3. OperatorInv'
  BY <1>1 DEF M3Inv, Live
<1>4. omega' \in Frequencies \cup {0}
      /\ port_operator' \subseteq [active_omega : Frequencies, columns : {Columns}]
  BY <1>2, <1>3 DEF OperatorInv, Frequencies
<1>5. PortsInv'
  BY <1>2 DEF Setup, PortsInv, PortOf
<1>6. M3TypeOK'
  <2>1. M3TypeOK
    BY DEF ReadInv
  <2>2. pc' \in Phases /\ runs' \in 0..MaxRuns /\ item' \in Nat \ {0} /\ factorizations' \in Nat
    BY <1>1, <2>1 DEF M3TypeOK, Phases
  <2>3. prepared_omega' \in Frequencies \cup {0} /\ direct_solver' \subseteq Systems
        /\ preconditioner' \subseteq Systems
    BY DEF Setup
  <2> QED BY <1>1, <1>4, <1>5, <2>1, <2>2, <2>3, TypeNext
<1>7. FactoredOncePerPoint'
  BY <1>1, <1>2 DEF ReadInv, FactoredOncePerPoint
<1>8. factorizations' = 0
  BY <1>1 DEF ReadInv, Setup
<1> QED BY <1>1, <1>5, <1>6, <1>7, <1>8 DEF ReadInv, SeriesInv, LossesUseOwnPath

\* A step to "failed" or "saved" that keeps what was prepared.
LEMMA StopRead ==
  ASSUME ReadInv,
         UNCHANGED <<config, omega, port_of, port_operator, prepared, runs, item, factorizations>>,
         pc' \in {"failed", "saved"}
  PROVE  ReadInv'
<1>1. M3TypeOK' /\ PortsInv'
  <2>1. pc' \in Phases /\ runs' \in 0..MaxRuns /\ item' \in Nat \ {0} /\ factorizations' \in Nat
    BY DEF ReadInv, M3TypeOK, Phases
  <2> QED BY <2>1, TypeFrame DEF ReadInv
<1>2. FactoredOncePerPoint'
  BY PointsKept DEF ReadInv, FactoredOncePerPoint
<1> QED BY <1>1, <1>2 DEF ReadInv, SeriesInv, LossesUseOwnPath

LEMMA SetupFailsRead == ASSUME M3Inv, ReadInv, SetupFails PROVE ReadInv'
<1>1. UNCHANGED config /\ pc' = "failed" /\ runs' = runs /\ item' = item
      /\ factorizations' = factorizations /\ UNCHANGED <<prepared, port_operator, port_of>>
  BY DEF SetupFails, config, history, prepared, operators
<1>2. Frequencies' = Frequencies /\ Columns' = Columns /\ FrequencyPoints' = FrequencyPoints
      /\ massive' = massive /\ coupling' = coupling
  BY <1>1, PointsKept
<1>3. M3TypeOK /\ PortsInv
  BY DEF ReadInv
<1>4. PortsInv'
  BY <1>1, <1>2, <1>3 DEF PortsInv, PortOf
<1>5. M3TypeOK'
  <2>1. pc' \in Phases /\ runs' \in 0..MaxRuns /\ item' \in Nat \ {0} /\ factorizations' \in Nat
    BY <1>1, <1>3 DEF M3TypeOK, Phases
  <2>2. omega' \in Frequencies \cup {0}
    BY PointsAreFinite DEF SetupFails, M3Inv, Frequencies
  <2>3. prepared_omega' \in Frequencies \cup {0} /\ direct_solver' \subseteq Systems
        /\ preconditioner' \subseteq Systems
        /\ port_operator' \subseteq [active_omega : Frequencies, columns : {Columns}]
    BY <1>1, <1>3 DEF M3TypeOK, prepared
  <2> QED BY <1>1, <1>3, <1>4, <2>1, <2>2, <2>3, TypeNext
<1>6. FactoredOncePerPoint'
  BY <1>1, <1>2 DEF ReadInv, FactoredOncePerPoint
<1> QED BY <1>1, <1>4, <1>5, <1>6 DEF ReadInv, SeriesInv, LossesUseOwnPath

\* A run starts with no point open.
LEMMA RunRead == ASSUME M3Inv, ReadInv, Run PROVE ReadInv'
<1>1. UNCHANGED <<config, omega, port_of, port_operator, prepared>> /\ pc' = "column"
      /\ item' = 1 /\ factorizations' = 0
  BY DEF Run, config, operators, prepared
<1>2. M3TypeOK' /\ PortsInv'
  <2>1. pc' \in Phases /\ runs' \in 0..MaxRuns /\ item' \in Nat \ {0} /\ factorizations' \in Nat
    BY <1>1, Mqs3DAssumption DEF Run, ReadInv, M3TypeOK, Phases
  <2> QED BY <1>1, <2>1, TypeFrame DEF ReadInv
<1>3. Points' = Points /\ Solves' = Solves /\ coupling' = coupling
      /\ FrequencyPoints' = FrequencyPoints
  BY <1>1, PointsKept
<1>4. ASSUME coupling PROVE SeriesInv' /\ FactoredOncePerPoint'
  <2>1. Cardinality(FrequencyPoints) \in Nat /\ Solves \in Nat
    BY <1>4, CouplingPlan DEF M3Inv
  <2>2. Quot' = 0 /\ Rem' = 0
    <3>1. 0 \in Nat /\ 0 \in 0..(NTerminals - 1) /\ NTerminals \in Nat \ {0}
          /\ 0 = NTerminals * 0 + 0
      BY Mqs3DAssumption
    <3>2. 0 = 0 \div NTerminals /\ 0 = 0 % NTerminals
      BY <3>1, Division
    <3>3. item' - 1 = 0
      BY <1>1
    <3> QED BY <3>2, <3>3 DEF Quot, Rem
  <2>3. Opened' = 0 /\ Gathered' = 0
    BY <1>1, <2>2 DEF Opened, Gathered
  <2>4. Series(Points, 0, 0, 0) = <<>>
    BY DEF Series
  <2>5. coupling_results' = Series(Points', Opened', Quot', Gathered')
    BY <1>3, <1>4, <2>2, <2>3, <2>4 DEF Run, ClearPoints
  <2> QED BY <1>1, <1>3, <2>1, <2>3, <2>5 DEF SeriesInv, FactoredOncePerPoint
<1> QED BY <1>1, <1>2, <1>3, <1>4
        DEF ReadInv, SeriesInv, FactoredOncePerPoint, LossesUseOwnPath

\* The first item of a point opens it; the others find it open.
LEMMA DriveRead == ASSUME M3Inv, M3Inv', ReadInv, Drive PROVE ReadInv'
<1>1. UNCHANGED <<config, port_of, prepared, runs, item, factorizations>> /\ pc' = "solve"
      /\ pc = "column"
  BY DEF Drive, config, operators, prepared, history
<1>2. Points' = Points /\ Solves' = Solves /\ coupling' = coupling /\ Columns' = Columns
      /\ FrequencyPoints' = FrequencyPoints /\ Frequencies' = Frequencies /\ massive' = massive
  BY <1>1, PointsKept
<1>3. OperatorInv /\ OperatorInv'
  BY <1>1 DEF M3Inv, Live
<1>4. PortsInv'
  BY <1>1, <1>2, <1>3 DEF ReadInv, PortsInv, PortOf, OperatorInv
<1>5. M3TypeOK'
  <2>1. M3TypeOK
    BY DEF ReadInv
  <2>2. pc' \in Phases /\ runs' \in 0..MaxRuns /\ item' \in Nat \ {0} /\ factorizations' \in Nat
    BY <1>1, <2>1 DEF M3TypeOK, Phases
  <2>3. omega' \in Frequencies \cup {0}
        /\ port_operator' \subseteq [active_omega : Frequencies, columns : {Columns}]
    BY <1>2, <1>3 DEF OperatorInv, Frequencies
  <2>4. prepared_omega' \in Frequencies \cup {0} /\ direct_solver' \subseteq Systems
        /\ preconditioner' \subseteq Systems
    BY <1>1, <2>1 DEF M3TypeOK, prepared
  <2> QED BY <1>1, <1>4, <2>1, <2>2, <2>3, <2>4, TypeNext
<1>6. ASSUME coupling PROVE SeriesInv'
  <2>1. item \in Nat \ {0} /\ Cardinality(FrequencyPoints) \in Nat /\ Solves \in Nat
        /\ Len(Plan) = Solves
    BY <1>6, CouplingPlan DEF M3Inv
  <2>2. item <= Solves /\ item \in 1..Solves
    BY <2>1 DEF Drive
  <2>3. Quot \in Nat /\ Rem \in 0..(NTerminals - 1)
    BY <2>1, ItemPoint
  <2>4. Quot' = Quot /\ Rem' = Rem /\ Opened' = Quot + 1 /\ Gathered' = Rem
    BY <1>1 DEF Quot, Rem, Opened, Gathered
  <2>5. OpensPoint <=> Rem = 0
    BY <1>6 DEF OpensPoint, Rem
  <2>6. /\ coupling_results' = Series(Points, Quot + 1, Quot, Rem)
        /\ omega' = Points[Quot + 1]
        /\ factorizations <= Quot + 1
        /\ prepared_omega # omega' => factorizations < Quot + 1
    <3>1. CASE Rem = 0
      <4>1. Opened = Quot /\ Gathered = 0
        BY <1>1, <3>1 DEF Opened, Gathered
      <4>2. coupling_results = Series(Points, Quot, Quot, 0) /\ factorizations <= Quot
        BY <1>1, <1>6, <3>1, <4>1 DEF ReadInv, SeriesInv
      <4>3. omega' = Plan[item].Frequency
            /\ coupling_results' = Append(coupling_results, [Frequency |-> omega', columns |-> {}])
        BY <1>6, <2>5, <3>1 DEF Drive
      <4>4. omega' = Points[Quot + 1]
        BY <1>6, <2>2, <4>3, CouplingPlan DEF M3Inv, Quot
      <4>5. coupling_results' = Series(Points, Quot + 1, Quot, 0)
        BY <2>3, <4>2, <4>3, <4>4, SeriesOpens
      <4>6. factorizations \in Nat
        BY DEF ReadInv, M3TypeOK
      <4> QED BY <2>3, <3>1, <4>2, <4>4, <4>5, <4>6
    <3>2. CASE Rem # 0
      <4>1. Opened = Quot + 1 /\ Gathered = Rem
        BY <1>1, <3>2 DEF Opened, Gathered
      <4>2. omega' = omega /\ coupling_results' = coupling_results
        BY <2>5, <3>2 DEF Drive
      <4> QED BY <1>1, <1>6, <2>3, <4>1, <4>2 DEF ReadInv, SeriesInv
    <3> QED BY <3>1, <3>2
  <2>7. item - 1 <= Solves
    BY <2>1, <2>2
  <2> QED BY <1>1, <1>2, <2>2, <2>4, <2>6, <2>7 DEF SeriesInv, prepared
<1>7. FactoredOncePerPoint'
  BY <1>1, <1>2 DEF ReadInv, FactoredOncePerPoint
<1> QED BY <1>1, <1>2, <1>4, <1>5, <1>6, <1>7 DEF ReadInv, SeriesInv, LossesUseOwnPath

LEMMA SolveRead == ASSUME M3Inv, M3Inv', ReadInv, Solve PROVE ReadInv'
<1>1. UNCHANGED <<config, omega, port_of, port_operator, runs, item, coupling_results>>
      /\ pc' = "gather" /\ pc = "solve"
  BY DEF Solve, config, operators, results
<1>2. Points' = Points /\ Solves' = Solves /\ coupling' = coupling /\ Columns' = Columns
      /\ FrequencyPoints' = FrequencyPoints /\ Frequencies' = Frequencies /\ massive' = massive
  BY <1>1, PointsKept
<1>3. PreparedInv' /\ OperatorInv /\ OperatorInv'
  BY <1>1 DEF M3Inv, Live
<1>4. prepared_omega' = omega
  BY DEF Solve, PrepareSolver, PreparedHit, prepared
<1>5. PortsInv'
  BY <1>1, <1>2 DEF ReadInv, PortsInv, PortOf
<1>6. factorizations' \in Nat
  BY DEF Solve, ReadInv, M3TypeOK
<1>7. M3TypeOK'
  <2>1. M3TypeOK
    BY DEF ReadInv
  <2>2. pc' \in Phases /\ runs' \in 0..MaxRuns /\ item' \in Nat \ {0}
    BY <1>1, <2>1 DEF M3TypeOK, Phases
  <2>3. omega \in Frequencies /\ omega' \in Frequencies \cup {0}
        /\ port_operator' \subseteq [active_omega : Frequencies, columns : {Columns}]
    BY <1>1, <1>2, <1>3, <2>1 DEF OperatorInv, Frequencies, M3TypeOK
  <2>4. System(omega, Columns)' \in Systems
    BY <1>1, <1>2, <2>3 DEF System, Systems
  <2>5. prepared_omega' \in Frequencies \cup {0} /\ direct_solver' \subseteq Systems
        /\ preconditioner' \subseteq Systems
    <3>1. prepared_omega' # 0
      BY <1>4, <1>3, PointsAreFinite DEF M3Inv, OperatorInv
    <3>2. direct_solver' \cup preconditioner' = {System(omega, Columns)'}
      BY <1>1, <1>3, <1>4, <3>1 DEF PreparedInv, System
    <3> QED BY <1>4, <2>3, <2>4, <3>2
  <2> QED BY <1>1, <1>5, <1>6, <2>1, <2>2, <2>3, <2>5, TypeNext
<1>8. ASSUME coupling PROVE SeriesInv' /\ FactoredOncePerPoint'
  <2>1. item \in Nat \ {0} /\ Cardinality(FrequencyPoints) \in Nat /\ Solves \in Nat
    BY <1>8, CouplingPlan DEF M3Inv
  <2>2. item <= Solves
    BY <1>1, <1>8 DEF ReadInv, SeriesInv
  <2>3. Quot \in Nat /\ Quot + 1 <= Cardinality(FrequencyPoints)
    BY <2>1, <2>2, ItemPoint
  <2>4. /\ Quot' = Quot /\ Rem' = Rem /\ Opened = Quot + 1 /\ Opened' = Quot + 1
        /\ Gathered' = Rem /\ Gathered = Rem
    BY <1>1 DEF Quot, Rem, Opened, Gathered
  <2>5. factorizations' <= Quot + 1
    <3>1. factorizations \in Nat
      BY DEF ReadInv, M3TypeOK
    <3>2. CASE PreparedHit
      BY <1>1, <1>8, <2>4, <3>1, <3>2 DEF Solve, ReadInv, SeriesInv
    <3>3. CASE ~PreparedHit
      <4>1. factorizations < Quot + 1
        BY <1>1, <1>8, <2>4, <3>3 DEF PreparedHit, ReadInv, SeriesInv
      <4> QED BY <2>3, <3>1, <3>3, <4>1 DEF Solve
    <3> QED BY <3>2, <3>3
  <2>6. SeriesInv'
    BY <1>1, <1>2, <1>4, <1>8, <2>2, <2>4, <2>5 DEF ReadInv, SeriesInv
  <2>7. FactoredOncePerPoint'
    BY <1>2, <1>6, <2>1, <2>3, <2>5 DEF FactoredOncePerPoint
  <2> QED BY <2>6, <2>7
<1> QED BY <1>1, <1>2, <1>5, <1>7, <1>8
        DEF ReadInv, SeriesInv, FactoredOncePerPoint, LossesUseOwnPath

\* A failed preparation leaves whatever it made, of the systems there are.
LEMMA SolveFailsRead == ASSUME M3Inv, ReadInv, SolveFails PROVE ReadInv'
<1>1. UNCHANGED <<config, omega, port_of, port_operator, runs, item, factorizations>>
      /\ pc' = "failed"
  BY DEF SolveFails, config, operators, history
<1>2. M3TypeOK /\ OperatorInv
  BY DEF ReadInv, M3Inv, SolveFails, Live
<1>3. coupling' = coupling /\ Columns' = Columns /\ massive' = massive
      /\ FrequencyPoints' = FrequencyPoints /\ Frequencies' = Frequencies
  BY <1>1, PointsKept
<1>4. PortsInv'
  BY <1>1, <1>3 DEF ReadInv, PortsInv, PortOf
<1>5. Packed \subseteq Systems /\ System(omega, Conductances) \in Systems
  <2>1. \A w \in Frequencies : System(w, Columns) \in Systems
    BY DEF System, Systems
  <2>2. Packed = {System(omega, Columns)}
    BY <1>2 DEF Packed, OperatorInv
  <2> QED BY <1>2, <2>1, <2>2, ConductancesMatch DEF OperatorInv, Frequencies
<1>6. prepared_omega' \in Frequencies \cup {0} /\ direct_solver' \subseteq Systems
      /\ preconditioner' \subseteq Systems
  <2>1. prepared_omega \in Frequencies \cup {0} /\ direct_solver \subseteq Systems
        /\ preconditioner \subseteq Systems /\ omega \in Frequencies
    BY <1>2 DEF M3TypeOK, OperatorInv, Frequencies
  <2> QED BY <1>5, <2>1 DEF SolveFails, PrepareSolver, prepared
<1>7. M3TypeOK'
  <2>1. pc' \in Phases /\ runs' \in 0..MaxRuns /\ item' \in Nat \ {0} /\ factorizations' \in Nat
        /\ omega' \in Frequencies \cup {0}
        /\ port_operator' \subseteq [active_omega : Frequencies, columns : {Columns}]
    BY <1>1, <1>2 DEF M3TypeOK, Phases
  <2> QED BY <1>1, <1>2, <1>4, <1>6, <2>1, TypeNext
<1>8. FactoredOncePerPoint'
  BY <1>1, <1>3 DEF ReadInv, FactoredOncePerPoint
<1> QED BY <1>1, <1>4, <1>7, <1>8 DEF ReadInv, SeriesInv, LossesUseOwnPath

\* Each column is read from the rows' own ports, and each loss from its own drive.
LEMMA GatherRead == ASSUME M3Inv, ReadInv, Gather PROVE ReadInv'
<1>1. UNCHANGED <<config, omega, port_of, port_operator, prepared, runs, item, factorizations>>
      /\ pc = "gather" /\ pc' = "save"
  BY DEF Gather, config, operators
<1>2. Points' = Points /\ Solves' = Solves /\ coupling' = coupling /\ massive' = massive
      /\ FrequencyPoints' = FrequencyPoints
  BY <1>1, PointsKept
<1>3. M3TypeOK' /\ PortsInv'
  <2>1. pc' \in Phases /\ runs' \in 0..MaxRuns /\ item' \in Nat \ {0} /\ factorizations' \in Nat
    BY <1>1 DEF ReadInv, M3TypeOK, Phases
  <2> QED BY <1>1, <2>1, TypeFrame DEF ReadInv
<1>4. Numbered
  BY <1>1 DEF M3Inv, Live, OperatorInv, ReadInv, M3TypeOK, PortsInv, Numbered
<1>5. FactoredOncePerPoint'
  BY <1>1, <1>2 DEF ReadInv, FactoredOncePerPoint
<1>6. LossesUseOwnPath'
  <2> SUFFICES ASSUME ~coupling
               PROVE  DOMAIN losses' = massive
                      /\ \A t \in massive : losses'[t] = [path |-> t, voltage |-> {t}]
    BY <1>2 DEF LossesUseOwnPath
  <2> DEFINE v(t) == [path |-> t, voltage |-> {t}]
  <2>1. losses' = [t \in massive |-> v(t)]
    BY <1>4, FieldIsOwn DEF Gather
  <2> HIDE DEF v
  <2>2. DOMAIN losses' = massive /\ \A t \in massive : losses'[t] = v(t)
    BY <2>1
  <2> QED BY <2>2 DEF v
<1>7. ASSUME coupling PROVE SeriesInv'
  <2>1. item \in Nat \ {0} /\ Cardinality(FrequencyPoints) \in Nat /\ Solves \in Nat
    BY <1>7, CouplingPlan DEF M3Inv
  <2>2. item <= Solves /\ item \in 1..Solves
    BY <1>1, <1>7, <2>1 DEF ReadInv, SeriesInv
  <2>3. Quot \in Nat /\ Rem \in Nat
    BY <2>1, ItemPoint
  <2>4. /\ Quot' = Quot /\ Rem' = Rem /\ Opened = Quot + 1 /\ Opened' = Quot + 1
        /\ Gathered' = Rem + 1 /\ Gathered = Rem
    BY <1>1 DEF Quot, Rem, Opened, Gathered
  <2>5. coupling_results = Series(Points, Quot + 1, Quot, Rem) /\ omega = Points[Quot + 1]
    BY <1>1, <1>7, <2>3, <2>4 DEF ReadInv, SeriesInv
  <2>6. Len(coupling_results) = Quot + 1
    <3> DEFINE e(i) == [Frequency |-> Points[i],
                        columns |-> {Column(Points[i], t) :
                                       t \in 1..(IF i <= Quot THEN NTerminals ELSE Rem)}]
    <3>1. coupling_results = [i \in 1..(Quot + 1) |-> e(i)]
      BY <2>5 DEF Series
    <3> HIDE DEF e
    <3> QED BY <2>3, <3>1
  <2>7. Plan[item].driven = {Rem + 1}
    BY <1>7, <2>2, CouplingPlan DEF M3Inv, Rem
  <2>8. [t \in Terminals |-> ReadRow(t)] = [t \in Terminals |-> {t}]
    BY <1>4, RowIsOwn
  <2>9. coupling_results' =
          [coupling_results EXCEPT ![Quot + 1].columns = @ \cup {Column(Points[Quot + 1], Rem + 1)}]
    BY <1>7, <2>5, <2>6, <2>7, <2>8, Zenon DEF Gather, Column
  <2>10. coupling_results' = Series(Points, Quot + 1, Quot, Rem + 1)
    BY <2>3, <2>5, <2>9, SeriesFills
  <2> QED BY <1>1, <1>2, <1>7, <2>2, <2>4, <2>10 DEF ReadInv, SeriesInv, prepared
<1> QED BY <1>1, <1>2, <1>3, <1>5, <1>6, <1>7 DEF ReadInv, SeriesInv

\* The last column of a point completes it.
LEMMA SaveRead == ASSUME M3Inv, ReadInv, SaveScenario PROVE ReadInv'
<1>1. UNCHANGED <<config, omega, port_of, port_operator, prepared, runs, factorizations>>
      /\ pc = "save" /\ pc' = "column" /\ item' = item + 1
      /\ coupling_results' = coupling_results
  BY DEF SaveScenario, config, operators, history, results
<1>2. Points' = Points /\ Solves' = Solves /\ coupling' = coupling
      /\ FrequencyPoints' = FrequencyPoints
  BY <1>1, PointsKept
<1>3. M3TypeOK' /\ PortsInv'
  <2>1. pc' \in Phases /\ runs' \in 0..MaxRuns /\ item' \in Nat \ {0} /\ factorizations' \in Nat
    BY <1>1 DEF ReadInv, M3TypeOK, Phases
  <2> QED BY <1>1, <2>1, TypeFrame DEF ReadInv
<1>4. FactoredOncePerPoint'
  BY <1>1, <1>2 DEF ReadInv, FactoredOncePerPoint
<1>5. ASSUME coupling PROVE SeriesInv'
  <2>1. item \in Nat \ {0} /\ Cardinality(FrequencyPoints) \in Nat /\ Solves \in Nat
    BY <1>5, CouplingPlan DEF M3Inv
  <2>2. item <= Solves
    BY <1>1, <1>5 DEF ReadInv, SeriesInv
  <2>3. Quot \in Nat /\ Rem \in 0..(NTerminals - 1) /\ NTerminals \in Nat \ {0}
    BY <2>1, ItemPoint, Mqs3DAssumption
  <2>4. Opened = Quot + 1 /\ Gathered = Rem + 1
    BY <1>1 DEF Opened, Gathered
  <2>5. /\ coupling_results = Series(Points, Quot + 1, Quot, Rem + 1)
        /\ omega = Points[Quot + 1] /\ factorizations <= Quot + 1 /\ prepared_omega = omega
    BY <1>1, <1>5, <2>3, <2>4 DEF ReadInv, SeriesInv
  <2>6. /\ Rem + 1 = NTerminals => Quot' = Quot + 1 /\ Rem' = 0
        /\ Rem + 1 # NTerminals => Quot' = Quot /\ Rem' = Rem + 1
    <3> DEFINE a == item - 1
    <3>1. a \in Nat /\ item' - 1 = a + 1
      BY <1>1, <2>1
    <3> HIDE DEF a
    <3>2. /\ (a % NTerminals) + 1 = NTerminals =>
               (a + 1) \div NTerminals = (a \div NTerminals) + 1 /\ (a + 1) % NTerminals = 0
          /\ (a % NTerminals) + 1 # NTerminals =>
               (a + 1) \div NTerminals = a \div NTerminals
               /\ (a + 1) % NTerminals = (a % NTerminals) + 1
      BY <2>3, <3>1, DivisionStep, Zenon
    <3>3. Quot = a \div NTerminals /\ Rem = a % NTerminals
      BY DEF Quot, Rem, a
    <3>4. Quot' = (a + 1) \div NTerminals /\ Rem' = (a + 1) % NTerminals
      BY <3>1 DEF Quot, Rem
    <3> QED BY <3>2, <3>3, <3>4, Zenon
  <2>7. Opened' = Quot + 1 /\ Gathered' = Rem'
    BY <1>1, <2>3, <2>6 DEF Opened, Gathered
  <2>8. coupling_results' = Series(Points, Quot + 1, Quot', Rem')
    <3>1. CASE Rem + 1 = NTerminals
      BY <1>1, <2>3, <2>5, <2>6, <3>1, SeriesCloses
    <3>2. CASE Rem + 1 # NTerminals
      BY <1>1, <2>5, <2>6, <3>2
    <3> QED BY <3>1, <3>2
  <2>9. item' - 1 <= Solves
    BY <1>1, <2>1, <2>2
  <2> QED BY <1>1, <1>2, <2>5, <2>7, <2>8, <2>9 DEF SeriesInv, prepared
<1> QED BY <1>1, <1>2, <1>3, <1>4, <1>5 DEF ReadInv, SeriesInv, LossesUseOwnPath

LEMMA EndRead == ASSUME M3Inv, ReadInv, EndRun PROVE ReadInv'
<1>1. UNCHANGED <<config, omega, port_of, port_operator, prepared, runs, item, factorizations>>
      /\ pc = "column" /\ pc' = "ran" /\ coupling_results' = coupling_results
  BY DEF EndRun, config, operators, history, results
<1>2. Points' = Points /\ Solves' = Solves /\ coupling' = coupling
      /\ FrequencyPoints' = FrequencyPoints
  BY <1>1, PointsKept
<1>3. M3TypeOK' /\ PortsInv'
  <2>1. pc' \in Phases /\ runs' \in 0..MaxRuns /\ item' \in Nat \ {0} /\ factorizations' \in Nat
    BY <1>1 DEF ReadInv, M3TypeOK, Phases
  <2> QED BY <1>1, <2>1, TypeFrame DEF ReadInv
<1>4. FactoredOncePerPoint'
  BY <1>1, <1>2 DEF ReadInv, FactoredOncePerPoint
<1>5. ASSUME coupling PROVE SeriesInv'
  <2>1. item \in Nat \ {0} /\ Solves \in Nat /\ Len(Plan) = Solves
    BY <1>5, CouplingPlan DEF M3Inv
  <2>2. item - 1 <= Solves /\ item > Solves
    BY <1>1, <1>5, <2>1 DEF ReadInv, SeriesInv, EndRun, PlanDone
  <2>3. item - 1 = Solves
    BY <2>1, <2>2
  <2>4. Quot' = Quot /\ Rem' = Rem /\ Opened' = Opened /\ Gathered' = Gathered
    BY <1>1 DEF Quot, Rem, Opened, Gathered
  <2> QED BY <1>1, <1>2, <1>5, <2>3, <2>4 DEF ReadInv, SeriesInv, prepared
<1> QED BY <1>1, <1>2, <1>3, <1>4, <1>5 DEF ReadInv, SeriesInv, LossesUseOwnPath

LEMMA ReadNextInv == M3Inv /\ M3Inv' /\ ReadInv /\ [Next]_vars => ReadInv'
<1> SUFFICES ASSUME M3Inv, M3Inv', ReadInv, [Next]_vars PROVE ReadInv'
  OBVIOUS
<1>1. CASE Setup
  BY <1>1, SetupRead
<1>2. CASE SetupFails
  BY <1>2, SetupFailsRead
<1>3. CASE Run
  BY <1>3, RunRead
<1>4. CASE Drive
  BY <1>4, DriveRead
<1>5. CASE Solve
  BY <1>5, SolveRead
<1>6. CASE SolveFails
  BY <1>6, SolveFailsRead
<1>7. CASE Gather
  BY <1>7, GatherRead
<1>8. CASE SaveScenario
  BY <1>8, SaveRead
<1>9. CASE WriteFails
  <2>1. UNCHANGED <<config, omega, port_of, port_operator, prepared, runs, item, factorizations>>
        /\ pc' \in {"failed", "saved"}
    BY <1>9 DEF WriteFails, operators, history
  <2> QED BY <2>1, StopRead
<1>10. CASE EndRun
  BY <1>10, EndRead
<1>11. CASE SaveAnalysis
  <2>1. UNCHANGED <<config, omega, port_of, port_operator, prepared, runs, item, factorizations>>
        /\ pc' \in {"failed", "saved"}
    BY <1>11 DEF SaveAnalysis, operators, history
  <2> QED BY <2>1, StopRead
<1>12. CASE UNCHANGED vars
  <2>1. UNCHANGED <<config, omega, port_of, port_operator, prepared, runs, item, factorizations,
                    pc, losses, coupling_results>>
    BY <1>12 DEF vars, config, operators, prepared, results, history
  <2>2. M3TypeOK' /\ PortsInv'
    <3>1. pc' \in Phases /\ runs' \in 0..MaxRuns /\ item' \in Nat \ {0} /\ factorizations' \in Nat
      BY <2>1 DEF ReadInv, M3TypeOK
    <3> QED BY <2>1, <3>1, TypeFrame DEF ReadInv
  <2>3. Points' = Points /\ Solves' = Solves /\ coupling' = coupling /\ massive' = massive
        /\ FrequencyPoints' = FrequencyPoints
    BY <2>1, PointsKept
  <2>4. Quot' = Quot /\ Rem' = Rem /\ Opened' = Opened /\ Gathered' = Gathered
    BY <2>1 DEF Quot, Rem, Opened, Gathered
  <2>5. SeriesInv'
    BY <2>1, <2>3, <2>4 DEF ReadInv, SeriesInv, prepared
  <2> QED BY <2>1, <2>2, <2>3, <2>5 DEF ReadInv, FactoredOncePerPoint, LossesUseOwnPath
<1> QED
  BY <1>1, <1>2, <1>3, <1>4, <1>5, <1>6, <1>7, <1>8, <1>9, <1>10, <1>11, <1>12 DEF Next, Step

\* ReadInv holds throughout: a coupling run's series is always whole up to the
\* column that is being solved, and the ports number the massive conductors.
THEOREM ReadingsInvariance == Spec => []ReadInv
<1>1. Init => M3Inv /\ ReadInv
  BY M3InitInv, ReadInitInv
<1>2. M3Inv /\ ReadInv /\ [Next]_vars => (M3Inv /\ ReadInv)'
  BY M3NextInv, ReadNextInv
<1> QED BY <1>1, <1>2, PTL DEF Spec

\* For any number of conductors, frequencies and runs, the series that Run returns
\* has every point once and every column of it, each row is read from the row's own
\* port, each loss from its own path and voltage, and a point is factored at most once
\* (the port loop of Setup, the sweep of Run, MakeElectricField).
THEOREM ReadingsOwn == Spec => []ReadingsAreOwn
<1>1. M3Inv /\ ReadInv => ReadingsAreOwn
  BY SeriesIsWhole DEF M3Inv, ReadInv, ReadingsAreOwn
<1> QED BY <1>1, Invariance3D, ReadingsInvariance, PTL

-----------------------------------------------------------------------------
(* A run implements its contract.                                          *)

Ans(plan, i) ==
  [item |-> i, meshes |-> {0}, frequencies |-> {plan[i].Frequency}, driven |-> plan[i].driven]

\* The first k answers of a plan.
Answered(plan, k) == {Ans(plan, i) : i \in 1..k}

\* The first k answers are k answers: no two items have the same.
LEMMA AnswersCounted ==
  ASSUME NEW plan, NEW k \in Nat
  PROVE  Cardinality(Answered(plan, k)) = k
<1> DEFINE a == [i \in 1..k |-> Ans(plan, i)]
<1>1. \A i \in 1..k : a[i] = Ans(plan, i) /\ a[i].item = i
  BY DEF Ans
<1> HIDE DEF a
<1>2. Answered(plan, k) = {a[i] : i \in 1..k}
  BY <1>1 DEF Answered
<1>3. Cardinality({a[i] : i \in 1..k}) = k
  BY <1>1, NumberedCount
<1> QED BY <1>2, <1>3

\* The items of the plan, which drive terminals at a frequency of the scenarios.
LEMMA PlanItems ==
  ASSUME Configured
  PROVE  /\ Len(Plan) \in Nat /\ DOMAIN Plan = 1..Len(Plan)
         /\ \A i \in 1..Len(Plan) : Plan[i].driven \subseteq Terminals
<1> USE Mqs3DAssumption
<1>1. Len(scenarios) \in Nat /\ DOMAIN scenarios = 1..Len(scenarios)
  BY PointsAreFinite
<1>2. CASE ~coupling
  <2> DEFINE R == [name : STRING, Frequency : Nat \ {0}, driven : SUBSET Terminals]
             e(k) == [Frequency |-> scenarios[k].Frequency, driven |-> scenarios[k].driven]
             m == Len(scenarios)
  <2>1. Plan = [k \in 1..m |-> e(k)]
    BY <1>1, <1>2 DEF Plan
  <2>2. \A k \in 1..m : scenarios[k].driven \subseteq Terminals
    <3>1. scenarios \in Seq(R)
      BY DEF Configured
    <3> HIDE DEF R
    <3>2. \A k \in 1..m : scenarios[k] \in R
      BY <1>1, <3>1
    <3> QED BY <3>2 DEF R
  <2>3. \A k \in 1..m : e(k).driven = scenarios[k].driven
    OBVIOUS
  <2> HIDE DEF e
  <2>4. Len(Plan) = m /\ DOMAIN Plan = 1..m
    BY <1>1, <2>1
  <2> QED BY <1>1, <2>1, <2>2, <2>3, <2>4
<1>3. CASE coupling
  <2> DEFINE e(k) == [Frequency |-> FrequencyPoint(((k - 1) \div NTerminals) + 1),
                      driven |-> {((k - 1) % NTerminals) + 1}]
  <2>1. /\ Cardinality(FrequencyPoints) \in Nat /\ Solves \in Nat /\ Len(Plan) = Solves
        /\ \A i \in 1..Solves : Plan[i].driven = {((i - 1) % NTerminals) + 1}
    BY <1>3, CouplingPlan
  <2>2. Plan = [k \in 1..Solves |-> e(k)]
    BY <1>3 DEF Plan, Solves
  <2> HIDE DEF e
  <2>3. DOMAIN Plan = 1..Solves
    BY <2>2
  <2>4. ASSUME NEW i \in 1..Solves PROVE ((i - 1) % NTerminals) + 1 \in Terminals
    <3>1. i - 1 \in Nat /\ NTerminals \in Nat \ {0}
      BY <2>1
    <3> DEFINE a == i - 1
    <3> HIDE DEF a
    <3>2. a % NTerminals \in 0..(NTerminals - 1)
      BY <3>1, Division DEF a
    <3> QED BY <3>1, <3>2 DEF a, Terminals
  <2> QED BY <2>1, <2>3, <2>4
<1> QED BY <1>2, <1>3

\* The load of a solve drives exactly what it is given: every terminal is either
\* a port or a stranded conductor.
LEMMA LoadDrivesAll ==
  ASSUME port_of = [t \in Terminals |-> PortOf(t)], massive \subseteq Terminals,
         NEW w, NEW driven \in SUBSET Terminals
  PROVE  LET b == RightHandSide(w, driven)
         IN b.omega = w /\ {d[2] : d \in b.ports} \cup b.loads = driven
<1> DEFINE b == RightHandSide(w, driven)
           P == {t \in driven : port_of[t] > 0}
           v(t) == <<port_of[t], t>>
<1>1. b.omega = w /\ b.ports = {v(t) : t \in P}
      /\ b.loads = {t \in driven : port_of[t] = 0}
  BY DEF RightHandSide
<1>2. {d[2] : d \in b.ports} = P
  <2>1. \A t \in P : v(t)[2] = t
    OBVIOUS
  <2> HIDE DEF v, P, b
  <2> QED BY <1>1, <2>1
<1>3. \A t \in driven : port_of[t] > 0 \/ port_of[t] = 0
  <2>1. \A t \in massive : port_of[t] > 0
    BY ColumnOfPort
  <2>2. \A t \in driven : t \notin massive => port_of[t] = 0
    BY DEF PortOf
  <2> QED BY <2>1, <2>2
<1> HIDE DEF b
<1>4. P \cup b.loads = driven
  BY <1>1, <1>3
<1> QED BY <1>1, <1>2, <1>4 DEF b

Solving == pc \in {"solve", "gather", "save"}

\* What has been read is the answer of every item before the current one, the current
\* one's included once it is gathered; and what is being solved is the current item.
AnswerInv ==
  /\ pc \in {"column", "solve", "gather", "save"} =>
       /\ item - 1 <= Len(Plan)
       /\ observed = Answered(Plan, IF pc = "save" THEN item ELSE item - 1)
  /\ Solving => item <= Len(Plan) /\ omega = Plan[item].Frequency
  /\ pc = "solve" => rhs = {RightHandSide(omega, Plan[item].driven)}
  /\ pc = "gather" =>
       \E s, a : /\ s.omega = omega /\ a.omega = omega
                 /\ solution = {[factors |-> s, applied |-> a,
                                 rhs |-> RightHandSide(omega, Plan[item].driven)]}

LEMMA AnsweredNext ==
  ASSUME NEW plan, NEW k \in Nat \ {0}
  PROVE  Answered(plan, k) = Answered(plan, k - 1) \cup {Ans(plan, k)}
<1>1. 1..k = (1..(k - 1)) \cup {k}
  OBVIOUS
<1> QED BY <1>1 DEF Answered

\* What Gather adds to what was read is the answer of the current item.
LEMMA GatherAnswers ==
  ASSUME M3Inv, ReadInv, AnswerInv, Gather
  PROVE  observed' = observed \cup {Ans(Plan, item)}
<1>1. pc = "gather" /\ Live /\ item \in Nat \ {0} /\ Configured /\ massive \subseteq Terminals
  BY DEF Gather, Live, M3Inv, ReadInv, M3TypeOK
<1>2. port_of = [t \in Terminals |-> PortOf(t)]
  BY <1>1 DEF M3Inv, OperatorInv, ReadInv, PortsInv
<1>3. item <= Len(Plan) /\ omega = Plan[item].Frequency
  BY <1>1 DEF AnswerInv, Solving
<1>4. Plan[item].driven \in SUBSET Terminals
  BY <1>1, <1>3, PlanItems
<1> DEFINE b == RightHandSide(omega, Plan[item].driven)
<1>5. b.omega = omega /\ {d[2] : d \in b.ports} \cup b.loads = Plan[item].driven
  BY <1>1, <1>2, <1>4, LoadDrivesAll
<1>6. PICK s, a : /\ s.omega = omega /\ a.omega = omega
                  /\ solution = {[factors |-> s, applied |-> a, rhs |-> b]}
  BY <1>1 DEF AnswerInv
<1> DEFINE x == [factors |-> s, applied |-> a, rhs |-> b]
<1>7. Observed(x) = Ans(Plan, item)
  <2> HIDE DEF b
  <2>1. x.factors.omega = omega /\ x.applied.omega = omega /\ x.rhs.omega = omega
        /\ {d[2] : d \in x.rhs.ports} \cup x.rhs.loads = Plan[item].driven
    BY <1>5, <1>6
  <2> HIDE DEF x
  <2> QED BY <1>3, <2>1 DEF Observed, Ans
<1> HIDE DEF x
<1>8. {Observed(y) : y \in solution} = {Observed(x)}
  BY <1>6 DEF x
<1> QED BY <1>7, <1>8 DEF Gather

LEMMA AnswerNextInv ==
  ASSUME M3Inv, M3Inv', ReadInv, AnswerInv, [Next]_vars PROVE AnswerInv'
<1>1. Configured /\ item \in Nat \ {0} /\ Len(Plan) \in Nat
  BY PlanItems DEF M3Inv
<1>2. ASSUME UNCHANGED config PROVE Plan' = Plan
  BY <1>2, PointsKept
<1>3. CASE Setup \/ SetupFails \/ SolveFails \/ WriteFails \/ EndRun \/ SaveAnalysis
  <2>1. pc' \in {"ready", "failed", "ran", "saved"}
    BY <1>3 DEF Setup, SetupFails, SolveFails, WriteFails, EndRun, SaveAnalysis
  <2> QED BY <2>1 DEF AnswerInv, Solving
<1>4. CASE Run
  <2>1. Plan' = Plan /\ item' = 1 /\ pc' = "column" /\ observed' = {}
    BY <1>2, <1>4 DEF Run
  <2>2. Answered(Plan, 0) = {}
    BY DEF Answered
  <2> QED BY <1>1, <2>1, <2>2 DEF AnswerInv, Solving
<1>5. CASE Drive
  <2>1. Plan' = Plan /\ item' = item /\ pc = "column" /\ pc' = "solve" /\ observed' = observed
        /\ item <= Len(Plan) /\ port_of' = port_of
    BY <1>2, <1>5 DEF Drive, history, operators
  <2>2. omega' = Plan[item].Frequency
    <3>1. CASE OpensPoint
      BY <1>5, <3>1 DEF Drive
    <3>2. CASE ~OpensPoint
      <4>1. coupling /\ Rem # 0
        BY <3>2 DEF OpensPoint, Rem
      <4>2. Opened = Quot + 1 /\ Quot \in Nat /\ item \in 1..Solves
        BY <1>1, <2>1, <4>1, ItemPoint, CouplingPlan DEF Opened
      <4>3. omega = Points[Quot + 1]
        BY <2>1, <4>1, <4>2 DEF ReadInv, SeriesInv
      <4>4. Plan[item].Frequency = Points[Quot + 1]
        BY <1>1, <4>1, <4>2, CouplingPlan DEF Quot
      <4> QED BY <1>5, <3>2, <4>3, <4>4 DEF Drive
    <3> QED BY <3>1, <3>2
  <2>3. rhs' = {RightHandSide(omega, Plan[item].driven)'}
    BY <1>5, <2>1 DEF Drive, RightHandSide
  <2> QED BY <2>1, <2>2, <2>3 DEF AnswerInv, Solving
<1>6. CASE Solve
  <2>1. Plan' = Plan /\ item' = item /\ pc = "solve" /\ pc' = "gather" /\ observed' = observed
        /\ omega' = omega /\ port_of' = port_of /\ Columns' = Columns /\ UNCHANGED operators
    BY <1>2, <1>6, PointsKept DEF Solve, operators
  <2>2. OperatorInv /\ PreparedInv'
    BY <2>1 DEF M3Inv, Live
  <2>3. prepared_omega' = omega /\ omega # 0
    BY <1>1, <1>6, <2>2, PointsAreFinite DEF Solve, PrepareSolver, PreparedHit, prepared, OperatorInv
  <2> DEFINE s == System(omega, Columns)
             b == RightHandSide(omega, Plan[item].driven)
  <2>4. direct_solver' \cup preconditioner' = {s}
    BY <2>1, <2>2, <2>3 DEF PreparedInv, System, operators
  <2>5. Packed = {s} /\ s.omega = omega
    BY <2>2 DEF Packed, OperatorInv, System
  <2>6. rhs = {b}
    BY <2>1 DEF AnswerInv
  <2>7. b = RightHandSide(omega, Plan[item].driven)'
    BY <2>1 DEF RightHandSide
  <2> HIDE DEF s, b
  <2>8. solution' = {[factors |-> s, applied |-> s, rhs |-> b]}
    BY <1>6, <2>4, <2>5, <2>6 DEF Solve
  <2> QED BY <2>1, <2>5, <2>7, <2>8 DEF AnswerInv, Solving
<1>7. CASE Gather
  <2>1. Plan' = Plan /\ item' = item /\ pc = "gather" /\ pc' = "save" /\ omega' = omega
    BY <1>2, <1>7 DEF Gather
  <2>2. observed' = Answered(Plan, item)
    BY <1>1, <1>7, <2>1, GatherAnswers, AnsweredNext DEF AnswerInv
  <2> QED BY <2>1, <2>2 DEF AnswerInv, Solving
<1>8. CASE SaveScenario
  <2>1. Plan' = Plan /\ item' = item + 1 /\ pc = "save" /\ pc' = "column"
        /\ observed' = observed
    BY <1>2, <1>8 DEF SaveScenario, history
  <2> QED BY <1>1, <2>1 DEF AnswerInv, Solving
<1>9. CASE UNCHANGED vars
  <2>1. Plan' = Plan /\ item' = item /\ pc' = pc /\ omega' = omega /\ observed' = observed
        /\ rhs' = rhs /\ solution' = solution /\ port_of' = port_of
    BY <1>2, <1>9 DEF vars, operators, history
  <2>2. RightHandSide(omega, Plan[item].driven)' = RightHandSide(omega, Plan[item].driven)
    BY <2>1 DEF RightHandSide
  <2> QED BY <2>1, <2>2 DEF AnswerInv, Solving
<1> QED BY <1>3, <1>4, <1>5, <1>6, <1>7, <1>8, <1>9 DEF Next, Step

\* The answers of the contract.
LEMMA AnswersOfPlan ==
  ASSUME Configured
  PROVE  /\ Contract!Answers = Answered(Plan, Len(Plan))
         /\ \A i : Contract!Answer(i) = Ans(Plan, i)
<1>1. \A i : Contract!Answer(i) = Ans(Plan, i)
  BY DEF Contract!Answer, Ans
<1> QED BY <1>1, PlanItems DEF Contract!Answers, Answered

\* Gather answers, the start and the end of a run start and finish, an exception
\* fails, and every other step leaves what the contract sees alone.
LEMMA StepKeepsContract ==
  ASSUME M3Inv, ReadInv, AnswerInv, [Next]_vars
  PROVE  [Contract!CNext]_(Contract!cvars)
<1>1. Configured /\ item \in Nat \ {0} /\ Len(Plan) \in Nat /\ DOMAIN Plan = 1..Len(Plan)
  BY PlanItems DEF M3Inv
<1>2. ASSUME UNCHANGED config PROVE Plan' = Plan
  BY <1>2, PointsKept
<1>3. ASSUME Plan' = Plan, observed' = observed, Status' = Status
      PROVE  UNCHANGED Contract!cvars
  BY <1>3 DEF Contract!cvars
<1>4. CASE Setup \/ SaveAnalysis
  <2>1. Plan' = Plan /\ observed' = observed /\ Status' = Status
    BY <1>2, <1>4 DEF Setup, SaveAnalysis, history, Status
  <2> QED BY <1>3, <2>1
<1>5. CASE Drive \/ Solve \/ SaveScenario
  <2>1. Plan' = Plan /\ observed' = observed /\ Status' = Status
    BY <1>2, <1>5 DEF Drive, Solve, SaveScenario, history, Status
  <2> QED BY <1>3, <2>1
<1>6. CASE SetupFails \/ SolveFails \/ WriteFails
  <2>1. Plan' = Plan /\ observed' = observed /\ Status' = "failed"
    BY <1>2, <1>6 DEF SetupFails, SolveFails, WriteFails, history, Status
  <2> QED BY <2>1 DEF Contract!CNext, Contract!Fail
<1>7. CASE Run
  <2>1. Plan' = Plan /\ observed' = {} /\ Status = "idle" /\ Status' = "running"
    BY <1>2, <1>7 DEF Run, Status
  <2> QED BY <2>1 DEF Contract!CNext, Contract!Start
<1>8. CASE Gather
  <2>1. Plan' = Plan /\ Status = "running" /\ Status' = "running"
    BY <1>2, <1>8 DEF Gather, Status
  <2>2. item \in DOMAIN Plan /\ observed = Answered(Plan, item - 1)
    BY <1>1, <1>8 DEF Gather, AnswerInv, Solving
  <2>3. Cardinality(observed) = item - 1
    BY <1>1, <2>2, AnswersCounted
  <2>4. observed' = observed \cup {Contract!Answer(item)}
    BY <1>1, <1>8, GatherAnswers, AnswersOfPlan
  <2>5. item = Contract!Cardinality(observed) + 1
    <3>1. Contract!Cardinality(observed) = Cardinality(observed)
      BY DEF Contract!Cardinality, Cardinality
    <3> QED BY <1>1, <2>3, <3>1
  <2> QED BY <2>1, <2>2, <2>4, <2>5 DEF Contract!CNext, Contract!Solve
<1>9. CASE EndRun
  <2>1. Plan' = Plan /\ observed' = observed /\ Status = "running" /\ Status' = "idle"
    BY <1>2, <1>9 DEF EndRun, history, Status
  <2>2. item - 1 <= Len(Plan) /\ item > Len(Plan) /\ observed = Answered(Plan, item - 1)
    BY <1>9 DEF EndRun, PlanDone, AnswerInv
  <2>3. observed = Contract!Answers
    <3>1. item - 1 = Len(Plan)
      BY <1>1, <2>2
    <3> QED BY <1>1, <2>2, <3>1, AnswersOfPlan
  <2> QED BY <2>1, <2>3 DEF Contract!CNext, Contract!Finish
<1>10. CASE UNCHANGED vars
  <2>1. Plan' = Plan /\ observed' = observed /\ Status' = Status
    BY <1>2, <1>10 DEF vars, history, Status
  <2> QED BY <1>3, <2>1
<1> QED BY <1>4, <1>5, <1>6, <1>7, <1>8, <1>9, <1>10 DEF Next, Step

\* The 3D solver's run implements RunContract: what is read from every solution is of
\* one frequency, the item's own, and of the item's own drive, and a run ends only
\* when the whole plan is answered, whatever was prepared before.
THEOREM RunsTheContract3D == Spec => Contract!CSpec
<1>1. Init => Contract!CInit /\ AnswerInv
  BY DEF Init, Contract!CInit, AnswerInv, Solving, Status
<1>2. M3Inv /\ M3Inv' /\ ReadInv /\ AnswerInv /\ [Next]_vars => AnswerInv'
  BY AnswerNextInv
<1>3. M3Inv /\ ReadInv /\ AnswerInv /\ [Next]_vars => [Contract!CNext]_(Contract!cvars)
  BY StepKeepsContract
<1> QED BY <1>1, <1>2, <1>3, Invariance3D, ReadingsInvariance, PTL DEF Spec, Contract!CSpec
==============================================================================
