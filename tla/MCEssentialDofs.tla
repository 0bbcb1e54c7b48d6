--------------------------- MODULE MCEssentialDofs ---------------------------
(* TLC instance of EssentialDofs: a pentagon with one edge inside, so that three *)
(* boundary elements meet at a vertex.  The axis, if there is one, is along two   *)
(* of the edges, or touched at one vertex.                                   *)
EXTENDS EssentialDofs

EdgesDef == {{1, 2}, {2, 3}, {3, 4}, {4, 5}, {5, 1}, {2, 4}}
Around(a, b, c, d, e, f) ==
  [edge \in EdgesDef |-> CASE edge = {1, 2} -> a [] edge = {2, 3} -> b [] edge = {3, 4} -> c
                           [] edge = {4, 5} -> d [] edge = {5, 1} -> e [] edge = {2, 4} -> f]
\* Attribute 1 is the whole axis; part of it; more than it; none; a tip has none.
MagneticTags ==
  {Around(1, 1, 2, 2, 3, 0), Around(1, 0, 2, 2, 3, 0), Around(1, 2, 2, 3, 3, 0),
   Around(0, 0, 2, 2, 3, 0), Around(1, 1, 2, 3, 3, 3), Around(2, 0, 2, 3, 0, 0)}
ElectrostaticTags ==
  {Around(1, 1, 2, 2, 3, 0), Around(1, 0, 2, 0, 3, 0), Around(1, 2, 3, 0, 0, 0),
   Around(0, 0, 1, 2, 0, 3)}

Condition(t, m, v, c) == [type |-> t, marker |-> m, value |-> v, coeff |-> c]
Single ==
  {Condition("dirichlet", {a}, v, 0) : a \in 1..3, v \in {0, 1, 5}}
  \cup {Condition("neumann", {a}, 5, 0) : a \in 1..2}
  \cup {Condition("robin", {a}, 5, c) : a \in 1..2, c \in {-1, 0, 1}}
  \cup {Condition("dirichlet", {1, 2}, 5, 0)}
Drifting == <<Condition("dirichlet", {1}, 1, 0), Condition("dirichlet", {2}, 0, 0),
              Condition("dirichlet", {3}, 2, 0)>>
ConditionLists == {<<>>, Drifting} \cup {<<c>> : c \in Single} \cup (Single \X Single)

TerminalLists == {<<>>} \cup {<<{a}>> : a \in 1..3} \cup {<<{1}, {a}>> : a \in 1..3} \cup {<<{3}, {2}>>}

ModelsDef ==
  [formulation : {"electrostatic"}, order : {1, 2}, onAxis : {{}}, tag : ElectrostaticTags,
   conditions : ConditionLists, terminals : TerminalLists]
  \cup
  [formulation : {"magnetic"}, order : {1, 2}, onAxis : {{}, {3}, {1, 2, 3}},
   tag : MagneticTags, conditions : ConditionLists, terminals : {<<>>}]

\* Without boundary conditions.
IdleModel ==
  [formulation |-> "magnetic", order |-> 1, onAxis |-> {}, tag |-> Around(1, 1, 2, 2, 3, 0),
   conditions |-> <<>>, terminals |-> <<>>]
===============================================================================
