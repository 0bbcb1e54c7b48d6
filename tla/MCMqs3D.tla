-------------------------------- MODULE MCMqs3D --------------------------------
(* TLC instance of Mqs3D: a descending and a repeated frequency, weights on both  *)
(* sides of the floor.                                                       *)
EXTENDS Mqs3D

Descending == <<[name |-> "a", Frequency |-> 2, driven |-> {2}],
                [name |-> "b", Frequency |-> 1, driven |-> {1, 3}]>>
Repeated == <<[name |-> "a", Frequency |-> 1, driven |-> {1}],
              [name |-> "b", Frequency |-> 3, driven |-> {}],
              [name |-> "c", Frequency |-> 1, driven |-> {2}]>>
ScenarioListsDef == {Descending, Repeated}
===============================================================================
