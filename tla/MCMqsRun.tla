------------------------------- MODULE MCMqsRun -------------------------------
(* TLC instance of MqsRun: scenario lists with a repeated and a descending      *)
(* frequency, every scenario name sanitized to the same label.                 *)
EXTENDS MqsRun

\* Declared in descending order, with an undriven terminal.
Descending == <<[name |-> "a", Frequency |-> 60, driven |-> {2}],
                [name |-> "b", Frequency |-> 50, driven |-> {1, 2}]>>
\* A frequency that comes back after another.
Repeated == <<[name |-> "a", Frequency |-> 50, driven |-> {1}],
              [name |-> "b", Frequency |-> 60, driven |-> {}],
              [name |-> "c", Frequency |-> 50, driven |-> {2}]>>
ScenarioListsDef == {Descending, Repeated}
OutputSetsDef == {{}, {"hdf5"}, {"paraview", "gmsh", "probes", "hdf5"}}
NamesDef == {"a", "b", "c"} \X (0..NTerminals)
LabelDef == [n \in NamesDef |-> "label"]
===============================================================================
