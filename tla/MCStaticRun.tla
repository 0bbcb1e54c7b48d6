----------------------------- MODULE MCStaticRun -----------------------------
(* TLC instance of StaticRun: scenarios that repeat a drive and drive nothing.   *)
EXTENDS StaticRun

ScenarioListsDef == {<<{1}, {}, {1, 2}>>, <<{2}>>}
===============================================================================
